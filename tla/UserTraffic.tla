---------------------------- MODULE UserTraffic ----------------------------
(***************************************************************************)
(* Traffic accounting of one NeXT-Server node: the user table and the      *)
(* per-user state of users.go, the life of a proxied connection as         *)
(* router.go drives it, the traffic part of the push loop and the shutdown *)
(* of server.go, and the panel that is billed.                             *)
(*                                                                         *)
(* Processes that interleave: the pull loop (userTable.update), the push   *)
(* loop (collectTraffic, ReportTraffic, restoreTraffic), one goroutine per *)
(* connection, and Server.Close.                                           *)
(*                                                                         *)
(* A counter (upload and download together) holds the SET of chunks of     *)
(* bytes it has counted and not yet given away; its value is their size.   *)
(* Adding is union and Swap(0) empties it.  CountedOnce below shows that   *)
(* the unions are of disjoint sets, so that they are sums.                 *)
(*                                                                         *)
(* Speed limits (PanelSync), source addresses (OnlineAddresses) and detect *)
(* rules (Audit) do not influence the accounting and are left to the       *)
(* modules named.                                                          *)
(***************************************************************************)
EXTENDS FiniteSets, Naturals

CONSTANTS
    Users,    \* panel user IDs
    States,   \* userState objects; bounds how many are in use at once
    Conns,    \* proxied connections; bounds how many are in use at once
    Chunks,   \* chunks of proxied bytes; each is counted once
    None      \* nil

ASSUME NoneAssumption == None \notin Users \union States

VARIABLES
    \* the user table
    current,   \* userTable.current: user ID -> *userState or nil
    retired,   \* userTable.retired
    leaving,   \* removed by update, which has not retired them yet
    \* the userState objects
    id,        \* userState.id
    canceled,  \* states whose cancel function was called
    count,     \* the upload and download counters
    \* the connections
    phase,     \* "idle", "routing": user looked up, not yet open, "open"
    held,      \* the *userState a connection was routed with
    \* the goroutines
    server,    \* "running", "canceled", "final": in Close, "closed"
    pull,      \* "idle", "retire": between Store and Lock, "done"
    push,      \* where pushOnce (or Close, for the final report) is
    todo,      \* states the collecting loop has still to visit
    checking,  \* retired state with nothing to report, being checked
    missed,    \* user ID that restoreTraffic did not find in the table
    items,     \* []adapter.UserTraffic between collecting and reporting
    \* what really happened
    relayed,   \* user ID -> chunks counted on the user's connections
    ledger,    \* user ID -> chunks the panel has billed
    twice,     \* chunks the panel has billed more than once
    unsure     \* chunks of accepted reports whose answer was lost

tableVars == <<current, retired, leaving>>
stateVars == <<id, canceled, count>>
connVars  == <<phase, held>>
pushVars  == <<push, todo, checking, missed, items>>
panelVars == <<ledger, twice, unsure>>
vars == <<tableVars, stateVars, connVars, server, pull, pushVars,
          relayed, panelVars>>

Item == [user : Users, chunks : SUBSET Chunks]

\* ctx of a user state: canceled with the state, or with the server.
IsCanceled(s) == s \in canceled \/ server # "running"

\* userTable.all: the states that are served.
All == {current[u] : u \in Users} \ {None}

\* The states some later collectTraffic will visit.
Reachable == All \union leaving \union retired

\* userState.activeConnections, as a predicate.
HasActive(s) == \E c \in Conns : phase[c] = "open" /\ held[c] = s

\* Objects nobody refers to any more, or never did.
Free == {s \in States \ Reachable :
            count[s] = {} /\ \A c \in Conns : held[c] # s}

Billed == UNION {ledger[u] : u \in Users}
InItems == UNION {i.chunks : i \in items}

Init ==
    /\ current = [u \in Users |-> None]
    /\ retired = {} /\ leaving = {}
    /\ id = [s \in States |-> None]
    /\ canceled = {}
    /\ count = [s \in States |-> {}]
    /\ phase = [c \in Conns |-> "idle"]
    /\ held = [c \in Conns |-> None]
    /\ server = "running" /\ pull = "idle" /\ push = "idle"
    /\ todo = {} /\ checking = None /\ missed = None /\ items = {}
    /\ relayed = [u \in Users |-> {}]
    /\ ledger = [u \in Users |-> {}]
    /\ twice = {} /\ unsure = {}

-----------------------------------------------------------------------------
(* The pull loop: userTable.update.                                        *)

\* The bound on objects: enough are left for restoreTraffic to put back the
\* traffic of every user.
WithinPool(new) == Cardinality(Free) >= Cardinality(new) + Cardinality(Users)

\* Wrong variant: users that stay get a fresh state, too.
UpdateStoreAllFresh(list) ==
    /\ pull = "idle"
    /\ WithinPool(list)
    /\ \E fresh \in [list -> Free] :
         /\ \A u, v \in list : fresh[u] = fresh[v] => u = v
         /\ current' = [u \in Users |-> IF u \in list THEN fresh[u] ELSE None]
         /\ id' = [s \in States |-> IF \E u \in list : fresh[u] = s
                                    THEN CHOOSE u \in list : fresh[u] = s ELSE id[s]]
         /\ canceled' = canceled \ {fresh[u] : u \in list}
    /\ leaving' = {current[u] : u \in Users \ list} \ {None}
    /\ pull' = "retire"
    /\ UNCHANGED <<retired, count, connVars, server, pushVars, relayed, panelVars>>

\* Users that stay keep their state, new ones get a fresh one, and the new
\* table is stored.  The states that are no longer in it are not retired yet.
UpdateStore(list) ==
    LET new == {u \in list : current[u] = None}
    IN  /\ pull = "idle"
        /\ WithinPool(new)
        /\ \E fresh \in [new -> Free] :
             /\ \A u, v \in new : fresh[u] = fresh[v] => u = v
             /\ current' = [u \in Users |-> IF u \in new THEN fresh[u]
                                            ELSE IF u \in list THEN current[u]
                                            ELSE None]
             /\ id' = [s \in States |->
                         IF \E u \in new : fresh[u] = s
                         THEN CHOOSE u \in new : fresh[u] = s
                         ELSE id[s]]
             /\ canceled' = canceled \ {fresh[u] : u \in new}
        /\ leaving' = {current[u] : u \in Users \ list} \ {None}
        /\ pull' = "retire"
        /\ UNCHANGED <<retired, count, connVars, server, pushVars, relayed,
                       panelVars>>

\* Wrong variant: states that left are retired and not canceled.
UpdateRetireNoCancel ==
    /\ pull = "retire"
    /\ push \notin {"retired", "check"}
    /\ retired' = retired \union leaving
    /\ leaving' = {}
    /\ pull' = "idle"
    /\ UNCHANGED <<current, stateVars, connVars, server, pushVars, relayed, panelVars>>

\* Under userTable.access: states that left are canceled and retired.
UpdateRetire ==
    /\ pull = "retire"
    /\ push \notin {"retired", "check"}
    /\ canceled' = canceled \union leaving
    /\ retired' = retired \union leaving
    /\ leaving' = {}
    /\ pull' = "idle"
    /\ UNCHANGED <<current, id, count, connVars, server, pushVars, relayed,
                   panelVars>>

PullStop ==
    /\ pull = "idle" /\ server = "canceled"
    /\ pull' = "done"
    /\ UNCHANGED <<tableVars, stateVars, connVars, server, pushVars, relayed,
                   panelVars>>

-----------------------------------------------------------------------------
(* Connections: RouteConnectionEx and RoutePacketConnectionEx.             *)

\* connectionUser: a user that is not in the table is refused.
Route(c, u) ==
    /\ phase[c] = "idle" /\ server # "closed"
    /\ current[u] # None
    /\ phase' = [phase EXCEPT ![c] = "routing"]
    /\ held' = [held EXCEPT ![c] = current[u]]
    /\ UNCHANGED <<tableVars, stateVars, server, pull, pushVars, relayed,
                   panelVars>>

\* A detect rule hit, a failed lookup or a private destination.
Refuse(c) ==
    /\ phase[c] = "routing" /\ server # "closed"
    /\ phase' = [phase EXCEPT ![c] = "idle"]
    /\ held' = [held EXCEPT ![c] = None]
    /\ UNCHANGED <<tableVars, stateVars, server, pull, pushVars, relayed,
                   panelVars>>

\* userState.open and context.AfterFunc.
Open(c) ==
    /\ phase[c] = "routing" /\ server # "closed"
    /\ phase' = [phase EXCEPT ![c] = "open"]
    /\ UNCHANGED <<tableVars, stateVars, held, server, pull, pushVars, relayed,
                   panelVars>>

\* The counter connection adds what a read or a write moved.
Relay(c, b) ==
    LET s == held[c]
    IN  /\ phase[c] = "open" /\ server # "closed"
        /\ b \notin UNION {relayed[u] : u \in Users}
        /\ count' = [count EXCEPT ![s] = @ \union {b}]
        /\ relayed' = [relayed EXCEPT ![id[s]] = @ \union {b}]
        /\ UNCHANGED <<tableVars, id, canceled, connVars, server, pull,
                       pushVars, panelVars>>

\* Wrong variant: the connection still refers to the state.
EndStillHeld(c) ==
    /\ phase[c] = "open" /\ server # "closed"
    /\ phase' = [phase EXCEPT ![c] = "idle"]
    /\ UNCHANGED <<tableVars, stateVars, held, server, pull, pushVars, relayed,
                   panelVars>>

\* The close handler: stop, done.
End(c) ==
    /\ phase[c] = "open" /\ server # "closed"
    /\ phase' = [phase EXCEPT ![c] = "idle"]
    /\ held' = [held EXCEPT ![c] = None]
    /\ UNCHANGED <<tableVars, stateVars, server, pull, pushVars, relayed,
                   panelVars>>

-----------------------------------------------------------------------------
(* The push loop: collectTraffic.                                          *)

\* Wrong variant: the counters are read and not reset.
CollectLoad(s) ==
    /\ items' = IF count[s] = {} THEN items
                ELSE items \union {[user |-> id[s], chunks |-> count[s]]}
    /\ count' = count
    /\ todo' = todo \ {s}

\* collect(state): swap the counters and keep what they held, if anything.
Collect(s) ==
    /\ items' = IF count[s] = {} THEN items
                ELSE items \union {[user |-> id[s], chunks |-> count[s]]}
    /\ count' = [count EXCEPT ![s] = {}]
    /\ todo' = todo \ {s}

CollectStart ==
    /\ push = "idle" /\ server \in {"running", "canceled"}
    /\ push' = "collect"
    /\ todo' = All
    /\ UNCHANGED <<tableVars, stateVars, connVars, server, pull, checking,
                   missed, items, relayed, panelVars>>

CollectServed(s) ==
    /\ push = "collect" /\ s \in todo
    /\ Collect(s)
    /\ UNCHANGED <<tableVars, id, canceled, connVars, server, pull, push,
                   checking, missed, relayed, panelVars>>


\* userTable.access is taken here and released by CollectDone.
CollectLock ==
    /\ push = "collect" /\ todo = {}
    /\ push' = "retired"
    /\ todo' = retired
    /\ UNCHANGED <<tableVars, stateVars, connVars, server, pull, checking,
                   missed, items, relayed, panelVars>>

\* A retired state that had something to report is kept.
CollectRetired(s) ==
    /\ push = "retired" /\ s \in todo
    /\ Collect(s)
    /\ IF count[s] = {}
       THEN push' = "check" /\ checking' = s
       ELSE UNCHANGED <<push, checking>>
    /\ UNCHANGED <<tableVars, id, canceled, connVars, server, pull, missed,
                   relayed, panelVars>>

\* One that had nothing is kept while it has connections, and dropped else.
CheckActive ==
    /\ push = "check"
    /\ retired' = IF HasActive(checking) THEN retired ELSE retired \ {checking}
    /\ push' = "retired"
    /\ checking' = None
    /\ UNCHANGED <<current, leaving, stateVars, connVars, server, pull, todo,
                   missed, items, relayed, panelVars>>

\* What follows the report: the next push, or the end of Close.
Finish ==
    IF server = "final" THEN push' = "done" /\ server' = "closed"
    ELSE push' = "idle" /\ UNCHANGED server

CollectDone ==
    /\ push = "retired" /\ todo = {}
    /\ IF items = {} THEN Finish ELSE push' = "report" /\ UNCHANGED server
    /\ UNCHANGED <<tableVars, stateVars, connVars, pull, todo, checking,
                   missed, items, relayed, panelVars>>

-----------------------------------------------------------------------------
(* ReportTraffic and the panel.                                            *)

\* The panel adds every item of an accepted report to its user's total.
Credit ==
    /\ ledger' = [u \in Users |-> ledger[u] \union
                    UNION {i.chunks : i \in {j \in items : j.user = u}}]
    /\ twice' = twice \union (Billed \intersect InItems)

\* Wrong variant: the traffic of a failed report is dropped.
ReportFailedDropped == Finish /\ items' = {}

\* An error: the traffic is put back, except by Close, which gives up.
ReportFailed ==
    IF server = "final" THEN Finish /\ items' = {}
    ELSE push' = "restore" /\ UNCHANGED <<server, items>>

\* Wrong variant: an accepted report is put back as a failed one is.
ReportAcceptedRestored ==
    /\ push = "report"
    /\ Credit
    /\ ReportFailed
    /\ UNCHANGED <<tableVars, stateVars, connVars, pull, todo, checking,
                   missed, relayed, unsure>>

ReportAccepted ==
    /\ push = "report"
    /\ Credit
    /\ items' = {}
    /\ Finish
    /\ UNCHANGED <<tableVars, stateVars, connVars, pull, todo, checking,
                   missed, relayed, unsure>>

\* The report does not reach the panel, or the panel rejects it.
ReportRefused ==
    /\ push = "report"
    /\ ReportFailed
    /\ UNCHANGED <<tableVars, stateVars, connVars, pull, todo, checking,
                   missed, relayed, panelVars>>

\* The panel accepts it and the answer is lost: a timeout, a broken
\* connection, or the server's context canceled meanwhile.
ReportAnswerLost ==
    /\ push = "report"
    /\ Credit
    /\ unsure' = unsure \union InItems
    /\ ReportFailed
    /\ UNCHANGED <<tableVars, stateVars, connVars, pull, todo, checking,
                   missed, relayed>>

-----------------------------------------------------------------------------
(* restoreTraffic, item by item.                                           *)

Restored(i, s) ==
    /\ count' = [count EXCEPT ![s] = @ \union i.chunks]
    /\ items' = items \ {i}
    /\ push' = IF items = {i} THEN "idle" ELSE "restore"

RestoreServed(i) ==
    /\ push = "restore" /\ current[i.user] # None
    /\ Restored(i, current[i.user])
    /\ UNCHANGED <<tableVars, id, canceled, connVars, server, pull, todo,
                   checking, missed, relayed, panelVars>>

\* The lookup fails; the table may change before access is locked.
RestoreMiss(i) ==
    /\ push = "restore" /\ current[i.user] = None
    /\ push' = "locate"
    /\ missed' = i.user
    /\ UNCHANGED <<tableVars, stateVars, connVars, server, pull, todo,
                   checking, items, relayed, panelVars>>

\* Wrong variant: any retired state will do.
RestoreRetiredAnyone(i) ==
    /\ push = "locate" /\ i.user = missed
    /\ \E s \in retired : Restored(i, s)
    /\ missed' = None
    /\ UNCHANGED <<tableVars, id, canceled, connVars, server, pull, todo,
                   checking, relayed, panelVars>>

\* It is looked for among the retired states, by ID.
RestoreRetired(i) ==
    /\ push = "locate" /\ i.user = missed
    /\ \E s \in retired : id[s] = i.user /\ Restored(i, s)
    /\ missed' = None
    /\ UNCHANGED <<tableVars, id, canceled, connVars, server, pull, todo,
                   checking, relayed, panelVars>>

\* Already dropped: a fresh state, canceled and retired, carries it.
RestoreFresh(i) ==
    /\ push = "locate" /\ i.user = missed
    /\ \A s \in retired : id[s] # i.user
    /\ \E s \in Free :
         /\ id' = [id EXCEPT ![s] = i.user]
         /\ canceled' = canceled \union {s}
         /\ retired' = retired \union {s}
         /\ Restored(i, s)
    /\ missed' = None
    /\ UNCHANGED <<current, leaving, connVars, server, pull, todo, checking,
                   relayed, panelVars>>

PushStop ==
    /\ push = "idle" /\ server = "canceled"
    /\ push' = "done"
    /\ UNCHANGED <<tableVars, stateVars, connVars, server, pull, todo,
                   checking, missed, items, relayed, panelVars>>

-----------------------------------------------------------------------------
(* Server.Close.                                                           *)

Cancel ==
    /\ server = "running"
    /\ server' = "canceled"
    /\ UNCHANGED <<tableVars, stateVars, connVars, pull, pushVars, relayed,
                   panelVars>>

\* The loops have ended; the node server and the connections are closed,
\* which ends the latter at some later time, and the last traffic collected.
FinalCollect ==
    /\ server = "canceled" /\ pull = "done" /\ push = "done"
    /\ server' = "final"
    /\ push' = "collect"
    /\ todo' = All
    /\ UNCHANGED <<tableVars, stateVars, connVars, pull, checking, missed,
                   items, relayed, panelVars>>

\* The process has exited.
Exited == server = "closed" /\ UNCHANGED vars

-----------------------------------------------------------------------------
Pull == (\E list \in SUBSET Users : UpdateStore(list)) \/ UpdateRetire \/ PullStop

Collecting ==
    \/ CollectStart
    \/ \E s \in States : CollectServed(s) \/ CollectRetired(s)
    \/ CollectLock \/ CheckActive \/ CollectDone

Reporting == ReportAccepted \/ ReportRefused \/ ReportAnswerLost

Restoring == \E i \in items :
    RestoreServed(i) \/ RestoreMiss(i) \/ RestoreRetired(i) \/ RestoreFresh(i)

Connection == \E c \in Conns :
    \/ \E u \in Users : Route(c, u)
    \/ Refuse(c) \/ Open(c) \/ End(c)
    \/ \E b \in Chunks : Relay(c, b)

Next == \/ Pull \/ Collecting \/ Reporting \/ Restoring \/ PushStop
        \/ Connection \/ Cancel \/ FinalCollect \/ Exited

Spec == Init /\ [][Next]_vars

\* A canceled context closes the connection, which ends its copy loops.
EndCanceled(c) == phase[c] = "open" /\ IsCanceled(held[c]) /\ End(c)

\* The loops keep running, update gets userTable.access (a sync.Mutex starves
\* nobody), canceled connections end, and a panel that is asked again and
\* again answers in the end.
FairSpec ==
    /\ Spec
    /\ SF_vars(UpdateRetire)
    /\ WF_vars(Collecting) /\ WF_vars(Reporting) /\ WF_vars(Restoring)
    /\ SF_vars(ReportAccepted)
    /\ \A c \in Conns : WF_vars(EndCanceled(c))

-----------------------------------------------------------------------------
(* Properties.                                                             *)

\* Every variable has its type; a connection holds a state exactly while it is
\* routed or open, and the push loop a candidate exactly in its own steps
\* (userState, userTable, pushOnce).
TypeOK ==
    /\ current \in [Users -> States \union {None}]
    /\ retired \in SUBSET States
    /\ leaving \in SUBSET States
    /\ id \in [States -> Users \union {None}]
    /\ canceled \in SUBSET States
    /\ count \in [States -> SUBSET Chunks]
    /\ phase \in [Conns -> {"idle", "routing", "open"}]
    /\ held \in [Conns -> States \union {None}]
    /\ \A c \in Conns : phase[c] = "idle" <=> held[c] = None
    /\ server \in {"running", "canceled", "final", "closed"}
    /\ pull \in {"idle", "retire", "done"}
    /\ push \in {"idle", "collect", "retired", "check", "report", "restore",
                 "locate", "done"}
    /\ todo \in SUBSET States
    /\ checking \in States \union {None}
    /\ push = "check" <=> checking # None
    /\ missed \in Users \union {None}
    /\ push = "locate" <=> missed # None
    /\ items \in SUBSET Item
    /\ relayed \in [Users -> SUBSET Chunks]
    /\ ledger \in [Users -> SUBSET Chunks]
    /\ twice \in SUBSET Chunks
    /\ unsure \in SUBSET Chunks

\* The panel only bills a user for bytes that user's connections moved,
\* whatever states were retired, dropped or made afresh in between
\* (userTable.restoreTraffic finds the state to put traffic back by ID).
RightAccount == \A u \in Users : ledger[u] \subseteq relayed[u]

\* A byte is in one counter or one report at a time, and the panel bills it
\* a second time only if the answer to a report holding it was lost
\* (userTable.collectTraffic and restoreTraffic never duplicate a count).
CountedOnce ==
    /\ \A s, t \in States : s # t => count[s] \intersect count[t] = {}
    /\ \A i, j \in items : i # j => i.chunks \intersect j.chunks = {}
    /\ \A s \in States, i \in items : count[s] \intersect i.chunks = {}
    /\ twice \subseteq unsure

\* No byte of a served user is lost: until the server has closed, a byte is
\* billed, in a report, or in a counter, and a counter that no later
\* collectTraffic reads belongs to a user the panel stopped serving.
ServedTrafficKept ==
    server # "closed" =>
        /\ \A u \in Users : \A b \in relayed[u] :
              \/ b \in ledger[u] \union InItems
              \/ \E s \in States : b \in count[s]
        /\ \A s \in States :
              count[s] # {} => s \in Reachable \union canceled

\* A connection whose user is no longer served by the state it was routed
\* with ends, also when it was still being routed when the user was removed
\* (userTable.update cancels the state; context.AfterFunc closes).
RemovedUserDisconnected ==
    \A c \in Conns :
        (phase[c] = "open" /\ held[c] \notin All)
            ~> (phase[c] # "open" \/ server = "closed")

\* Bytes counted on a state that is collected reach the panel, through
\* failed reports and removals, unless the server is shut down first.
TrafficReported ==
    \A b \in Chunks :
        (\E u \in Users : b \in relayed[u])
            ~> \/ b \in Billed
               \/ server # "running"
               \/ \E s \in States \ Reachable : b \in count[s]


Account == INSTANCE Billing WITH
    moved <- relayed, billed <- ledger, doubt <- unsure, closed <- server = "closed"

\* The accounting implements Billing: whatever is collected, put back, retired
\* or made afresh, each report the panel accepts bills every chunk to the user
\* who moved it, and none that an answered report billed before.
ImplementsBilling == Account!Spec

\* users.go says collectTraffic "drops retired users that have nothing left
\* to report": no byte is in the counter of a dropped state.
NothingLeftInDropped ==
    server = "running" => \A s \in States \ Reachable : count[s] = {}
=============================================================================

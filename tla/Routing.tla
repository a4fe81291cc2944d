------------------------------ MODULE Routing ------------------------------
(***************************************************************************)
(* A connection on its way: the auditor of audit.go, the handlers of       *)
(* router.go (audit, resolve, check, dial), the filter of destination.go,  *)
(* and the detect logs of the push loop and of Server.Close.  Its user is  *)
(* looked up in UserTraffic.                                               *)
(*                                                                         *)
(* Processes that interleave: the pull loop (setRules), one goroutine per  *)
(* connection, the push loop (collect, ReportDetectLogs, restore), Close.  *)
(*                                                                         *)
(* Text is a word.  A rule matches one word; hexPayload(w) is the hex      *)
(* encoding of w, which is no word of its own.                             *)
(***************************************************************************)
EXTENDS Destination, Naturals, Sequences

CONSTANTS
    Users,     \* panel user IDs
    Words,     \* domains and payloads that rules may be about
    RuleLists, \* the lists of detect rules the panel may send
    Conns,     \* connections; bounds how many are in use at once
    MaxHits,   \* bound: how many hits are recorded
    None       \* nil, or nothing

ASSUME MaxHitsAssumption == MaxHits \in Nat
ASSUME AbsentAssumption == None \notin Words \union Destinations

hexPayload(w) == [hex |-> w]

\* What a rule's pattern may be.
Patterns == Words \union Domains \union Addrs \union {hexPayload(w) : w \in Words}

ASSUME RulesAssumption ==
    \A list \in RuleLists : \A n \in DOMAIN list :
        list[n].pattern \in Patterns /\ list[n].type \in {"text", "hex"}

VARIABLES
    options,   \* the local options
    rules,     \* auditor.rules: a list, or None before the first one
    hits,      \* auditor.hits: pairs of a user and a rule
    logs,      \* the detect logs being reported
    push,      \* "idle", "report", "restore", "done"
    server,    \* "running", "canceled", "closed"
    conn,      \* the connections
    recorded,  \* what happened: hits so far, numbered
    owed,      \* what happened: numbers of the hits no accepted report holds
    sent       \* what happened: those of them the report being sent holds

auditVars == <<rules, hits, recorded, owed>>
pushVars == <<logs, push, sent>>
vars == <<options, auditVars, pushVars, server, conn>>

NoConn == [at |-> "idle"]

\* `cached` is the packet that auditPacket read and that is still to be sent,
\* `target` what was dialed; what happened: `out` is where the last packet went.
Conn == [at : {"audit", "route", "open"}, user : Users, network : {"tcp", "udp"},
         dest : Destinations, cached : Destinations \union {None},
         target : Targets \union {None}, out : Targets \union {None}]

Init ==
    /\ options \in Options
    /\ rules = None /\ hits = {} /\ logs = {}
    /\ push = "idle" /\ server = "running"
    /\ conn = [c \in Conns |-> NoConn]
    /\ recorded = <<>> /\ owed = {} /\ sent = {}

-----------------------------------------------------------------------------
(* The rules and the audit.                                                *)

setRules(list) ==
    /\ server = "running" /\ list # rules
    /\ rules' = list
    /\ UNCHANGED <<options, hits, recorded, owed, pushVars, server, conn>>

enabled == rules # None /\ rules # <<>>

destinationHost(d) == IF d = NoAddr THEN None ELSE d

\* What is audited: the host, the sniffed domain and the first payload.
Content(host) == [host : {host}, domain : Words \union {None}, payload : Words \union {None}]

\* Hex rules see the payload only; the others see host, domain and payload.
Applies(rule, x) ==
    IF rule.type = "hex"
    THEN x.payload # None /\ rule.pattern = hexPayload(x.payload)
    ELSE rule.pattern \in {x.host, x.domain, x.payload} \ {None}

\* The rules that apply, as positions in the list; match takes the first.
Matching(x) == IF rules = None THEN {} ELSE {n \in DOMAIN rules : Applies(rules[n], x)}

\* A connection is routed, and audited when there are rules at that time.
Route(c, u, network, d) ==
    /\ conn[c].at = "idle" /\ server # "closed"
    /\ conn' = [conn EXCEPT ![c] =
          [at |-> IF enabled THEN "audit" ELSE "route", user |-> u, network |-> network,
           dest |-> d, cached |-> None, target |-> None, out |-> None]]
    /\ UNCHANGED <<options, auditVars, pushVars, server>>

\* The destination the rest of the handler goes by, once the first packet was
\* read: a UDP session need not name one.  A mapped 0.0.0.0 is not IsUnspecified.
Replaced(d, first) ==
    IF d = NoAddr \/ (IsIP(d) /\ d.net = "unspecified" /\ ~d.mapped) THEN first ELSE d

\* The first payload is there: auditStream's is for the destination, auditPacket's
\* for where it says.
First(c, first) ==
    /\ conn[c].at = "audit" /\ server # "closed"
    /\ conn[c].network = "tcp" => first = conn[c].dest

\* No rule matches it.
Pass(c, first, x) ==
    /\ First(c, first)
    /\ Matching(x) = {}
    /\ conn' = [conn EXCEPT ![c].at = "route",
          ![c].dest = IF conn[c].network = "udp" THEN Replaced(@, first) ELSE @,
          ![c].cached = IF conn[c].network = "udp" THEN first ELSE None]
    /\ UNCHANGED <<options, auditVars, pushVars, server>>

\* A rule matches: the hit is recorded and the connection refused.
Block(c, first, x) ==
    /\ First(c, first)
    /\ Len(recorded) < MaxHits
    /\ \E n \in Matching(x) :
         /\ \A m \in Matching(x) : n <= m
         /\ hits' = hits \union {[user |-> conn[c].user, rule |-> rules[n].id]}
         /\ recorded' = Append(recorded, [user |-> conn[c].user, rule |-> rules[n].id])
    /\ owed' = owed \union {Len(recorded) + 1}
    /\ conn' = [conn EXCEPT ![c] = NoConn]
    /\ UNCHANGED <<options, rules, pushVars, server>>

-----------------------------------------------------------------------------
(* The rest of the handlers, and the connection.                           *)

\* What remains of the lookup's answer after the check.
Addresses(c, answer) ==
    checkDestination(options, resolve(options, conn[c].dest, answer))

\* resolve and checkDestination let it pass, and a dial succeeds.  A connection
\* sends to what it was dialed to.
Open(c, answer) ==
    /\ conn[c].at = "route" /\ server # "closed"
    /\ ~Refused(options, conn[c].dest, resolve(options, conn[c].dest, answer))
    /\ \E t \in DialContext(options, conn[c].dest, Addresses(c, answer)) :
          conn' = [conn EXCEPT ![c].at = "open", ![c].target = t,
                               ![c].out = IF conn[c].network = "tcp" THEN t ELSE None]
    /\ UNCHANGED <<options, auditVars, pushVars, server>>

\* A UDP session sends the packet that was read for the audit, then others, each
\* where it says.
Send(c, packet) ==
    /\ conn[c].at = "open" /\ conn[c].network = "udp" /\ server # "closed"
    /\ conn[c].cached \in {None, packet}
    /\ LET to == WritePacket(options, conn[c].dest, conn[c].target, packet)
       IN  conn' = [conn EXCEPT ![c].cached = None,
                                ![c].out = IF to = {} THEN @ ELSE CHOOSE d \in to : TRUE]
    /\ UNCHANGED <<options, auditVars, pushVars, server>>

\* The first packet cannot be read, the lookup or every dial fails, the
\* destination is refused, or the connection ends.
End(c) ==
    /\ conn[c].at # "idle" /\ server # "closed"
    /\ conn' = [conn EXCEPT ![c] = NoConn]
    /\ UNCHANGED <<options, auditVars, pushVars, server>>

-----------------------------------------------------------------------------
(* The detect logs of pushOnce.                                            *)

\* collect empties the set under the lock.
Collect ==
    /\ push = "idle" /\ hits # {} /\ server # "closed"
    /\ logs' = hits
    /\ hits' = {}
    /\ sent' = owed
    /\ push' = "report"
    /\ UNCHANGED <<options, rules, recorded, owed, server, conn>>

\* Wrong variant: the logs stay.
ReportAcceptedKeepsLogs ==
    /\ push = "report"
    /\ owed' = owed \ sent
    /\ sent' = {}
    /\ push' = "idle"
    /\ UNCHANGED <<options, rules, hits, recorded, logs, server, conn>>

\* The panel accepts the report.
ReportAccepted ==
    /\ push = "report"
    /\ owed' = owed \ sent
    /\ logs' = {} /\ sent' = {}
    /\ push' = "idle"
    /\ UNCHANGED <<options, rules, hits, recorded, server, conn>>

\* Wrong variant: the logs are dropped.
ReportFailedDropped ==
    /\ push = "report"
    /\ logs' = {} /\ sent' = {}
    /\ push' = "idle"
    /\ UNCHANGED <<options, auditVars, server, conn>>

\* The panel does not get the report or rejects it, or its answer is lost.
ReportFailed ==
    /\ push = "report"
    /\ push' = "restore"
    /\ UNCHANGED <<options, auditVars, logs, sent, server, conn>>

\* Wrong variant: the logs replace what was recorded in the meantime.
restoreReplaces ==
    /\ push = "restore"
    /\ hits' = logs
    /\ logs' = {} /\ sent' = {}
    /\ push' = "idle"
    /\ UNCHANGED <<options, rules, recorded, owed, server, conn>>

\* restore merges the logs into what was recorded in the meantime.
restore ==
    /\ push = "restore"
    /\ hits' = hits \union logs
    /\ logs' = {} /\ sent' = {}
    /\ push' = "idle"
    /\ UNCHANGED <<options, rules, recorded, owed, server, conn>>

-----------------------------------------------------------------------------
(* Server.Close: the loops end, and nothing is reported but traffic.       *)

Cancel ==
    /\ server = "running"
    /\ server' = "canceled"
    /\ UNCHANGED <<options, auditVars, pushVars, conn>>

PushStop ==
    /\ server = "canceled" /\ push = "idle"
    /\ push' = "done"
    /\ UNCHANGED <<options, auditVars, logs, sent, server, conn>>

Close ==
    /\ server = "canceled" /\ push = "done"
    /\ server' = "closed"
    /\ UNCHANGED <<options, auditVars, pushVars, conn>>

\* The process has exited.
Exited == server = "closed" /\ UNCHANGED vars

Answers == SUBSET Addrs \ {{}}

Connection(c) ==
    \/ \E u \in Users, network \in {"tcp", "udp"}, d \in Destinations : Route(c, u, network, d)
    \/ \E first \in Destinations : \E x \in Content(destinationHost(first)) :
          Pass(c, first, x) \/ Block(c, first, x)
    \/ \E answer \in Answers : Open(c, answer)
    \/ \E packet \in Destinations : Send(c, packet)
    \/ End(c)

Next == \/ \E list \in RuleLists : setRules(list)
        \/ \E c \in Conns : Connection(c)
        \/ Collect \/ ReportAccepted \/ ReportFailed \/ restore
        \/ Cancel \/ PushStop \/ Close \/ Exited

Spec == Init /\ [][Next]_vars

\* The push loop keeps running, and a panel that is asked again and again
\* answers in the end.
FairSpec ==
    /\ Spec
    /\ WF_vars(Collect) /\ WF_vars(restore)
    /\ WF_vars(ReportAccepted \/ ReportFailed) /\ SF_vars(ReportAccepted)

-----------------------------------------------------------------------------
(* Properties.                                                             *)

Log == [user : Users, rule : {r.id : r \in UNION {{l[n] : n \in DOMAIN l} : l \in RuleLists}}]

\* Every variable has its type, and there are logs exactly while a report of
\* them is under way (auditor, pushOnce).
TypeOK ==
    /\ rules \in RuleLists \union {None}
    /\ hits \in SUBSET Log /\ logs \in SUBSET Log
    /\ push \in {"idle", "report", "restore", "done"}
    /\ logs # {} <=> push \in {"report", "restore"}
    /\ server \in {"running", "canceled", "closed"}
    /\ options \in Options
    /\ conn \in [Conns -> Conn \union {NoConn}]
    /\ recorded \in Seq(Log) /\ Len(recorded) <= MaxHits
    /\ owed \in SUBSET (1 .. Len(recorded)) /\ sent \in SUBSET owed

\* A hit waits in the set, or in the report it was collected for, until a
\* report that was collected after it is accepted: failed reports, and the
\* same hit recorded again while a report holding it is under way, lose
\* nothing (auditor.collect, restore).
HitKept ==
    \A n \in owed : recorded[n] \in IF n \in sent THEN logs ELSE hits

\* "Users cannot reach the node itself or the networks only it can reach", given
\* directly or resolved from a domain, by TCP or any packet of a UDP session, and
\* whatever the audit made of the destination: what leaves goes to a public
\* address, or as a domain to a front proxy that resolves it (README.md:73).
PrivateUnreached ==
    ~options.allowPrivate => \A c \in Conns :
        conn[c].at = "idle" \/ conn[c].out = None
            \/ IF IsFqdn(conn[c].out) THEN ~options.resolveDomain
               ELSE conn[c].out # NoAddr /\ conn[c].out.net = "public"

\* Every hit reaches the panel while the server runs.
HitReported ==
    \A n \in 1 .. MaxHits : n \in owed ~> (n \notin owed \/ server # "running")
=============================================================================

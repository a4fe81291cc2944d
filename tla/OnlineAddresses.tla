-------------------------- MODULE OnlineAddresses --------------------------
(***************************************************************************)
(* The source addresses of one served user: open, onlineIPs and            *)
(* activeConnections of users.go, and the online part of pushOnce.         *)
(*                                                                         *)
(* Connections come and go while the push loop takes the time, lists the   *)
(* addresses and reports them.  Time is a counter; several steps may       *)
(* happen at one time, as with a clock of finite resolution.               *)
(***************************************************************************)
EXTENDS FiniteSets, Naturals

CONSTANTS
    Addresses, \* source addresses, unmapped
    Conns,     \* connections; bounds how many are open at once
    MaxTime,   \* bound: the clock stops here
    None       \* nil

ASSUME MaxTimeAssumption == MaxTime \in Nat
ASSUME ConnsAssumption == IsFiniteSet(Conns)

ipActivity == [active : Nat, lastSeen : 0 .. MaxTime]

ASSUME NoneAssumption == None \notin Addresses \union ipActivity

VARIABLES
    now,       \* the clock
    source,    \* connection -> its address, or None when it is not open
    ips,       \* userState.ips: address -> ipActivity, or None
    active,    \* userState.active
    lastPush,  \* Server.lastPush
    since,     \* of the push under way
    push,      \* "idle", "list", "report"
    online,    \* what is reported: addresses
    met        \* what happened: addresses connected since the last list

vars == <<now, source, ips, active, lastPush, since, push, online, met>>

Connected == {source[c] : c \in Conns} \ {None}

Init ==
    /\ now = 0 /\ lastPush = 0 /\ since = 0
    /\ source = [c \in Conns |-> None]
    /\ ips = [a \in Addresses |-> None]
    /\ active = 0
    /\ push = "idle" /\ online = {} /\ met = {}

Tick ==
    /\ now < MaxTime
    /\ now' = now + 1
    /\ UNCHANGED <<source, ips, active, lastPush, since, push, online, met>>

\* userState.open
Open(c, a) ==
    /\ source[c] = None
    /\ source' = [source EXCEPT ![c] = a]
    /\ ips' = [ips EXCEPT ![a] = [active |-> IF @ = None THEN 1 ELSE @.active + 1,
                                  lastSeen |-> now]]
    /\ active' = active + 1
    /\ met' = met \union {a}
    /\ UNCHANGED <<now, lastPush, since, push, online>>

\* The function open returned.  It holds the ipActivity itself, which ips no
\* longer leads to when onlineIPs has forgotten the address.
Done(c) ==
    LET a == source[c]
    IN  /\ a # None
        /\ source' = [source EXCEPT ![c] = None]
        /\ ips' = [ips EXCEPT ![a] = IF @ = None THEN None
                                     ELSE [active |-> @.active - 1, lastSeen |-> now]]
        /\ active' = active - 1
        /\ UNCHANGED <<now, lastPush, since, push, online, met>>

\* Wrong variant: the two times are swapped.
PushStartSwapped ==
    /\ push = "idle"
    /\ since' = now
    /\ push' = "list"
    /\ UNCHANGED <<now, source, ips, active, lastPush, online, met>>

\* pushOnce takes the time first,
PushStart ==
    /\ push = "idle"
    /\ since' = lastPush
    /\ lastPush' = now
    /\ push' = "list"
    /\ UNCHANGED <<now, source, ips, active, online, met>>

\* Wrong variants: connected addresses are forgotten; one last seen at the
\* time of the last push is.
IsOnlineBySight(a) == ips[a].lastSeen >= since
IsOnlineAfter(a) == ips[a].active > 0 \/ ips[a].lastSeen > since

IsOnline(a) == ips[a].active > 0 \/ ips[a].lastSeen >= since

Known == {a \in Addresses : ips[a] # None}

\* then lists the addresses and forgets the others (onlineIPs, under the lock),
OnlineIPs ==
    /\ push = "list"
    /\ online' = {a \in Known : IsOnline(a)}
    /\ ips' = [a \in Addresses |-> IF a \in Known /\ ~IsOnline(a) THEN None ELSE ips[a]]
    /\ met' = Connected
    /\ push' = "report"
    /\ UNCHANGED <<now, source, active, lastPush, since>>

\* and reports them; an error is only logged.
ReportOnline ==
    /\ push = "report"
    /\ online' = {}
    /\ push' = "idle"
    /\ UNCHANGED <<now, source, ips, active, lastPush, since, met>>

Next == \/ Tick
        \/ \E c \in Conns : Done(c) \/ \E a \in Addresses : Open(c, a)
        \/ PushStart \/ OnlineIPs \/ ReportOnline

Spec == Init /\ [][Next]_vars

-----------------------------------------------------------------------------
(* Properties.                                                             *)

\* Every variable has its type, and the window of a push begins no later than it
\* ends (ipActivity, pushOnce).
TypeOK ==
    /\ now \in 0 .. MaxTime /\ lastPush \in 0 .. now /\ since \in 0 .. lastPush
    /\ source \in [Conns -> Addresses \union {None}]
    /\ ips \in [Addresses -> ipActivity \union {None}]
    /\ active \in Nat
    /\ push \in {"idle", "list", "report"}
    /\ online \in SUBSET Addresses /\ met \in SUBSET Addresses

\* The counts that onlineIPs and collectTraffic decide by are the numbers of
\* open connections, also after addresses were forgotten and came back.
CountsConnections ==
    /\ active = Cardinality({c \in Conns : source[c] # None})
    /\ \A a \in Addresses :
          Cardinality({c \in Conns : source[c] = a}) =
              IF ips[a] = None THEN 0 ELSE ips[a].active

\* An address that was connected at any time since the addresses were last
\* listed, however shortly, is in the next list: no connection falls between
\* two pushes (pushOnce takes the time before it lists).
NoneMissed ==
    [][push = "list" /\ push' = "report" => met \subseteq online']_vars
=============================================================================

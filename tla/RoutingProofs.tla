--------------------------- MODULE RoutingProofs ---------------------------
(***************************************************************************)
(* Proofs about Routing, for any users, words, domains, addresses, lists   *)
(* of rules and connections.                                               *)
(***************************************************************************)
EXTENDS Routing, TLAPS

-----------------------------------------------------------------------------
(* The inductive invariant.                                                *)

\* Nothing is on its way to the panel but while a report is under way.
SentOnlyInReport == push \in {"idle", "done"} => sent = {}

\* A connection that is open was dialed, and what left it the filter let pass.
FilterPassed ==
    \A c \in Conns : conn[c].at # "idle" =>
        /\ conn[c].at = "open" => conn[c].target \in Targets
        /\ conn[c].out = None \/ ~refuses(options, conn[c].out)

IInv == TypeOK /\ SentOnlyInReport /\ HitKept /\ FilterPassed

-----------------------------------------------------------------------------
(* The operators.                                                          *)

\* An address is public if privateAddress does not take it for a private one,
\* in its IPv6 form too.
LEMMA PublicIfNotPrivate ==
    ASSUME NEW a \in [net : Networks, mapped : BOOLEAN], ~privateAddress(a)
    PROVE  a.net = "public"
BY DEF privateAddress, Unmap, Contains, Networks

\* Unmapping an address leaves its network.
LEMMA UnmapType ==
    ASSUME NEW a \in [net : Networks, mapped : BOOLEAN]
    PROVE  Unmap(a) \in [net : Networks, mapped : BOOLEAN]
BY DEF Unmap

\* What resolve, checkDestination and the dialer leave is a target that the filter
\* does not refuse.
LEMMA DialedFacts ==
    ASSUME NEW o \in Options, NEW d \in Destinations, NEW answer \in SUBSET Addrs,
           NEW t \in DialContext(o, d, checkDestination(o, resolve(o, d, answer)))
    PROVE  t \in Targets /\ ~refuses(o, t)
<1>1. resolve(o, d, answer) \subseteq {Unmap(a) : a \in Addrs}
      BY DEF resolve
<1>2. checkDestination(o, resolve(o, d, answer)) \subseteq {Unmap(a) : a \in Addrs}
      BY <1>1 DEF checkDestination
<1> QED BY <1>2 DEF DialContext, Targets

\* Where a packet goes, if it goes anywhere.
LEMMA WrittenFacts ==
    ASSUME NEW o \in Options, NEW d, NEW t \in Targets, NEW packet \in Destinations,
           WritePacket(o, d, t, packet) # {}
    PROVE  LET to == CHOOSE x \in WritePacket(o, d, t, packet) : TRUE
           IN  to \in Targets /\ ~refuses(o, to)
<1> DEFINE to == CHOOSE x \in WritePacket(o, d, t, packet) : TRUE
<1>1. to \in WritePacket(o, d, t, packet)
      OBVIOUS
<1> HIDE DEF to
<1>2. to \in Targets /\ ~refuses(o, to)
      BY <1>1 DEF WritePacket, Targets
<1> QED BY <1>2 DEF to

\* Where the filter lets a target pass, no private network is reached.
LEMMA FilterMeansPublic ==
    ASSUME NEW o \in Options, ~o.allowPrivate, NEW t \in Targets, ~refuses(o, t)
    PROVE  IF IsFqdn(t) THEN ~o.resolveDomain ELSE t # NoAddr /\ t.net = "public"
<1>1. CASE IsFqdn(t)
      BY <1>1 DEF refuses
<1>2. CASE ~IsFqdn(t)
  <2>1. t # NoAddr /\ ~privateAddress(t)
        BY <1>2 DEF refuses
  <2>2. t \in [net : Networks, mapped : BOOLEAN]
        BY <1>2, <2>1, AddrsAssumption, UnmapType DEF Targets, Destinations, IsFqdn
  <2> QED BY <1>2, <2>1, <2>2, PublicIfNotPrivate
<1> QED BY <1>1, <1>2

-----------------------------------------------------------------------------
(* Every step keeps the invariant.                                         *)

\* Init establishes the invariant.
LEMMA InitIInv == Init => IInv
<1> SUFFICES ASSUME Init PROVE IInv
    OBVIOUS
<1>1. NoConn.at = "idle"
      BY DEF NoConn
<1>2. TypeOK
      BY MaxHitsAssumption DEF Init, TypeOK
<1>3. SentOnlyInReport /\ HitKept /\ FilterPassed
      BY <1>1 DEF Init, SentOnlyInReport, HitKept, FilterPassed
<1> QED BY <1>2, <1>3 DEF IInv

\* What the actions of a connection do to it.
LEMMA ConnectionFacts ==
    ASSUME IInv, NEW c \in Conns, Connection(c)
    PROVE  /\ UNCHANGED <<options, rules, pushVars, server>>
           /\ \E new \in Conn \union {NoConn} :
                 /\ conn' = [conn EXCEPT ![c] = new]
                 /\ new.at # "idle" =>
                       /\ new.at = "open" => new.target \in Targets
                       /\ new.out = None \/ ~refuses(options, new.out)
           /\ \/ UNCHANGED auditVars
              \/ \E hit \in Log :
                    /\ Len(recorded) < MaxHits
                    /\ hits' = hits \union {hit}
                    /\ recorded' = Append(recorded, hit)
                    /\ owed' = owed \union {Len(recorded) + 1}
<1> DEFINE Goal(new) ==
        /\ new \in Conn \union {NoConn}
        /\ conn' = [conn EXCEPT ![c] = new]
        /\ new.at # "idle" =>
              /\ new.at = "open" => new.target \in Targets
              /\ new.out = None \/ ~refuses(options, new.out)
<1>1. conn \in [Conns -> Conn \union {NoConn}] /\ NoConn.at = "idle"
      BY DEF IInv, TypeOK, NoConn
<1>2. conn[c].at # "idle" => conn[c] \in Conn
      BY <1>1
<1>3. ASSUME NEW u \in Users, NEW network \in {"tcp", "udp"}, NEW d \in Destinations,
             Route(c, u, network, d)
      PROVE  UNCHANGED <<options, auditVars, pushVars, server>> /\ \E new : Goal(new)
  <2> DEFINE new == [at |-> IF enabled THEN "audit" ELSE "route", user |-> u,
                     network |-> network, dest |-> d, cached |-> None, target |-> None,
                     out |-> None]
  <2>1. new \in Conn
        BY DEF Conn
  <2>2. Goal(new)
        BY <1>3, <2>1 DEF Route
  <2> QED BY <1>3, <2>2 DEF Route
<1>4. ASSUME NEW first \in Destinations, NEW x, Pass(c, first, x)
      PROVE  UNCHANGED <<options, auditVars, pushVars, server>> /\ \E new : Goal(new)
  <2> DEFINE new == [conn[c] EXCEPT !.at = "route",
                        !.dest = IF conn[c].network = "udp" THEN Replaced(@, first) ELSE @,
                        !.cached = IF conn[c].network = "udp" THEN first ELSE None]
  <2>1. conn[c] \in Conn
        BY <1>2, <1>4 DEF Pass, First
  <2>2. Replaced(conn[c].dest, first) \in Destinations
        BY <2>1 DEF Replaced, Conn
  <2>3. new \in Conn
        BY <2>1, <2>2 DEF Conn
  <2>4. new.at = "route" /\ new.out = conn[c].out
        BY <2>1 DEF Conn
  <2>5. conn' = [conn EXCEPT ![c] = new]
        BY <1>1, <1>4 DEF Pass
  <2>6. Goal(new)
        BY <1>4, <2>3, <2>4, <2>5 DEF IInv, FilterPassed, Pass, First
  <2> HIDE DEF new, Goal
  <2> QED BY <1>4, <2>6 DEF Pass
<1>5. ASSUME NEW answer \in Answers, Open(c, answer)
      PROVE  UNCHANGED <<options, auditVars, pushVars, server>> /\ \E new : Goal(new)
  <2>1. conn[c] \in Conn
        BY <1>2, <1>5 DEF Open
  <2>2. PICK t \in DialContext(options, conn[c].dest, Addresses(c, answer)) :
            conn' = [conn EXCEPT ![c].at = "open", ![c].target = t,
                                 ![c].out = IF conn[c].network = "tcp" THEN t ELSE None]
        BY <1>5 DEF Open
  <2>3. t \in Targets /\ ~refuses(options, t)
    <3>1. conn[c].dest \in Destinations /\ answer \in SUBSET Addrs /\ options \in Options
          BY <2>1 DEF Conn, Answers, IInv, TypeOK
    <3> QED BY <2>2, <3>1, DialedFacts DEF Addresses
  <2> DEFINE new == [conn[c] EXCEPT !.at = "open", !.target = t,
                        !.out = IF conn[c].network = "tcp" THEN t ELSE None]
  <2>4. new \in Conn /\ new.target = t /\ new.out \in {t, None}
        BY <2>1, <2>3 DEF Conn
  <2>5. conn' = [conn EXCEPT ![c] = new]
        BY <1>1, <2>2
  <2>6. Goal(new)
        BY <2>3, <2>4, <2>5
  <2> HIDE DEF new, Goal
  <2> QED BY <1>5, <2>6 DEF Open
<1>6. ASSUME NEW packet \in Destinations, Send(c, packet)
      PROVE  UNCHANGED <<options, auditVars, pushVars, server>> /\ \E new : Goal(new)
  <2> DEFINE to == WritePacket(options, conn[c].dest, conn[c].target, packet)
             out == IF to = {} THEN conn[c].out ELSE CHOOSE d \in to : TRUE
             new == [conn[c] EXCEPT !.cached = None, !.out = out]
  <2>1. conn[c] \in Conn /\ conn[c].at = "open"
        BY <1>2, <1>6 DEF Send
  <2>2. conn[c].target \in Targets /\ options \in Options
        BY <2>1 DEF IInv, FilterPassed, TypeOK
  <2>3. to # {} => out \in Targets /\ ~refuses(options, out)
        BY <2>2, WrittenFacts
  <2>4. conn' = [conn EXCEPT ![c] = new]
        BY <1>1, <1>6 DEF Send
  <2>5. to = {} => out = conn[c].out
        OBVIOUS
  <2> HIDE DEF out, to
  <2>6. out \in Targets \union {None}
        BY <2>1, <2>3, <2>5 DEF Conn
  <2>7. new \in Conn /\ new.at = "open" /\ new.target = conn[c].target /\ new.out = out
        BY <2>1, <2>6 DEF Conn
  <2>8. out = None \/ ~refuses(options, out)
        BY <2>1, <2>3, <2>5 DEF IInv, FilterPassed
  <2>9. Goal(new)
        BY <2>2, <2>4, <2>7, <2>8
  <2> QED BY <1>6, <2>9 DEF Send
<1>7. ASSUME End(c)
      PROVE  UNCHANGED <<options, auditVars, pushVars, server>> /\ Goal(NoConn)
      BY <1>1, <1>7 DEF End
<1>8. ASSUME NEW first \in Destinations, NEW x, Block(c, first, x)
      PROVE  /\ UNCHANGED <<options, rules, pushVars, server>> /\ Goal(NoConn)
             /\ \E hit \in Log :
                    /\ Len(recorded) < MaxHits
                    /\ hits' = hits \union {hit}
                    /\ recorded' = Append(recorded, hit)
                    /\ owed' = owed \union {Len(recorded) + 1}
  <2>1. PICK n \in Matching(x) :
            /\ hits' = hits \union {[user |-> conn[c].user, rule |-> rules[n].id]}
            /\ recorded' = Append(recorded, [user |-> conn[c].user, rule |-> rules[n].id])
        BY <1>8 DEF Block
  <2>2. conn[c] \in Conn
        BY <1>2, <1>8 DEF Block, First
  <2>3. rules \in RuleLists /\ n \in DOMAIN rules
        BY <2>1 DEF Matching, IInv, TypeOK
  <2>4. [user |-> conn[c].user, rule |-> rules[n].id] \in Log
        BY <2>2, <2>3 DEF Log, Conn
  <2>5. Len(recorded) < MaxHits /\ owed' = owed \union {Len(recorded) + 1}
        BY <1>8 DEF Block
  <2>6. UNCHANGED <<options, rules, pushVars, server>> /\ Goal(NoConn)
        BY <1>1, <1>8 DEF Block
  <2> HIDE DEF Goal
  <2> QED BY <2>1, <2>4, <2>5, <2>6
<1> DEFINE Hit == \E hit \in Log :
                    /\ Len(recorded) < MaxHits
                    /\ hits' = hits \union {hit}
                    /\ recorded' = Append(recorded, hit)
                    /\ owed' = owed \union {Len(recorded) + 1}
<1> HIDE DEF Goal, Hit
<1>9. /\ UNCHANGED <<options, rules, pushVars, server>>
      /\ \E new : Goal(new)
      /\ UNCHANGED auditVars \/ Hit
  <2>1. CASE UNCHANGED auditVars
        BY <1>3, <1>4, <1>5, <1>6, <1>7, <1>8, <2>1 DEF Connection, auditVars
  <2>2. CASE ~UNCHANGED auditVars
    <3>1. PICK first \in Destinations : \E x : Block(c, first, x)
          BY <1>3, <1>4, <1>5, <1>6, <1>7, <2>2 DEF Connection
    <3> QED BY <1>8, <3>1 DEF Hit
  <2> QED BY <2>1, <2>2
<1> QED BY <1>9 DEF Goal, Hit

\* Every step keeps the types.
LEMMA TypeStep == IInv /\ [Next]_vars => TypeOK'
<1> SUFFICES ASSUME IInv, [Next]_vars PROVE TypeOK'
    OBVIOUS
<1> USE MaxHitsAssumption DEF IInv, TypeOK, auditVars, pushVars
<1>1. ASSUME NEW list \in RuleLists, setRules(list) PROVE TypeOK'
      BY <1>1 DEF setRules
<1>2. ASSUME NEW c \in Conns, Connection(c) PROVE TypeOK'
  <2>1. conn' \in [Conns -> Conn \union {NoConn}]
        BY <1>2, ConnectionFacts
  <2>2. CASE UNCHANGED auditVars
        BY <1>2, <2>1, <2>2, ConnectionFacts
  <2>3. CASE ~UNCHANGED auditVars
    <3>1. PICK hit \in Log :
              /\ Len(recorded) < MaxHits
              /\ hits' = hits \union {hit}
              /\ recorded' = Append(recorded, hit)
              /\ owed' = owed \union {Len(recorded) + 1}
          BY <1>2, <2>3, ConnectionFacts
    <3>2. recorded' \in Seq(Log) /\ Len(recorded') = Len(recorded) + 1 /\ Len(recorded) \in Nat
          BY <3>1
    <3>3. owed' \in SUBSET (1 .. Len(recorded')) /\ sent \in SUBSET owed'
      <4>1. owed \in SUBSET (1 .. Len(recorded)) /\ sent \in SUBSET owed
            OBVIOUS
      <4>2. \A n \in owed' : n \in 1 .. (Len(recorded) + 1)
            BY <3>1, <3>2, <4>1
      <4> QED BY <3>1, <3>2, <4>1, <4>2
    <3>4. Len(recorded') <= MaxHits /\ hits' \in SUBSET Log
          BY <3>1, <3>2
    <3>5. UNCHANGED <<options, rules, logs, push, sent, server>>
          BY <1>2, ConnectionFacts
    <3> HIDE DEF Conn, Log, Options
    <3> QED BY <2>1, <3>2, <3>3, <3>4, <3>5
  <2> QED BY <2>2, <2>3
<1>3. CASE Collect
      BY <1>3 DEF Collect
<1>4. CASE ReportAccepted
      BY <1>4 DEF ReportAccepted
<1>5. CASE ReportFailed
      BY <1>5 DEF ReportFailed
<1>6. CASE restore
      BY <1>6 DEF restore
<1>7. CASE Cancel \/ PushStop \/ Close
      BY <1>7 DEF Cancel, PushStop, Close
<1>8. CASE Exited \/ UNCHANGED vars
      BY <1>8 DEF Exited, vars
<1> QED BY <1>1, <1>2, <1>3, <1>4, <1>5, <1>6, <1>7, <1>8 DEF Next

\* A hit stays in the set or in the report that holds it.
LEMMA HitStep == IInv /\ [Next]_vars => HitKept' /\ SentOnlyInReport'
<1> SUFFICES ASSUME IInv, [Next]_vars PROVE HitKept' /\ SentOnlyInReport'
    OBVIOUS
<1> USE DEF IInv, HitKept, SentOnlyInReport, auditVars, pushVars
<1>1. ASSUME NEW list \in RuleLists, setRules(list) PROVE HitKept' /\ SentOnlyInReport'
      BY <1>1 DEF setRules
<1>2. ASSUME NEW c \in Conns, Connection(c) PROVE HitKept' /\ SentOnlyInReport'
  <2>1. UNCHANGED <<logs, push, sent>>
        BY <1>2, ConnectionFacts
  <2>2. CASE UNCHANGED auditVars
        BY <2>1, <2>2
  <2>3. CASE ~UNCHANGED auditVars
    <3>1. PICK hit \in Log :
              /\ hits' = hits \union {hit}
              /\ recorded' = Append(recorded, hit)
              /\ owed' = owed \union {Len(recorded) + 1}
          BY <1>2, <2>3, ConnectionFacts
    <3>2. /\ recorded \in Seq(Log) /\ Len(recorded) \in Nat
          /\ owed \in SUBSET (1 .. Len(recorded)) /\ sent \subseteq owed
          BY DEF TypeOK
    <3>3. \A n \in owed : recorded'[n] = recorded[n]
          BY <3>1, <3>2
    <3>4. recorded'[Len(recorded) + 1] = hit /\ Len(recorded) + 1 \notin sent
          BY <3>1, <3>2
    <3> QED BY <2>1, <3>1, <3>3, <3>4
  <2> QED BY <2>2, <2>3
<1>3. CASE Collect
      BY <1>3 DEF Collect
<1>4. CASE ReportAccepted
      BY <1>4 DEF ReportAccepted
<1>5. CASE ReportFailed
      BY <1>5 DEF ReportFailed
<1>6. CASE restore
      BY <1>6 DEF restore
<1>7. CASE Cancel \/ PushStop \/ Close
      BY <1>7 DEF Cancel, PushStop, Close
<1>8. CASE Exited \/ UNCHANGED vars
      BY <1>8 DEF Exited, vars
<1> QED BY <1>1, <1>2, <1>3, <1>4, <1>5, <1>6, <1>7, <1>8 DEF Next

\* What leaves a connection has passed the filter.
LEMMA FilterStep == IInv /\ [Next]_vars => FilterPassed'
<1> SUFFICES ASSUME IInv, [Next]_vars PROVE FilterPassed'
    OBVIOUS
<1>1. ASSUME NEW c \in Conns, Connection(c) PROVE FilterPassed'
  <2>1. PICK new \in Conn \union {NoConn} :
            /\ conn' = [conn EXCEPT ![c] = new]
            /\ new.at # "idle" =>
                  /\ new.at = "open" => new.target \in Targets
                  /\ new.out = None \/ ~refuses(options, new.out)
        BY <1>1, ConnectionFacts
  <2>2. options' = options
        BY <1>1, ConnectionFacts
  <2>3. conn'[c] = new /\ \A b \in Conns : b # c => conn'[b] = conn[b]
        BY <2>1 DEF IInv, TypeOK
  <2> QED BY <2>1, <2>2, <2>3 DEF IInv, FilterPassed, refuses
<1>2. CASE UNCHANGED <<options, conn>>
      BY <1>2 DEF IInv, FilterPassed, refuses
<1>3. (~ \E c \in Conns : Connection(c)) => UNCHANGED <<options, conn>>
      BY DEF Next, setRules, Collect, ReportAccepted, ReportFailed, restore, Cancel,
             PushStop, Close, Exited, vars
<1> QED BY <1>1, <1>2, <1>3

-----------------------------------------------------------------------------
(* The theorems.                                                           *)

\* The invariant holds in every reachable state.
LEMMA Invariance == Spec => []IInv
<1>1. IInv /\ [Next]_vars => IInv'
      BY TypeStep, HitStep, FilterStep DEF IInv
<1> QED BY InitIInv, <1>1, PTL DEF Spec

\* Type correctness, and that logs exist exactly while a report is under way.
THEOREM TypeCorrect == Spec => []TypeOK
<1>1. IInv => TypeOK
      BY DEF IInv
<1> QED BY Invariance, <1>1, PTL

\* No hit is lost before a report that holds it is accepted.
THEOREM HitsKept == Spec => []HitKept
<1>1. IInv => HitKept
      BY DEF IInv
<1> QED BY Invariance, <1>1, PTL

\* Users cannot reach the networks only the node can reach.
THEOREM PrivateSafe == Spec => []PrivateUnreached
<1>1. IInv => PrivateUnreached
  <2> SUFFICES ASSUME IInv, ~options.allowPrivate, NEW c \in Conns,
                      conn[c].at # "idle", conn[c].out # None
               PROVE  IF IsFqdn(conn[c].out) THEN ~options.resolveDomain
                      ELSE conn[c].out # NoAddr /\ conn[c].out.net = "public"
      BY DEF PrivateUnreached
  <2>1. conn[c] \in Conn /\ options \in Options
        BY DEF IInv, TypeOK, NoConn
  <2>2. conn[c].out \in Targets
        BY <2>1 DEF Conn
  <2>3. ~refuses(options, conn[c].out)
        BY DEF IInv, FilterPassed
  <2> QED BY <2>1, <2>2, <2>3, FilterMeansPublic
<1> QED BY Invariance, <1>1, PTL
=============================================================================

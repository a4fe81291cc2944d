----------------------- MODULE OnlineAddressesProofs -----------------------
(***************************************************************************)
(* Proofs about OnlineAddresses, for any addresses, any finite set of      *)
(* connections and any time.                                               *)
(***************************************************************************)
EXTENDS OnlineAddresses, FiniteSetTheorems, TLAPS

-----------------------------------------------------------------------------
(* The inductive invariant.                                                *)

\* The open connections, all of them and those from a.
OpenConns == {c \in Conns : source[c] # None}
OpenFrom(a) == {c \in Conns : source[c] = a}

\* What the next list will be taken by: the window of the push under way, or of
\* the one that comes next.
Window == IF push = "list" THEN since ELSE lastPush

\* An address that was connected since the last list is known, and counts as
\* online in the next one.
MetIsOnline ==
    \A a \in met : ips[a] # None /\ (ips[a].active > 0 \/ ips[a].lastSeen >= Window)

IInv == TypeOK /\ CountsConnections /\ MetIsOnline

-----------------------------------------------------------------------------
(* Counting.                                                               *)

\* Open counts one connection more: of all, and of its address.
LEMMA OneMore ==
    ASSUME TypeOK, NEW c \in Conns, NEW a \in Addresses, source[c] = None,
           source' = [source EXCEPT ![c] = a]
    PROVE  /\ Cardinality(OpenConns') = Cardinality(OpenConns) + 1
           /\ Cardinality(OpenFrom(a)') = Cardinality(OpenFrom(a)) + 1
           /\ \A b \in Addresses \ {a} : OpenFrom(b)' = OpenFrom(b)
<1> USE NoneAssumption DEF TypeOK
<1>1. OpenConns' = OpenConns \union {c} /\ c \notin OpenConns /\ IsFiniteSet(OpenConns)
  <2>1. OpenConns \in SUBSET Conns
        BY DEF OpenConns
  <2> QED BY <2>1, ConnsAssumption, FS_Subset DEF OpenConns
<1>2. OpenFrom(a)' = OpenFrom(a) \union {c} /\ c \notin OpenFrom(a) /\ IsFiniteSet(OpenFrom(a))
  <2>1. OpenFrom(a) \in SUBSET Conns
        BY DEF OpenFrom
  <2> QED BY <2>1, ConnsAssumption, FS_Subset DEF OpenFrom
<1>3. \A b \in Addresses \ {a} : OpenFrom(b)' = OpenFrom(b)
      BY DEF OpenFrom
<1> QED BY <1>1, <1>2, <1>3, FS_AddElement

\* Its end counts one less.
LEMMA OneLess ==
    ASSUME TypeOK, NEW c \in Conns, NEW a \in Addresses, source[c] = a,
           source' = [source EXCEPT ![c] = None]
    PROVE  /\ Cardinality(OpenConns') = Cardinality(OpenConns) - 1
           /\ Cardinality(OpenConns) \in Nat /\ Cardinality(OpenConns') \in Nat
           /\ Cardinality(OpenFrom(a)') = Cardinality(OpenFrom(a)) - 1
           /\ Cardinality(OpenFrom(a)) \in Nat \ {0}
           /\ \A b \in Addresses \ {a} : OpenFrom(b)' = OpenFrom(b)
<1> USE NoneAssumption DEF TypeOK
<1>1. OpenConns' = OpenConns \ {c} /\ c \in OpenConns /\ IsFiniteSet(OpenConns)
  <2>1. OpenConns \in SUBSET Conns
        BY DEF OpenConns
  <2> QED BY <2>1, ConnsAssumption, FS_Subset DEF OpenConns
<1>2. OpenFrom(a)' = OpenFrom(a) \ {c} /\ c \in OpenFrom(a) /\ IsFiniteSet(OpenFrom(a))
  <2>1. OpenFrom(a) \in SUBSET Conns
        BY DEF OpenFrom
  <2> QED BY <2>1, ConnsAssumption, FS_Subset DEF OpenFrom
<1>3. \A b \in Addresses \ {a} : OpenFrom(b)' = OpenFrom(b)
      BY DEF OpenFrom
<1>4. /\ Cardinality(OpenConns) \in Nat /\ Cardinality(OpenConns') \in Nat
      /\ Cardinality(OpenConns') = Cardinality(OpenConns) - 1
      BY <1>1, FS_RemoveElement, FS_CardinalityType
<1>5. /\ Cardinality(OpenFrom(a)) \in Nat /\ Cardinality(OpenFrom(a)) # 0
      /\ Cardinality(OpenFrom(a)') = Cardinality(OpenFrom(a)) - 1
      BY <1>2, FS_RemoveElement, FS_CardinalityType, FS_EmptySet
<1> QED BY <1>3, <1>4, <1>5

-----------------------------------------------------------------------------
(* Every step keeps the invariant.                                         *)

\* Init establishes the invariant.
LEMMA InitIInv == Init => IInv
<1> SUFFICES ASSUME Init PROVE IInv
    OBVIOUS
<1>1. TypeOK /\ MetIsOnline
      BY MaxTimeAssumption DEF Init, TypeOK, MetIsOnline
<1>2. CountsConnections
  <2>1. OpenConns = {} /\ \A a \in Addresses : OpenFrom(a) = {}
        BY NoneAssumption DEF Init, OpenConns, OpenFrom
  <2>2. Cardinality(OpenConns) = 0 /\ \A a \in Addresses : Cardinality(OpenFrom(a)) = 0
        BY <2>1, FS_EmptySet
  <2> QED BY <2>2 DEF Init, CountsConnections, OpenConns, OpenFrom
<1> QED BY <1>1, <1>2 DEF IInv

\* A connection is opened: it is counted and its address met.
LEMMA OpenStep ==
    ASSUME IInv, NEW c \in Conns, NEW a \in Addresses, Open(c, a)
    PROVE  IInv'
<1> USE NoneAssumption, MaxTimeAssumption
<1> DEFINE entry == [active |-> IF ips[a] = None THEN 1 ELSE ips[a].active + 1,
                     lastSeen |-> now]
<1>1. /\ source \in [Conns -> Addresses \union {None}] /\ source[c] = None
      /\ source' = [source EXCEPT ![c] = a]
      BY DEF IInv, TypeOK, Open
<1>2. entry \in ipActivity /\ entry # None /\ entry.active > 0
  <2>1. ips[a] # None => ips[a] \in ipActivity
        BY DEF IInv, TypeOK
  <2>2. now \in 0 .. MaxTime
        BY DEF IInv, TypeOK
  <2> QED BY <2>1, <2>2 DEF ipActivity
<1>3. /\ ips' = [ips EXCEPT ![a] = entry]
      /\ ips'[a] = entry /\ \A b \in Addresses : b # a => ips'[b] = ips[b]
      BY DEF IInv, TypeOK, Open
<1> HIDE DEF entry
<1>4. TypeOK'
      BY <1>1, <1>2, <1>3 DEF IInv, TypeOK, Open
<1>5. MetIsOnline'
  <2>1. \A b \in met' : b = a \/ b \in met
        BY DEF Open
  <2>2. met \subseteq Addresses /\ Window' = Window
        BY DEF IInv, TypeOK, Open, Window
  <2> QED BY <1>2, <1>3, <2>1, <2>2 DEF IInv, MetIsOnline
<1>6. CountsConnections'
  <2>1. active = Cardinality(OpenConns) /\ active' = active + 1
        BY DEF IInv, CountsConnections, OpenConns, Open
  <2>2. \A b \in Addresses : Cardinality(OpenFrom(b)) = IF ips[b] = None THEN 0 ELSE ips[b].active
        BY DEF IInv, CountsConnections, OpenFrom
  <2>3. entry.active = Cardinality(OpenFrom(a)) + 1
        BY <2>2 DEF entry
  <2>4. active' = Cardinality(OpenConns')
        BY <1>1, <2>1, OneMore DEF IInv
  <2>5. \A b \in Addresses :
            Cardinality(OpenFrom(b)') = IF ips'[b] = None THEN 0 ELSE ips'[b].active
        BY <1>1, <1>2, <1>3, <2>2, <2>3, OneMore DEF IInv
  <2> QED BY <2>4, <2>5 DEF CountsConnections, OpenConns, OpenFrom
<1> QED BY <1>4, <1>5, <1>6 DEF IInv

\* A connection ends: its address is still known, and was seen now.
LEMMA DoneStep ==
    ASSUME IInv, NEW c \in Conns, Done(c)
    PROVE  IInv'
<1> USE NoneAssumption, MaxTimeAssumption
<1>1. PICK a \in Addresses : source[c] = a
      BY DEF IInv, TypeOK, Done
<1>2. /\ source \in [Conns -> Addresses \union {None}]
      /\ source' = [source EXCEPT ![c] = None]
      BY DEF IInv, TypeOK, Done
<1>3. \A b \in Addresses : Cardinality(OpenFrom(b)) = IF ips[b] = None THEN 0 ELSE ips[b].active
      BY DEF IInv, CountsConnections, OpenFrom
<1>4. ips[a] \in ipActivity /\ ips[a].active \in Nat \ {0}
  <2>1. Cardinality(OpenFrom(a)) \in Nat \ {0}
        BY <1>1, <1>2, OneLess DEF IInv
  <2> QED BY <1>3, <2>1 DEF IInv, TypeOK
<1> DEFINE entry == [active |-> ips[a].active - 1, lastSeen |-> now]
<1>5. entry \in ipActivity /\ entry # None
  <2>1. now \in 0 .. MaxTime
        BY DEF IInv, TypeOK
  <2> QED BY <1>4, <2>1 DEF ipActivity
<1>6. /\ ips' = [ips EXCEPT ![a] = entry]
      /\ ips'[a] = entry /\ \A b \in Addresses : b # a => ips'[b] = ips[b]
      BY <1>1, <1>4 DEF IInv, TypeOK, Done
<1>7. entry.active = ips[a].active - 1 /\ entry.lastSeen = now
      OBVIOUS
<1> HIDE DEF entry
<1>8. active = Cardinality(OpenConns) /\ active' = active - 1
      BY DEF IInv, CountsConnections, OpenConns, Done
<1>9. active' = Cardinality(OpenConns') /\ active' \in Nat
      BY <1>1, <1>2, <1>8, OneLess DEF IInv
<1>10. TypeOK'
       BY <1>2, <1>5, <1>6, <1>9 DEF IInv, TypeOK, Done
<1>11. MetIsOnline'
  <2>1. met' = met /\ met \subseteq Addresses /\ Window' = Window /\ now >= Window
        BY DEF IInv, TypeOK, Done, Window
  <2> QED BY <1>5, <1>6, <1>7, <2>1 DEF IInv, MetIsOnline
<1>12. CountsConnections'
  <2>1. \A b \in Addresses :
            Cardinality(OpenFrom(b)') = IF ips'[b] = None THEN 0 ELSE ips'[b].active
    <3>1. /\ Cardinality(OpenFrom(a)') = Cardinality(OpenFrom(a)) - 1
          /\ \A b \in Addresses \ {a} : OpenFrom(b)' = OpenFrom(b)
          BY <1>1, <1>2, OneLess DEF IInv
    <3>2. Cardinality(OpenFrom(a)) = ips[a].active
          BY <1>3, <1>4
    <3>3. Cardinality(OpenFrom(a)') = ips'[a].active /\ ips'[a] # None
          BY <1>5, <1>6, <1>7, <3>1, <3>2
    <3>4. ASSUME NEW b \in Addresses, b # a
          PROVE  Cardinality(OpenFrom(b)') = IF ips'[b] = None THEN 0 ELSE ips'[b].active
      <4>1. OpenFrom(b)' = OpenFrom(b) /\ ips'[b] = ips[b]
            BY <1>6, <3>1, <3>4
      <4> QED BY <1>3, <4>1
    <3> QED BY <3>3, <3>4
  <2> QED BY <1>9, <2>1 DEF CountsConnections, OpenConns, OpenFrom
<1> QED BY <1>10, <1>11, <1>12 DEF IInv

\* The addresses are listed: what is forgotten has no connection, and what was met
\* is on the list.
LEMMA ListStep ==
    ASSUME IInv, OnlineIPs
    PROVE  IInv' /\ met \subseteq online'
<1> USE NoneAssumption
<1>1. \A a \in Addresses : ips[a] # None => ips[a] \in ipActivity
      BY DEF IInv, TypeOK
<1>2. \A a \in Addresses : ips'[a] = IF a \in Known /\ ~IsOnline(a) THEN None ELSE ips[a]
      BY DEF OnlineIPs
<1>3. TypeOK'
      BY DEF IInv, TypeOK, OnlineIPs, Connected, Known
<1>4. CountsConnections'
  <2>1. \A a \in Addresses : a \in Known /\ ~IsOnline(a) => ips[a].active = 0
        BY <1>1 DEF Known, IsOnline, ipActivity
  <2>2. source' = source /\ active' = active
        BY DEF OnlineIPs
  <2> QED BY <1>2, <2>1, <2>2 DEF IInv, CountsConnections, Known
<1>5. MetIsOnline'
  <2>1. ASSUME NEW a \in met' PROVE ips'[a] # None /\ ips'[a].active > 0
    <3>1. PICK c \in Conns : source[c] = a /\ a \in Addresses
          BY <2>1 DEF OnlineIPs, Connected, IInv, TypeOK
    <3>2. Cardinality(OpenFrom(a)) \in Nat /\ Cardinality(OpenFrom(a)) # 0
      <4>1. OpenFrom(a) \in SUBSET Conns /\ c \in OpenFrom(a)
            BY <3>1 DEF OpenFrom
      <4> QED BY <4>1, ConnsAssumption, FS_Subset, FS_CardinalityType, FS_EmptySet
    <3>3. Cardinality(OpenFrom(a)) = IF ips[a] = None THEN 0 ELSE ips[a].active
          BY <3>1 DEF IInv, CountsConnections, OpenFrom
    <3>4. ips[a] # None /\ ips[a].active > 0
          BY <3>2, <3>3
    <3> QED BY <1>2, <3>1, <3>4 DEF IsOnline
  <2> QED BY <2>1 DEF MetIsOnline
<1>6. met \subseteq online'
      BY DEF IInv, TypeOK, MetIsOnline, Window, OnlineIPs, Known, IsOnline
<1> QED BY <1>3, <1>4, <1>5, <1>6 DEF IInv

\* The clock and the rest of a push leave the counts alone, and the window of the
\* push that begins is the one that was waited for.
LEMMA OtherStep ==
    ASSUME IInv, Tick \/ PushStart \/ ReportOnline \/ UNCHANGED vars
    PROVE  IInv'
<1>1. UNCHANGED <<source, ips, active, met>>
      BY DEF Tick, PushStart, ReportOnline, vars
<1>2. TypeOK'
  <2>1. CASE Tick
        BY <2>1, MaxTimeAssumption DEF IInv, TypeOK, Tick
  <2>2. CASE PushStart
        BY <2>2, MaxTimeAssumption DEF IInv, TypeOK, PushStart
  <2>3. CASE ReportOnline \/ UNCHANGED vars
        BY <2>3 DEF IInv, TypeOK, ReportOnline, vars
  <2> QED BY <2>1, <2>2, <2>3
<1>3. CountsConnections'
      BY <1>1 DEF IInv, CountsConnections
<1>4. Window' = Window
      BY DEF Tick, PushStart, ReportOnline, vars, Window
<1>5. MetIsOnline'
      BY <1>1, <1>4 DEF IInv, MetIsOnline
<1> QED BY <1>2, <1>3, <1>5 DEF IInv

-----------------------------------------------------------------------------
(* The theorems.                                                           *)

\* The invariant holds in every reachable state.
LEMMA Invariance == Spec => []IInv
<1>1. IInv /\ [Next]_vars => IInv'
      BY OpenStep, DoneStep, ListStep, OtherStep DEF Next
<1> QED BY InitIInv, <1>1, PTL DEF Spec

\* Type correctness; the window of a push begins no later than it ends.
THEOREM TypeCorrect == Spec => []TypeOK
<1>1. IInv => TypeOK
      BY DEF IInv
<1> QED BY Invariance, <1>1, PTL

\* The counts that decide whether an address is online, and a retired state still
\* in use, are the numbers of open connections.
THEOREM Counted == Spec => []CountsConnections
<1>1. IInv => CountsConnections
      BY DEF IInv
<1> QED BY Invariance, <1>1, PTL

\* No connection falls between two lists.
THEOREM AllListed == Spec => NoneMissed
<1>1. ASSUME IInv, [Next]_vars, push = "list", push' = "report" PROVE met \subseteq online'
  <2>1. OnlineIPs
        BY <1>1 DEF Next, Tick, Open, Done, PushStart, ReportOnline, vars
  <2> QED BY <1>1, <2>1, ListStep
<1>2. IInv /\ [Next]_vars =>
          [push = "list" /\ push' = "report" => met \subseteq online']_vars
      BY <1>1
<1> QED BY Invariance, <1>2, PTL DEF Spec, NoneMissed
=============================================================================

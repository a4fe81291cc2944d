------------------------ MODULE ReportLimiterProofs ------------------------
(***************************************************************************)
(* Proofs about ReportLimiter, for any set of keys, which need not be      *)
(* finite, and any window, interval, burst and size of the map that        *)
(* WindowAssumption allows.                                                *)
(***************************************************************************)
EXTENDS ReportLimiter, FiniteSetTheorems, TLAPS

-----------------------------------------------------------------------------
(* The inductive invariant.                                                *)

Types ==
    /\ seen \in [Keys -> seenMessage \union {None}]
    /\ credit \in 0 .. (eventBurst * eventInterval)
    /\ since \in [Keys -> 0 .. repeatWindow]
    /\ held \in [Keys -> Nat]

\* A key's entry is as old as the last message of it that was sent, and only
\* entries that have expired are given up.
EntriesTell ==
    \A k \in Keys : since[k] = IF k \in Tracked THEN seen[k].age ELSE repeatWindow

\* An entry has counted what was held back of its key.
EntriesCount == \A k \in Tracked : seen[k].suppressed = held[k]

Young(age) == {k \in Tracked : seen[k].age <= age}

\* The rate: what was sent in the last `age` ticks was paid for by the burst and
\* those ticks, less the credit that is left.
RateHolds ==
    \A age \in 0 .. (repeatWindow - 1) :
        Cardinality(Young(age)) * eventInterval + credit <= eventBurst * eventInterval + age

IInv ==
    /\ Types /\ EntriesTell /\ EntriesCount /\ CountAllOrNone
    /\ IsFiniteSet(Tracked) /\ TrackedBounded /\ RateHolds

-----------------------------------------------------------------------------
(* Arithmetic.                                                             *)

\* One more message costs one more interval.
LEMMA OneMore ==
    ASSUME NEW n \in Nat, NEW c \in Nat
    PROVE  (n + 1) * c = n * c + c /\ n * c \in Nat
OBVIOUS

\* A product with a positive factor is ordered by the other one.
LEMMA LessByFactor ==
    ASSUME NEW m \in Nat, NEW n \in Nat, NEW c \in Nat \ {0}, m * c <= n * c
    PROVE  m <= n
<1> SUFFICES ASSUME m > n PROVE FALSE
    OBVIOUS
<1>1. PICK d \in Nat : m = n + d + 1
  <2>1. m - n - 1 \in Nat /\ m = n + (m - n - 1) + 1
        OBVIOUS
  <2> QED BY <2>1
<1>2. m * c = n * c + d * c + c
      BY <1>1
<1>3. d * c \in Nat
      OBVIOUS
<1> QED BY <1>2, <1>3

-----------------------------------------------------------------------------
\* Init establishes the invariant: nothing is tracked, and the bucket is full.
LEMMA InitIInv == Init => IInv
<1> SUFFICES ASSUME Init PROVE IInv
    OBVIOUS
<1> USE WindowAssumption
<1>1. eventBurst * eventInterval \in Nat
      OBVIOUS
<1>2. Tracked = {}
      BY DEF Init, Tracked
<1>3. Types
      BY <1>1 DEF Init, Types
<1>4. EntriesTell /\ EntriesCount /\ CountAllOrNone
      BY <1>2 DEF Init, EntriesTell, EntriesCount, CountAllOrNone
<1>5. IsFiniteSet(Tracked) /\ TrackedBounded
      BY <1>2, FS_EmptySet DEF TrackedBounded
<1>6. RateHolds
  <2>1. \A age \in 0 .. (repeatWindow - 1) : Cardinality(Young(age)) = 0
        BY <1>2, FS_EmptySet DEF Young
  <2> QED BY <1>1, <2>1 DEF RateHolds, Init
<1> QED BY <1>3, <1>4, <1>5, <1>6 DEF IInv

\* A message that is held back leaves the ages, and so the rate, alone.
LEMMA HeldStep ==
    ASSUME IInv, NEW k \in Keys, CountHeld(k)
    PROVE  IInv'
<1> USE WindowAssumption, NoMessageAssumption
<1>1. /\ Types'
      /\ Tracked' = Tracked
      /\ \A j \in Tracked : seen'[j].age = seen[j].age
  <2>1. CASE k \in Tracked
    <3>1. seen[k] \in seenMessage
          BY <2>1 DEF IInv, Types, Tracked
    <3>2. /\ seen' = [seen EXCEPT ![k].suppressed = @ + 1]
          /\ seen'[k] \in seenMessage /\ seen'[k].age = seen[k].age
          BY <2>1, <3>1 DEF CountHeld, IInv, Types, seenMessage
    <3>3. \A j \in Keys : j # k => seen'[j] = seen[j]
          BY <3>2 DEF IInv, Types
    <3>4. seen' \in [Keys -> seenMessage \union {None}]
          BY <3>2, <3>3 DEF IInv, Types
    <3>5. Types'
          BY <3>4 DEF CountHeld, IInv, Types
    <3> QED BY <2>1, <3>2, <3>3, <3>5 DEF Tracked
  <2>2. CASE k \notin Tracked
        BY <2>2 DEF CountHeld, IInv, Types, Tracked
  <2> QED BY <2>1, <2>2
<1>2. EntriesTell'
      BY <1>1 DEF CountHeld, IInv, EntriesTell
<1>3. EntriesCount'
  <2>1. ASSUME NEW j \in Tracked PROVE seen'[j].suppressed = held'[j]
    <3>1. j \in Keys /\ seen[j] \in seenMessage /\ seen[j].suppressed = held[j]
          BY DEF IInv, Types, Tracked, EntriesCount
    <3>2. CASE j = k
          BY <2>1, <3>1, <3>2 DEF CountHeld, IInv, Types, seenMessage
    <3>3. CASE j # k
          BY <3>1, <3>3 DEF CountHeld, IInv, Types
    <3> QED BY <3>2, <3>3
  <2> QED BY <1>1, <2>1 DEF EntriesCount
<1>4. IsFiniteSet(Tracked)' /\ TrackedBounded'
      BY <1>1 DEF IInv, TrackedBounded
<1>5. RateHolds'
  <2>1. \A age \in 0 .. (repeatWindow - 1) : Young(age)' = Young(age)
        BY <1>1 DEF Young
  <2> QED BY <2>1 DEF CountHeld, IInv, RateHolds
<1>6. CountAllOrNone'
      BY DEF CountHeld, IInv, CountAllOrNone
<1> QED BY <1>1, <1>2, <1>3, <1>4, <1>5, <1>6 DEF IInv

\* A message that is sent is paid for, and the map has room for it: what the rate
\* lets through within a window is less than maxTracked.
LEMMA SentStep ==
    ASSUME IInv, NEW k \in Keys, allowSent(k)
    PROVE  IInv'
<1> USE WindowAssumption, NoMessageAssumption
<1> DEFINE fresh == [age |-> 0, suppressed |-> 0]
           bought == eventBurst * eventInterval
<1>1. fresh \in seenMessage /\ fresh # None /\ bought \in Nat
      BY DEF seenMessage
<1>2. /\ Types'
      /\ seen'[k] = fresh
      /\ \A j \in Keys : j # k => seen'[j] = IF j \in Forgotten THEN None ELSE seen[j]
      /\ Tracked' = (Tracked \ Forgotten) \union {k}
  <2>1. /\ seen' \in [Keys -> seenMessage \union {None}]
        /\ seen'[k] = fresh
        /\ \A j \in Keys : j # k => seen'[j] = IF j \in Forgotten THEN None ELSE seen[j]
        BY <1>1 DEF allowSent, IInv, Types
  <2>2. since' \in [Keys -> 0 .. repeatWindow] /\ held' \in [Keys -> Nat]
        BY DEF allowSent, IInv, Types
  <2>3. credit' \in 0 .. (eventBurst * eventInterval)
        BY <1>1 DEF allowSent, AllowN, IInv, Types
  <2>4. Tracked' = (Tracked \ Forgotten) \union {k}
        BY <1>1, <2>1 DEF Tracked
  <2> QED BY <2>1, <2>2, <2>3, <2>4 DEF Types
<1>3. EntriesTell'
  <2>1. \A j \in Forgotten : seen[j].age >= repeatWindow /\ j \in Tracked
        BY DEF Forgotten, Expired
  <2>2. ASSUME NEW j \in Keys
        PROVE  since'[j] = IF j \in Tracked' THEN seen'[j].age ELSE repeatWindow
    <3>1. CASE j = k
          BY <1>2, <3>1 DEF allowSent, IInv, Types
    <3>2. CASE j # k
      <4>1. since'[j] = since[j] /\ since[j] \in 0 .. repeatWindow
            BY <3>2 DEF allowSent, IInv, Types
      <4>2. since[j] = IF j \in Tracked THEN seen[j].age ELSE repeatWindow
            BY DEF IInv, EntriesTell
      <4> QED BY <1>2, <2>1, <3>2, <4>1, <4>2
    <3> QED BY <3>1, <3>2
  <2> QED BY <2>2 DEF EntriesTell
<1>4. EntriesCount'
  <2>1. ASSUME NEW j \in Tracked' PROVE seen'[j].suppressed = held'[j]
    <3>1. CASE j = k
          BY <1>2, <3>1 DEF allowSent, IInv, Types
    <3>2. CASE j # k
      <4>1. j \in Tracked /\ j \in Keys /\ j \notin Forgotten
            BY <1>2, <2>1, <3>2 DEF Tracked
      <4>2. seen'[j] = seen[j] /\ held'[j] = held[j]
            BY <1>2, <3>2, <4>1 DEF allowSent, IInv, Types
      <4> QED BY <4>1, <4>2 DEF IInv, EntriesCount
    <3> QED BY <3>1, <3>2
  <2> QED BY <2>1 DEF EntriesCount
<1>5. IsFiniteSet(Tracked)'
  <2>1. IsFiniteSet(Tracked \ Forgotten)
        BY FS_Difference DEF IInv
  <2> QED BY <1>2, <2>1, FS_AddElement
<1>6. ASSUME NEW age \in 0 .. (repeatWindow - 1)
      PROVE  /\ IsFiniteSet(Young(age)) /\ Cardinality(Young(age)) \in Nat
             /\ Young(age)' = Young(age) \union {k} /\ k \notin Young(age)
             /\ Cardinality(Young(age)') = Cardinality(Young(age)) + 1
  <2>1. IsFiniteSet(Young(age)) /\ Cardinality(Young(age)) \in Nat
    <3>1. Young(age) \in SUBSET Tracked
          BY DEF Young
    <3> QED BY <3>1, FS_Subset, FS_CardinalityType DEF IInv
  <2>2. \A j \in Tracked : seen[j] \in seenMessage /\ j \in Keys
        BY DEF IInv, Types, Tracked
  <2>3. k \notin Young(age)
        BY <2>2 DEF Young, allowSent, Repeated, Expired, seenMessage
  <2>4. \A j \in Young(age) : j \notin Forgotten
        BY <2>2 DEF Young, Forgotten, Expired, seenMessage
  <2>5. Young(age)' = Young(age) \union {k}
    <3>1. ASSUME NEW j \in Young(age)' PROVE j \in Young(age) \union {k}
          BY <1>2, <2>2, <3>1 DEF Young
    <3>2. ASSUME NEW j \in Young(age) \union {k} PROVE j \in Young(age)'
          BY <1>2, <2>2, <2>4, <3>2 DEF Young
    <3> QED BY <3>1, <3>2
  <2> QED BY <2>1, <2>3, <2>5, FS_AddElement
<1>7. RateHolds'
  <2>1. ASSUME NEW age \in 0 .. (repeatWindow - 1)
        PROVE  Cardinality(Young(age)') * eventInterval + credit' <= bought + age
    <3> DEFINE n == Cardinality(Young(age))
    <3>1. n \in Nat /\ Cardinality(Young(age)') = n + 1
          BY <1>6
    <3>2. n * eventInterval + credit <= bought + age
          BY DEF IInv, RateHolds
    <3> HIDE DEF n
    <3>3. (n + 1) * eventInterval = n * eventInterval + eventInterval /\ n * eventInterval \in Nat
          BY <3>1, OneMore
    <3>4. credit \in Nat /\ credit' = credit - eventInterval
          BY <1>1 DEF allowSent, IInv, Types
    <3> HIDE DEF bought
    <3> QED BY <1>1, <3>1, <3>2, <3>3, <3>4
  <2> QED BY <2>1 DEF RateHolds
<1>8. TrackedBounded'
  <2>1. CASE Cardinality(Tracked) < maxTracked
    <3>1. Forgotten = {}
      <4>1. Cardinality(Tracked) \in Nat
            BY FS_CardinalityType DEF IInv
      <4> QED BY <2>1, <4>1 DEF Forgotten
    <3>2. /\ Cardinality(Tracked) \in Nat
          /\ Cardinality(Tracked \union {k}) =
                IF k \in Tracked THEN Cardinality(Tracked) ELSE Cardinality(Tracked) + 1
          BY FS_AddElement, FS_CardinalityType DEF IInv
    <3>3. Tracked' = Tracked \union {k}
          BY <1>2, <3>1
    <3> QED BY <2>1, <3>2, <3>3 DEF TrackedBounded
  <2>2. CASE ~(Cardinality(Tracked) < maxTracked) /\ repeatWindow = 0
    <3>1. \A j \in Tracked : seen[j] \in seenMessage
          BY DEF IInv, Types, Tracked
    <3>2. Cardinality(Tracked) \in Nat
          BY FS_CardinalityType DEF IInv
    <3>3. Forgotten = Tracked
          BY <2>2, <3>1, <3>2 DEF Forgotten, Expired, seenMessage
    <3>4. Cardinality(Tracked)' = 1
      <4>1. Tracked' = {k}
            BY <1>2, <3>3
      <4> QED BY <4>1, FS_Singleton
    <3>5. 1 * eventInterval <= maxTracked * eventInterval
      <4>1. PICK b \in Nat : eventBurst = b + 1
        <5>1. eventBurst - 1 \in Nat /\ eventBurst = (eventBurst - 1) + 1
              OBVIOUS
        <5> QED BY <5>1
      <4>2. bought = b * eventInterval + eventInterval /\ b * eventInterval \in Nat
            BY <4>1, OneMore
      <4> QED BY <2>2, <4>2
    <3> QED BY <3>4, <3>5, LessByFactor DEF TrackedBounded
  <2>3. CASE ~(Cardinality(Tracked) < maxTracked) /\ repeatWindow # 0
    <3> DEFINE n == Cardinality(Young(repeatWindow - 1))
    <3>1. repeatWindow - 1 \in 0 .. (repeatWindow - 1)
          BY <2>3
    <3>2. n \in Nat /\ Cardinality(Young(repeatWindow - 1)') = n + 1
          BY <1>6, <3>1
    <3>3. Tracked' = Young(repeatWindow - 1)'
      <4>1. \A j \in Tracked : seen[j] \in seenMessage /\ j \in Keys
            BY DEF IInv, Types, Tracked
      <4>2. Cardinality(Tracked) \in Nat
            BY FS_CardinalityType DEF IInv
      <4>3. \A j \in Tracked : j \in Forgotten <=> j \notin Young(repeatWindow - 1)
            BY <2>3, <4>1, <4>2 DEF Forgotten, Expired, Young, seenMessage
      <4> QED BY <1>2, <1>6, <3>1, <4>3 DEF Young
    <3>4. n * eventInterval + credit <= bought + (repeatWindow - 1)
          BY <3>1 DEF IInv, RateHolds
    <3> HIDE DEF n
    <3>5. (n + 1) * eventInterval = n * eventInterval + eventInterval /\ n * eventInterval \in Nat
          BY <3>2, OneMore
    <3>6. credit \in Nat /\ credit >= eventInterval
          BY <1>1 DEF allowSent, AllowN, IInv, Types
    <3>7. maxTracked * eventInterval \in Nat
          OBVIOUS
    <3>8. (n + 1) * eventInterval <= maxTracked * eventInterval
          BY <1>1, <3>2, <3>4, <3>5, <3>6, <3>7
    <3>9. n + 1 <= maxTracked
          BY <3>2, <3>8, LessByFactor
    <3> QED BY <3>2, <3>3, <3>9 DEF TrackedBounded
  <2> QED BY <2>1, <2>2, <2>3
<1>9. CountAllOrNone'
      BY DEF allowSent, suppressed, IInv, EntriesCount, CountAllOrNone
<1> QED BY <1>2, <1>3, <1>4, <1>5, <1>7, <1>8, <1>9 DEF IInv

\* A tick adds one to the credit and to every age.
LEMMA TickStep == IInv /\ Tick => IInv'
<1> SUFFICES ASSUME IInv, Tick PROVE IInv'
    OBVIOUS
<1> USE WindowAssumption, NoMessageAssumption
<1> DEFINE bought == eventBurst * eventInterval
<1>1. bought \in Nat
      OBVIOUS
<1>2. \A n \in 0 .. repeatWindow : Older(n) \in 0 .. repeatWindow /\ n <= Older(n)
      BY DEF Older
<1>3. \A j \in Tracked : j \in Keys /\ seen[j] \in seenMessage
      BY DEF IInv, Types, Tracked
<1>4. ASSUME NEW j \in Tracked
      PROVE  /\ seen'[j] \in seenMessage
             /\ seen'[j].age = Older(seen[j].age)
             /\ seen'[j].suppressed = seen[j].suppressed
      BY <1>2, <1>3 DEF Tick, seenMessage
<1>5. \A j \in Keys : j \notin Tracked => seen'[j] = None
      BY DEF Tick
<1>6. Tracked' = Tracked
      BY <1>3, <1>4, <1>5 DEF Tracked
<1>7. Types'
  <2>1. seen' \in [Keys -> seenMessage \union {None}]
    <3>1. \A j \in Keys : seen'[j] \in seenMessage \union {None}
          BY <1>4, <1>5
    <3>2. seen' = [j \in Keys |-> seen'[j]]
          BY DEF Tick
    <3> QED BY <3>1, <3>2
  <2>2. since' \in [Keys -> 0 .. repeatWindow]
        BY <1>2 DEF Tick, IInv, Types
  <2>3. credit' \in 0 .. bought
        BY <1>1 DEF Tick, IInv, Types
  <2> QED BY <2>1, <2>2, <2>3 DEF Tick, IInv, Types
<1>8. EntriesTell'
  <2>1. ASSUME NEW j \in Keys
        PROVE  since'[j] = IF j \in Tracked THEN seen'[j].age ELSE repeatWindow
    <3>1. since'[j] = Older(since[j])
          BY DEF Tick
    <3>2. since[j] = IF j \in Tracked THEN seen[j].age ELSE repeatWindow
          BY DEF IInv, EntriesTell
    <3>3. Older(repeatWindow) = repeatWindow
          BY DEF Older
    <3> QED BY <1>4, <3>1, <3>2, <3>3
  <2> QED BY <1>6, <2>1 DEF EntriesTell
<1>9. EntriesCount'
      BY <1>4, <1>6 DEF Tick, IInv, EntriesCount
<1>10. IsFiniteSet(Tracked)' /\ TrackedBounded'
       BY <1>6 DEF IInv, TrackedBounded
<1>11. RateHolds'
  <2>1. ASSUME NEW age \in 0 .. (repeatWindow - 1)
        PROVE  Cardinality(Young(age)') * eventInterval + credit' <= bought + age
    <3>1. CASE age = 0
      <4>1. \A j \in Tracked : seen'[j].age > 0
            BY <1>3, <1>4 DEF Older, seenMessage
      <4>2. Young(age)' = {}
            BY <1>3, <1>4, <1>6, <3>1, <4>1 DEF Young, seenMessage
      <4>3. Cardinality(Young(age)') = 0
            BY <4>2, FS_EmptySet
      <4>4. credit' \in 0 .. bought
            BY <1>7 DEF Types
      <4> HIDE DEF bought
      <4> QED BY <1>1, <3>1, <4>3, <4>4
    <3>2. CASE age # 0
      <4> DEFINE n == Cardinality(Young(age - 1))
      <4>1. age - 1 \in 0 .. (repeatWindow - 1)
            BY <3>2
      <4>2. Young(age)' = Young(age - 1)
        <5>1. \A j \in Tracked : seen'[j].age <= age <=> seen[j].age <= age - 1
              BY <1>3, <1>4, <4>1 DEF Older, seenMessage
        <5> QED BY <1>6, <5>1 DEF Young
      <4>3. n * eventInterval + credit <= bought + (age - 1)
            BY <4>1 DEF IInv, RateHolds
      <4>4. n \in Nat
        <5>1. Young(age - 1) \in SUBSET Tracked
              BY DEF Young
        <5> QED BY <5>1, FS_Subset, FS_CardinalityType DEF IInv
      <4>5. n * eventInterval \in Nat
            BY <4>4
      <4>6. credit \in Nat /\ credit' \in Nat /\ credit' <= credit + 1
            BY <1>1 DEF Tick, IInv, Types
      <4> HIDE DEF n, bought
      <4>7. n * eventInterval + credit' <= bought + age
            BY <1>1, <4>1, <4>3, <4>5, <4>6
      <4> QED BY <4>2, <4>7 DEF n
    <3> QED BY <3>1, <3>2
  <2> QED BY <2>1 DEF RateHolds
<1>12. CountAllOrNone'
       BY DEF Tick, IInv, CountAllOrNone
<1> QED BY <1>7, <1>8, <1>9, <1>10, <1>11, <1>12 DEF IInv

-----------------------------------------------------------------------------
(* The theorems.                                                           *)

\* The invariant holds in every reachable state.
LEMMA Invariance == Spec => []IInv
<1>1. IInv /\ [Next]_vars => IInv'
  <2> SUFFICES ASSUME IInv, [Next]_vars PROVE IInv'
      OBVIOUS
  <2>1. CASE Tick
        BY <2>1, TickStep
  <2>2. ASSUME NEW k \in Keys, allowRepeated(k) \/ allowOverRate(k) PROVE IInv'
        BY <2>2, HeldStep DEF allowRepeated, allowOverRate
  <2>3. ASSUME NEW k \in Keys, allowSent(k) PROVE IInv'
        BY <2>3, SentStep
  <2>4. CASE UNCHANGED vars
        BY <2>4 DEF vars, IInv, Types, EntriesTell, EntriesCount, CountAllOrNone,
                    TrackedBounded, RateHolds, Young, Tracked
  <2> QED BY <2>1, <2>2, <2>3, <2>4 DEF Next
<1> QED BY InitIInv, <1>1, PTL DEF Spec

\* The map never outgrows maxTracked.
THEOREM Bounded == Spec => []TrackedBounded
<1>1. IInv => TrackedBounded
      BY DEF IInv
<1> QED BY Invariance, <1>1, PTL

\* A message tells how many like it were held back since the last one, or none.
THEOREM CountedWhole == Spec => []CountAllOrNone
<1>1. IInv => CountAllOrNone
      BY DEF IInv
<1> QED BY Invariance, <1>1, PTL

\* A message is sent once per window.
THEOREM Once == Spec => OncePerWindow
<1>1. IInv => [\A k \in Keys : allowSent(k) => since[k] = repeatWindow]_vars
  <2> SUFFICES ASSUME IInv, NEW k \in Keys, allowSent(k)
               PROVE  since[k] = repeatWindow
      OBVIOUS
  <2>1. CASE k \in Tracked
    <3>1. since[k] = seen[k].age /\ since[k] \in 0 .. repeatWindow
          BY <2>1 DEF IInv, EntriesTell, Types
    <3>2. seen[k].age >= repeatWindow
          BY <2>1 DEF allowSent, Repeated, Expired
    <3> QED BY <3>1, <3>2, WindowAssumption
  <2>2. CASE k \notin Tracked
        BY <2>2 DEF IInv, EntriesTell
  <2> QED BY <2>1, <2>2
<1> QED BY Invariance, <1>1, PTL DEF Spec, OncePerWindow
=============================================================================

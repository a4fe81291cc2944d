------------------------- MODULE SpeedLimiterProofs -------------------------
(***************************************************************************)
(* Proofs about SpeedLimiter, for any finite set of connections, any       *)
(* limits, bursts and sizes.                                               *)
(***************************************************************************)
EXTENDS SpeedLimiter, FiniteSetTheorems, TLAPS

-----------------------------------------------------------------------------
(* The inductive invariant.                                                *)

\* Limiters are made by setSpeedLimit, at most one per limit, and only ones that
\* were made are waited on; they have a rate, and before the first there are no
\* tokens.
OnlyMadeUsed ==
    /\ made <= sets
    /\ limiter # None => limiter \in 1 .. made
    /\ \A c \in Conns : conn[c].at # "idle" =>
          /\ conn[c].limiter # None => conn[c].limiter \in 1 .. made
          /\ conn[c].at \in {"wait", "chunk", "sleep"} => conn[c].limiter # None
    /\ \A l \in 1 .. made : rate[l] # 0
    /\ made = 0 => \A l \in Limiters : tokens[l] = 0
    /\ resetting # None => limiter # None /\ sets > 1

\* A chunk is part of what is left, and of some burst.
ChunkOfRest ==
    \A c \in Conns : conn[c].at \in {"chunk", "sleep"} =>
        conn[c].chunk <= conn[c].left /\ conn[c].chunk <= MaxBurst

\* The connections that sleep, those that wake within t seconds, and what they
\* have taken tokens for.
Sleepers == {c \in Conns : conn[c].at = "sleep"}
Due(t) == {c \in Sleepers : conn[c].sleep <= t}
Chunks == [c \in Conns |-> IF conn[c].at = "sleep" THEN conn[c].chunk ELSE 0]

\* The sum of f over S, as the size of the set of its units.
Units(S, f) == {p \in S \X (1 .. MaxBurst) : p[2] <= f[p[1]]}
Total(S, f) == Cardinality(Units(S, f))

\* Under the first limit: what is taken and not yet passed, together with the
\* tokens, is within the allowance, and so is at any time to come what will
\* have passed by then.
Paced ==
    sets = 1 =>
        /\ Total(Sleepers, Chunks) + tokens[1] <= allowance
        /\ \A t \in Nat : Total(Due(t), Chunks) <= allowance + rate[1] * t

\* What of RefusedOnlyWhenOvertaken depends on the order of the steps, and what
\* does on the size of buckets.
RefusedOvertakenOnly ==
    \A c \in Conns : conn[c].at = "chunk" /\ conn[c].chunk > burst[conn[c].limiter] =>
        conn[c].overtaken
HoldMinBurst == \A l \in 1 .. made : burst[l] >= MinBurst

IInv ==
    /\ TypeOK /\ OnlyMadeUsed /\ ChunkOfRest /\ RefusedOvertakenOnly /\ HoldMinBurst
    /\ Paced

-----------------------------------------------------------------------------
(* The operators.                                                          *)

\* min of two integers.
LEMMA LeastOfTwo ==
    ASSUME NEW a \in Int, NEW b \in Int
    PROVE  Least(a, b) = IF a <= b THEN a ELSE b
BY DEF Least, Min

\* max of two integers.
LEMMA MostOfTwo ==
    ASSUME NEW a \in Int, NEW b \in Int
    PROVE  Most(a, b) = IF a >= b THEN a ELSE b
BY DEF Most, Max

\* bucket: a burst is never below minBurst or above MaxInt32, whatever the limit.
LEMMA BucketBounds ==
    ASSUME NEW limit \in Limits
    PROVE  bucket(limit) \in MinBurst .. MaxBurst /\ bucket(limit) \in Nat
<1>1. limit \in Int /\ MinBurst \in Int /\ MaxBurst \in Int
      BY LimitsAssumption, BurstAssumption
<1>2. PICK m \in Int : m = Most(limit, MinBurst) /\ m >= MinBurst
      BY <1>1, MostOfTwo
<1>3. bucket(limit) = IF m <= MaxBurst THEN m ELSE MaxBurst
      BY <1>1, <1>2, LeastOfTwo DEF bucket
<1> QED BY <1>2, <1>3, BurstAssumption

\* WaitN: whoever sleeps off a debt sleeps at least as long as the rate needs to
\* pay it.
LEMMA SleepPays ==
    ASSUME NEW debt \in Int, NEW r \in Nat
    PROVE  /\ Sleep(debt, r) \in Nat
           /\ r # 0 => debt <= r * Sleep(debt, r)
<1>1. CASE debt <= 0
      BY <1>1 DEF Sleep
<1>2. CASE debt > 0 /\ r = 0
      BY <1>2 DEF Sleep, Forever
<1>3. CASE debt > 0 /\ r # 0
  <2>1. Sleep(debt, r) = (debt + r - 1) \div r
        BY <1>3 DEF Sleep
  <2>2. ASSUME NEW n \in Nat, NEW m \in Nat \ {0}
        PROVE  n \div m \in Nat /\ n < m * (n \div m) + m
        OBVIOUS
  <2>3. debt + r - 1 \in Nat /\ r \in Nat \ {0}
        BY <1>3
  <2>4. (debt + r - 1) \div r \in Nat /\ debt + r - 1 < r * ((debt + r - 1) \div r) + r
        BY <2>2, <2>3
  <2> QED BY <2>1, <2>4
<1> QED BY <1>1, <1>2, <1>3

-----------------------------------------------------------------------------
(* Sums.                                                                   *)

\* The units of a set of connections are finitely many.
LEMMA TotalType ==
    ASSUME NEW S \in SUBSET Conns, NEW f
    PROVE  IsFiniteSet(Units(S, f)) /\ Total(S, f) \in Nat
<1>1. IsFiniteSet(S) /\ IsFiniteSet(1 .. MaxBurst)
      BY ConnsAssumption, BurstAssumption, FS_Subset, FS_Interval
<1>2. IsFiniteSet(S \X (1 .. MaxBurst))
      BY <1>1, FS_Product
<1>3. Units(S, f) \in SUBSET (S \X (1 .. MaxBurst))
      BY DEF Units
<1> QED BY <1>2, <1>3, FS_Subset, FS_CardinalityType DEF Total

\* A sum depends on the summands only.
LEMMA TotalSame ==
    ASSUME NEW S, NEW f, NEW g, \A c \in S : f[c] = g[c]
    PROVE  Total(S, f) = Total(S, g)
<1>1. Units(S, f) = Units(S, g)
      BY DEF Units
<1> QED BY <1>1 DEF Total

\* A smaller set has the smaller sum.
LEMMA TotalSubset ==
    ASSUME NEW T \in SUBSET Conns, NEW S \in SUBSET T, NEW f
    PROVE  Total(S, f) <= Total(T, f)
<1>1. Units(S, f) \in SUBSET Units(T, f)
      BY DEF Units
<1> QED BY <1>1, TotalType, FS_Subset DEF Total

\* One connection more adds its summand.
LEMMA TotalAdd ==
    ASSUME NEW S \in SUBSET Conns, NEW c \in Conns, c \notin S, NEW f, f[c] \in 0 .. MaxBurst
    PROVE  Total(S \union {c}, f) = Total(S, f) + f[c]
<1> DEFINE own == {c} \X (1 .. f[c])
<1>1. Units(S \union {c}, f) = Units(S, f) \union own
      BY BurstAssumption DEF Units
<1>2. Units(S, f) \intersect own = {}
      BY DEF Units
<1>3. IsFiniteSet(own) /\ Cardinality(own) = f[c]
  <2>1. IsFiniteSet({c}) /\ Cardinality({c}) = 1
        BY FS_Singleton
  <2>2. IsFiniteSet(1 .. f[c]) /\ Cardinality(1 .. f[c]) = f[c]
        BY FS_Interval
  <2>3. IsFiniteSet(own) /\ Cardinality(own) = Cardinality({c}) * Cardinality(1 .. f[c])
        BY <2>1, <2>2, FS_Product
  <2>4. \A k \in Nat : 1 * k = k
        OBVIOUS
  <2> QED BY <2>1, <2>2, <2>3, <2>4
<1>4. Cardinality({}) = 0
      BY FS_EmptySet
<1> HIDE DEF own
<1>5. Cardinality(Units(S, f) \union own)
        = Cardinality(Units(S, f)) + Cardinality(own) - Cardinality(Units(S, f) \intersect own)
      BY <1>3, TotalType, FS_Union
<1>6. Total(S, f) \in Nat /\ Total(S, f) = Cardinality(Units(S, f))
      BY TotalType DEF Total
<1>7. Cardinality(Units(S, f) \union own) = Total(S, f) + f[c]
  <2>1. Cardinality(Units(S, f) \intersect own) = 0
        BY <1>2, <1>4
  <2>2. \A n, k \in Int : n + k - 0 = n + k
        OBVIOUS
  <2>3. Total(S, f) \in Int /\ f[c] \in Int
        BY <1>6
  <2> QED BY <1>3, <1>5, <1>6, <2>1, <2>2, <2>3
<1> QED BY <1>1, <1>7 DEF Total

-----------------------------------------------------------------------------
(* Every step keeps the invariant.                                         *)

\* What the types say of one connection.
LEMMA ConnFacts ==
    ASSUME TypeOK, NEW c \in Conns, conn[c].at # "idle"
    PROVE  /\ conn[c] \in Conn
           /\ conn[c].at \in {"open", "wait", "chunk", "sleep"}
           /\ conn[c].limiter \in Limiters \union {None}
           /\ conn[c].left \in Nat /\ conn[c].chunk \in Nat /\ conn[c].sleep \in Nat
<1>1. conn[c] \in Conn
      BY DEF TypeOK, NoConn
<1> QED BY <1>1 DEF Conn

\* A limiter that was made has its numbers.
LEMMA LimiterFacts ==
    ASSUME TypeOK, NEW l \in Limiters
    PROVE  /\ rate[l] \in Nat /\ burst[l] \in 0 .. MaxBurst /\ burst[l] \in Nat
           /\ tokens[l] \in Int /\ l \in Nat \ {0} /\ 1 \in Limiters
<1>1. rate[l] \in Limits /\ burst[l] \in 0 .. MaxBurst /\ tokens[l] \in Int
      BY DEF TypeOK
<1>2. l \in Nat \ {0} /\ 1 \in Limiters
      BY BoundsAssumption DEF Limiters
<1>3. rate[l] \in Nat /\ burst[l] \in Nat
  <2>1. 0 .. MaxBurst \subseteq Nat
        BY BurstAssumption
  <2> QED BY <1>1, <2>1, LimitsAssumption
<1> QED BY <1>1, <1>2, <1>3

\* A connection that waits, waits on a limiter.
LEMMA WaitsOn ==
    ASSUME IInv, NEW c \in Conns, conn[c].at \in {"wait", "chunk", "sleep"}
    PROVE  conn[c].limiter \in Limiters /\ conn[c].limiter \in 1 .. made
<1>1. conn[c].limiter \in 1 .. made
      BY DEF IInv, OnlyMadeUsed
<1>2. 1 .. made \subseteq Limiters
      BY BoundsAssumption DEF IInv, TypeOK, Limiters
<1> QED BY <1>1, <1>2

\* The types.
LEMMA TypeStep ==
    ASSUME IInv, Next
    PROVE  TypeOK'
<1>1. TypeOK /\ \A c \in Conns : conn[c].at \in {"chunk", "sleep"} => conn[c].chunk <= conn[c].left
      BY DEF IInv, ChunkOfRest
<1>2. ASSUME NEW c \in Conns, NEW r \in Conn \union {NoConn}, conn' = [conn EXCEPT ![c] = r],
             UNCHANGED <<wanted, limiter, made, rate, burst, resetting, sets>>,
             tokens' \in [Limiters -> Int], bytes' \in 0 .. MaxBytes, allowance' \in Int
      PROVE  TypeOK'
      BY <1>1, <1>2 DEF TypeOK
<1>3. ASSUME NEW limit \in Limits, setSpeedLimit(limit)
      PROVE  TypeOK'
  <2>1. /\ bucket(limit) \in MinBurst .. MaxBurst /\ bucket(limit) \in Nat
        /\ bucket(limit) \in 0 .. MaxBurst
        BY BucketBounds, BurstAssumption
  <2>2. allowance' \in Int /\ sets' \in 0 .. MaxSets /\ wanted' \in Limits
        BY <1>1, <1>3, <2>1, BoundsAssumption DEF setSpeedLimit, FirstAllowance, TypeOK
  <2>3. CASE limit = 0 /\ setUnlimited
        BY <1>1, <1>3, <2>2, <2>3 DEF setSpeedLimit, setUnlimited, TypeOK
  <2>4. CASE setNew(limit)
    <3>1. made' \in Limiters /\ made' \in 0 .. MaxMade /\ limiter' = made'
          BY <1>1, <2>4, BoundsAssumption DEF setNew, TypeOK, Limiters
    <3> QED BY <1>1, <1>3, <2>1, <2>2, <2>4, <3>1 DEF setSpeedLimit, setNew, TypeOK
  <2>5. CASE limiter # None /\ SetLimit(limit)
        BY <1>1, <1>3, <2>1, <2>2, <2>5 DEF setSpeedLimit, SetLimit, TypeOK
  <2> QED BY <1>3, <2>3, <2>4, <2>5 DEF setSpeedLimit
<1>4. CASE SetBurst
  <2>1. limiter \in Limiters /\ resetting \in 0 .. MaxBurst
        BY <1>1, <1>4, BurstAssumption DEF SetBurst, IInv, OnlyMadeUsed, TypeOK
  <2>2. Least(tokens[limiter], burst[limiter]) \in Int
        BY <1>1, <2>1, LimiterFacts, LeastOfTwo
  <2>3. conn' \in [Conns -> Conn \union {NoConn}]
    <3>1. ASSUME NEW c \in Conns, conn[c].at = "chunk"
          PROVE  [conn[c] EXCEPT !.overtaken = TRUE] \in Conn
      <4>1. conn[c] \in Conn
            BY <1>1, <3>1, ConnFacts
      <4> QED BY <4>1 DEF Conn
    <3> QED BY <1>1, <1>4, <3>1 DEF SetBurst, Overtaken, TypeOK
  <2> QED BY <1>1, <1>4, <2>1, <2>2, <2>3 DEF SetBurst, TypeOK
<1>5. ASSUME NEW c \in Conns, Open(c)
      PROVE  TypeOK'
  <2>1. [at |-> "open", limiter |-> limiter, left |-> 0, chunk |-> 0, sleep |-> 0,
         overtaken |-> FALSE] \in Conn
        BY <1>1 DEF TypeOK, Conn
  <2> QED BY <1>1, <1>2, <1>5, <2>1 DEF Open, TypeOK
<1>6. ASSUME NEW c \in Conns, Close(c) \/ WaitNRefused(c)
      PROVE  TypeOK'
      BY <1>1, <1>2, <1>6 DEF Close, WaitNRefused, TypeOK
<1>7. ASSUME NEW c \in Conns, NEW n \in Nat, Wait(c, n)
      PROVE  TypeOK'
  <2>1. conn[c] \in Conn
        BY <1>1, <1>7, ConnFacts DEF Wait
  <2>2. PICK r : r = [conn[c] EXCEPT !.at = "wait", !.left = n]
        OBVIOUS
  <2>3. r \in Conn /\ conn' = [conn EXCEPT ![c] = r]
        BY <1>1, <1>7, <2>1, <2>2 DEF Wait, Conn, TypeOK
  <2>4. bytes' \in 0 .. MaxBytes
        BY <1>1, <1>7, BoundsAssumption DEF Wait, TypeOK
  <2> QED BY <1>1, <1>2, <1>7, <2>3, <2>4 DEF Wait, TypeOK
<1>8. ASSUME NEW c \in Conns, Read(c) \/ Write(c) \/ Packet(c)
      PROVE  TypeOK'
  <2>1. \A size \in Sizes : size \in Nat /\ 1 .. size \subseteq Nat
        BY SizesAssumption
  <2>2. \E n \in Nat : Wait(c, n)
        BY <1>8, <2>1 DEF Read, Write, Packet
  <2> QED BY <1>7, <2>2
<1>9. ASSUME NEW c \in Conns, Chunk(c)
      PROVE  TypeOK'
  <2>1. conn[c] \in Conn /\ conn[c].at = "wait"
        BY <1>1, <1>9, ConnFacts DEF Chunk
  <2>2. PICK k \in Nat : k = Least(conn[c].left, burst[conn[c].limiter])
        BY <1>1, <2>1, WaitsOn, ConnFacts, LimiterFacts, LeastOfTwo
  <2>3. PICK r : r = [conn[c] EXCEPT !.at = "chunk", !.overtaken = FALSE, !.chunk = k]
        OBVIOUS
  <2>4. r \in Conn
        BY <2>1, <2>2, <2>3 DEF Conn
  <2>5. conn' = [conn EXCEPT ![c] = r]
        BY <1>1, <1>9, <2>2, <2>3 DEF Chunk, TypeOK
  <2> QED BY <1>1, <1>2, <1>9, <2>4, <2>5 DEF Chunk, TypeOK
<1>10. ASSUME NEW c \in Conns, WaitN(c)
       PROVE  TypeOK'
  <2>1. conn[c] \in Conn /\ conn[c].at = "chunk" /\ conn[c].chunk \in Nat
        BY <1>1, <1>10, ConnFacts DEF WaitN
  <2>2. PICK l \in Limiters : l = conn[c].limiter
        BY <2>1, WaitsOn
  <2>3. PICK after \in Int : after = Least(tokens[l], burst[l]) - conn[c].chunk
        BY <1>1, <2>1, <2>2, LimiterFacts, LeastOfTwo
  <2>4. PICK t \in Nat : t = Sleep(-after, rate[l])
    <3>1. -after \in Int /\ rate[l] \in Nat
          BY <1>1, <2>2, <2>3, LimiterFacts
    <3> QED BY <3>1, SleepPays
  <2>5. PICK r : r = [conn[c] EXCEPT !.at = "sleep", !.sleep = t]
        OBVIOUS
  <2>6. r \in Conn
        BY <2>1, <2>4, <2>5 DEF Conn
  <2>7. conn' = [conn EXCEPT ![c] = r] /\ tokens' = [tokens EXCEPT ![l] = after]
        BY <1>1, <1>10, <2>2, <2>3, <2>4, <2>5 DEF WaitN, TypeOK
  <2>8. tokens' \in [Limiters -> Int] /\ allowance' \in Int
    <3>1. tokens \in [Limiters -> Int] /\ allowance \in Int /\ allowance' = allowance
          BY <1>1, <1>10 DEF WaitN, TypeOK
    <3>2. [tokens EXCEPT ![l] = after] \in [Limiters -> Int]
          BY <2>3, <3>1
    <3> QED BY <2>7, <3>1, <3>2
  <2> QED BY <1>1, <1>2, <1>10, <2>6, <2>7, <2>8 DEF WaitN, TypeOK
<1>11. ASSUME NEW c \in Conns, Wake(c)
       PROVE  TypeOK'
  <2>1. /\ conn[c] \in Conn /\ conn[c].at = "sleep" /\ conn[c].chunk \in Nat
        /\ conn[c].left \in Nat /\ conn[c].chunk <= conn[c].left
        BY <1>1, <1>11, ConnFacts DEF Wake
  <2>2. PICK rest \in Nat : rest = conn[c].left - conn[c].chunk
        BY <2>1
  <2>3. PICK next : next = IF conn[c].left = conn[c].chunk THEN "open" ELSE "wait"
        OBVIOUS
  <2>4. PICK r : r = [conn[c] EXCEPT !.left = rest, !.chunk = 0, !.at = next]
        OBVIOUS
  <2>5. r \in Conn
        BY <2>1, <2>2, <2>3, <2>4 DEF Conn
  <2>6. conn' = [conn EXCEPT ![c] = r]
        BY <1>1, <1>11, <2>2, <2>3, <2>4 DEF Wake, TypeOK
  <2>7. allowance' \in Int
        BY <1>1, <1>11, <2>1 DEF Wake, TypeOK
  <2> QED BY <1>1, <1>2, <1>11, <2>5, <2>6, <2>7 DEF Wake, TypeOK
<1>12. CASE Tick
  <2>1. tokens' \in [Limiters -> Int]
    <3>1. \A l \in Limiters : Least(burst[l], tokens[l] + rate[l]) \in Int
          BY <1>1, LimiterFacts, LeastOfTwo
    <3> QED BY <1>12, <3>1 DEF Tick
  <2>2. conn' \in [Conns -> Conn \union {NoConn}]
    <3>1. ASSUME NEW c \in Asleep
          PROVE  [conn[c] EXCEPT !.sleep = @ - 1] \in Conn
      <4>1. c \in Conns /\ conn[c].at = "sleep" /\ conn[c].sleep > 0
            BY <3>1 DEF Asleep
      <4>2. conn[c] \in Conn /\ conn[c].sleep \in Nat
            BY <1>1, <4>1, ConnFacts
      <4>3. conn[c].sleep - 1 \in Nat
            BY <4>1, <4>2
      <4> QED BY <4>2, <4>3 DEF Conn
    <3> QED BY <1>1, <1>12, <3>1 DEF Tick, TypeOK
  <2>3. allowance' \in Int
    <3>1. 1 \in Limiters
          BY BoundsAssumption DEF Limiters
    <3>2. rate[1] \in Nat /\ allowance \in Int
          BY <1>1, <3>1, LimiterFacts DEF TypeOK
    <3> QED BY <1>12, <3>2 DEF Tick
  <2> QED BY <1>1, <1>12, <2>1, <2>2, <2>3 DEF Tick, TypeOK
<1> QED BY <1>3, <1>4, <1>5, <1>6, <1>8, <1>9, <1>10, <1>11, <1>12 DEF Next, ConnNext

\* A step of a connection leaves the others alone, and keeps its own limiter
\* until it is over; only Open starts one, and a wait only on a limiter.
LEMMA ConnChange ==
    ASSUME TypeOK, NEW c \in Conns, ConnNext(c)
    PROVE  /\ UNCHANGED <<wanted, limiter, made, rate, burst, resetting, sets>>
           /\ \A d \in Conns \ {c} : conn'[d] = conn[d]
           /\ \/ Open(c) /\ conn'[c].at = "open" /\ conn'[c].limiter = limiter
              \/ /\ \E n \in Nat : Wait(c, n)
                 /\ conn'[c].at = "wait" /\ conn'[c].limiter = conn[c].limiter
              \/ /\ Chunk(c) /\ conn'[c].at = "chunk" /\ conn'[c].limiter = conn[c].limiter
                 /\ conn'[c].left = conn[c].left
                 /\ conn'[c].chunk = Least(conn[c].left, burst[conn[c].limiter])
              \/ /\ WaitN(c) /\ conn'[c].at = "sleep" /\ conn'[c].limiter = conn[c].limiter
                 /\ conn'[c].left = conn[c].left /\ conn'[c].chunk = conn[c].chunk
              \/ /\ Wake(c) /\ conn'[c].at \in {"open", "wait"}
                 /\ conn'[c].limiter = conn[c].limiter
              \/ (Close(c) \/ WaitNRefused(c)) /\ conn'[c].at = "idle"
<1>1. conn \in [Conns -> Conn \union {NoConn}]
      BY DEF TypeOK
<1>2. UNCHANGED <<wanted, limiter, made, rate, burst, resetting, sets>>
      BY DEF ConnNext, Open, Close, Read, Write, Packet, Wait, Chunk, WaitN, WaitNRefused, Wake
<1>3. \A d \in Conns \ {c} : conn'[d] = conn[d]
  <2>1. \E r : conn' = [conn EXCEPT ![c] = r]
        BY <1>1 DEF ConnNext, Open, Close, Read, Write, Packet, Wait, Chunk, WaitN,
                    WaitNRefused, Wake
  <2> QED BY <1>1, <2>1
<1>4. CASE Open(c)
      BY <1>1, <1>2, <1>3, <1>4 DEF Open
<1>5. CASE Read(c) \/ Write(c) \/ Packet(c)
  <2>1. \A size \in Sizes : size \in Nat /\ 1 .. size \subseteq Nat
        BY SizesAssumption
  <2>2. PICK n \in Nat : Wait(c, n)
        BY <1>5, <2>1 DEF Read, Write, Packet
  <2>3. conn[c] \in Conn
        BY <2>2, ConnFacts DEF Wait
  <2>4. conn'[c].at = "wait" /\ conn'[c].limiter = conn[c].limiter
        BY <1>1, <2>2, <2>3 DEF Wait, Conn
  <2> QED BY <1>2, <1>3, <2>2, <2>4
<1>6. CASE Chunk(c)
  <2>1. conn[c] \in Conn
        BY <1>6, ConnFacts DEF Chunk
  <2>2. PICK k : k = Least(conn[c].left, burst[conn[c].limiter])
        OBVIOUS
  <2>3. conn'[c] = [conn[c] EXCEPT !.at = "chunk", !.overtaken = FALSE, !.chunk = k]
        BY <1>1, <1>6, <2>2 DEF Chunk
  <2>4. /\ conn'[c].at = "chunk" /\ conn'[c].limiter = conn[c].limiter
        /\ conn'[c].left = conn[c].left /\ conn'[c].chunk = k
        BY <2>1, <2>3 DEF Conn
  <2> QED BY <1>2, <1>3, <1>6, <2>2, <2>4
<1>7. CASE WaitN(c)
  <2>1. conn[c] \in Conn
        BY <1>7, ConnFacts DEF WaitN
  <2>2. PICK t : conn' = [conn EXCEPT ![c].at = "sleep", ![c].sleep = t]
        BY <1>7 DEF WaitN
  <2>3. /\ conn'[c].at = "sleep" /\ conn'[c].limiter = conn[c].limiter
        /\ conn'[c].left = conn[c].left /\ conn'[c].chunk = conn[c].chunk
        BY <1>1, <2>1, <2>2 DEF Conn
  <2> QED BY <1>2, <1>3, <1>7, <2>3
<1>8. CASE Wake(c)
  <2>1. conn[c] \in Conn
        BY <1>8, ConnFacts DEF Wake
  <2>2. PICK next : next = IF conn[c].left = conn[c].chunk THEN "open" ELSE "wait"
        OBVIOUS
  <2>3. PICK rest : rest = conn[c].left - conn[c].chunk
        OBVIOUS
  <2>4. conn'[c] = [conn[c] EXCEPT !.left = rest, !.chunk = 0, !.at = next]
        BY <1>1, <1>8, <2>2, <2>3 DEF Wake
  <2>5. conn'[c].at = next /\ conn'[c].limiter = conn[c].limiter
        BY <2>1, <2>4 DEF Conn
  <2> QED BY <1>2, <1>3, <1>8, <2>2, <2>5
<1>9. CASE Close(c) \/ WaitNRefused(c)
      BY <1>1, <1>2, <1>3, <1>9 DEF Close, WaitNRefused, NoConn
<1> QED BY <1>4, <1>5, <1>6, <1>7, <1>8, <1>9 DEF ConnNext

\* SetBurst marks connections, and changes nothing else of them.
LEMMA SetBurstConns ==
    ASSUME TypeOK, SetBurst, NEW c \in Conns
    PROVE  /\ conn[c].at = "idle" => conn'[c].at = "idle"
           /\ conn[c].at # "idle" =>
                 /\ conn'[c].at = conn[c].at /\ conn'[c].limiter = conn[c].limiter
                 /\ conn'[c].left = conn[c].left /\ conn'[c].chunk = conn[c].chunk
                 /\ conn'[c].sleep = conn[c].sleep
           /\ conn[c].at = "chunk" /\ conn[c].limiter = limiter => conn'[c].overtaken
           /\ ~(conn[c].at = "chunk" /\ conn[c].limiter = limiter) => conn'[c] = conn[c]
<1>1. conn'[c] = IF conn[c].at = "chunk" /\ conn[c].limiter = limiter
                 THEN [conn[c] EXCEPT !.overtaken = TRUE] ELSE conn[c]
      BY DEF SetBurst, Overtaken
<1>2. CASE conn[c].at = "chunk" /\ conn[c].limiter = limiter
  <2>1. conn[c] \in Conn /\ conn'[c] = [conn[c] EXCEPT !.overtaken = TRUE]
        BY <1>1, <1>2, ConnFacts
  <2>2. /\ conn'[c].at = conn[c].at /\ conn'[c].limiter = conn[c].limiter
        /\ conn'[c].left = conn[c].left /\ conn'[c].chunk = conn[c].chunk
        /\ conn'[c].sleep = conn[c].sleep
        BY <2>1 DEF Conn
  <2>3. conn'[c].overtaken = TRUE
        BY <2>1 DEF Conn
  <2> QED BY <1>2, <2>2, <2>3
<1>3. CASE ~(conn[c].at = "chunk" /\ conn[c].limiter = limiter)
      BY <1>1, <1>3
<1> QED BY <1>2, <1>3

\* A second less to sleep, and nothing else changes of a connection.
LEMMA TickConns ==
    ASSUME TypeOK, Tick, NEW c \in Conns
    PROVE  /\ conn[c].at = "idle" => conn'[c].at = "idle"
           /\ conn[c].at # "idle" =>
                 /\ conn'[c].at = conn[c].at /\ conn'[c].limiter = conn[c].limiter
                 /\ conn'[c].left = conn[c].left /\ conn'[c].chunk = conn[c].chunk
                 /\ conn[c].sleep <= conn'[c].sleep + 1
           /\ conn[c].at = "chunk" => conn'[c] = conn[c]
<1>1. conn'[c] = IF c \in Asleep /\ conn[c].sleep # Forever
                 THEN [conn[c] EXCEPT !.sleep = @ - 1] ELSE conn[c]
      BY DEF Tick
<1>2. CASE c \in Asleep /\ conn[c].sleep # Forever
  <2>1. conn[c].at = "sleep"
        BY <1>2 DEF Asleep
  <2>2. conn[c] \in Conn /\ conn[c].sleep \in Nat
        BY <2>1, ConnFacts
  <2>3. PICK t \in Int : t = conn[c].sleep - 1
        BY <2>2
  <2>4. conn'[c] = [conn[c] EXCEPT !.sleep = t]
        BY <1>1, <1>2, <2>3
  <2>5. /\ conn'[c].at = conn[c].at /\ conn'[c].limiter = conn[c].limiter
        /\ conn'[c].left = conn[c].left /\ conn'[c].chunk = conn[c].chunk
        /\ conn'[c].sleep = t
        BY <2>2, <2>4 DEF Conn
  <2> QED BY <2>1, <2>2, <2>3, <2>5
<1>3. CASE ~(c \in Asleep /\ conn[c].sleep # Forever)
  <2>1. conn'[c] = conn[c]
        BY <1>1, <1>3
  <2>2. conn[c].at # "idle" => conn[c].sleep <= conn[c].sleep + 1
        BY ConnFacts
  <2> QED BY <2>1, <2>2
<1> QED BY <1>2, <1>3

\* Which limiters there are and who waits on them.
LEMMA MadeStep ==
    ASSUME IInv, Next
    PROVE  OnlyMadeUsed'
<1>1. /\ TypeOK /\ made \in Nat /\ sets \in Nat /\ made <= MaxMade /\ MaxMade \in Nat
      /\ OnlyMadeUsed
      BY BoundsAssumption DEF IInv, TypeOK
<1>2. ASSUME NEW limit \in Limits, setSpeedLimit(limit)
      PROVE  OnlyMadeUsed'
  <2>1. UNCHANGED conn /\ sets' = sets + 1 /\ resetting = None
        BY <1>2 DEF setSpeedLimit
  <2>2. CASE limit = 0 /\ setUnlimited
        BY <1>1, <2>1, <2>2 DEF setUnlimited, OnlyMadeUsed
  <2>3. CASE limit # 0 /\ limiter = None /\ setNew(limit)
    <3>1. /\ made' = made + 1 /\ limiter' = made + 1 /\ made + 1 \in Limiters
          /\ made + 1 <= sets + 1 /\ resetting' = None
          BY <1>1, <2>1, <2>3 DEF setNew, Limiters, OnlyMadeUsed
    <3>2. \A l \in 1 .. made : l \in Limiters /\ l # made + 1
          BY <1>1 DEF Limiters
    <3>3. rate' = [rate EXCEPT ![made + 1] = limit]
          BY <2>3, <3>1 DEF setNew
    <3>4. rate \in [Limiters -> Limits]
          BY <1>1 DEF TypeOK
    <3>5. \A l \in 1 .. made' : rate'[l] # 0
      <4>1. \A l \in 1 .. made' : l = made + 1 \/ l \in 1 .. made
            BY <1>1, <3>1
      <4> QED BY <1>1, <2>3, <3>1, <3>2, <3>3, <3>4, <4>1 DEF OnlyMadeUsed
    <3>6. made' # 0
          BY <1>1, <3>1
    <3>7. 1 .. made \subseteq 1 .. made' /\ limiter' \in 1 .. made'
          BY <1>1, <3>1
    <3> QED BY <1>1, <2>1, <3>1, <3>5, <3>6, <3>7 DEF OnlyMadeUsed
  <2>4. CASE limit # 0 /\ limiter # None /\ SetLimit(limit)
    <3>1. /\ UNCHANGED <<limiter, made, tokens>> /\ rate' = [rate EXCEPT ![limiter] = limit]
          /\ rate \in [Limiters -> Limits]
          BY <1>1, <2>4 DEF SetLimit, TypeOK
    <3>2. \A l \in 1 .. made : l \in Limiters
          BY <1>1 DEF Limiters
    <3>3. \A l \in 1 .. made : rate'[l] # 0
          BY <1>1, <2>4, <3>1, <3>2 DEF OnlyMadeUsed
    <3>4. made <= sets' /\ sets' > 1
          BY <1>1, <2>1, <2>4 DEF OnlyMadeUsed
    <3> QED BY <1>1, <2>1, <2>4, <3>1, <3>3, <3>4 DEF OnlyMadeUsed
  <2> QED BY <1>2, <2>2, <2>3, <2>4 DEF setSpeedLimit
<1>3. CASE SetBurst
  <2>1. UNCHANGED <<limiter, made, rate, sets>> /\ resetting' = None /\ limiter \in 1 .. made
        BY <1>1, <1>3 DEF SetBurst, OnlyMadeUsed
  <2>2. made # 0
        BY <1>1, <2>1
  <2>3. \A c \in Conns : conn'[c].at # "idle" =>
            /\ conn[c].at # "idle" /\ conn'[c].at = conn[c].at
            /\ conn'[c].limiter = conn[c].limiter
        BY <1>1, <1>3, SetBurstConns
  <2> QED BY <1>1, <2>1, <2>2, <2>3 DEF OnlyMadeUsed
<1>4. ASSUME NEW c \in Conns, ConnNext(c)
      PROVE  OnlyMadeUsed'
  <2>1. /\ UNCHANGED <<limiter, made, rate, resetting, sets>>
        /\ \A d \in Conns \ {c} : conn'[d] = conn[d]
        BY <1>1, <1>4, ConnChange
  <2>2. made = 0 => UNCHANGED tokens
    <3>1. CASE WaitN(c)
      <4>1. conn[c].limiter \in 1 .. made
            BY <3>1, WaitsOn DEF WaitN
      <4> QED BY <1>1, <4>1
    <3> QED BY <1>4, <3>1 DEF ConnNext, Open, Close, Read, Write, Packet, Wait, Chunk,
                              WaitNRefused, Wake
  <2>3. conn'[c].at # "idle" =>
          /\ conn'[c].limiter # None => conn'[c].limiter \in 1 .. made
          /\ conn'[c].at \in {"wait", "chunk", "sleep"} => conn'[c].limiter # None
    <3>1. CASE Open(c) /\ conn'[c].at = "open" /\ conn'[c].limiter = limiter
          BY <1>1, <3>1 DEF OnlyMadeUsed
    <3>2. CASE /\ \E n \in Nat : Wait(c, n)
               /\ conn'[c].at = "wait" /\ conn'[c].limiter = conn[c].limiter
          BY <1>1, <3>2 DEF OnlyMadeUsed, Wait
    <3>3. CASE /\ Chunk(c) \/ WaitN(c) \/ Wake(c)
               /\ conn'[c].limiter = conn[c].limiter
          BY <1>1, <3>3 DEF OnlyMadeUsed, Chunk, WaitN, Wake
    <3>4. CASE conn'[c].at = "idle"
          BY <3>4
    <3> QED BY <1>1, <1>4, <3>1, <3>2, <3>3, <3>4, ConnChange
  <2> QED BY <1>1, <2>1, <2>2, <2>3 DEF OnlyMadeUsed
<1>5. CASE Tick
  <2>1. UNCHANGED <<limiter, made, rate, resetting, sets>>
        BY <1>5 DEF Tick
  <2>2. \A c \in Conns : conn'[c].at # "idle" =>
            /\ conn[c].at # "idle" /\ conn'[c].at = conn[c].at
            /\ conn'[c].limiter = conn[c].limiter
        BY <1>1, <1>5, TickConns
  <2>3. made # 0
        BY <1>1, <1>5 DEF Tick
  <2> QED BY <1>1, <2>1, <2>2, <2>3 DEF OnlyMadeUsed
<1> QED BY <1>2, <1>3, <1>4, <1>5 DEF Next

\* The loop of wait: a chunk is taken from what is left and from the burst read,
\* and only SetBurst lowers a burst that a connection has read.
LEMMA ChunkStep ==
    ASSUME IInv, Next
    PROVE  ChunkOfRest' /\ RefusedOvertakenOnly'
<1>1. TypeOK /\ ChunkOfRest /\ RefusedOvertakenOnly /\ OnlyMadeUsed
      BY DEF IInv
<1>2. ASSUME NEW limit \in Limits, setSpeedLimit(limit)
      PROVE  ChunkOfRest' /\ RefusedOvertakenOnly'
  <2>1. UNCHANGED conn
        BY <1>2 DEF setSpeedLimit
  <2>2. \A l \in 1 .. made : burst'[l] = burst[l]
    <3>1. CASE setNew(limit)
      <4>1. \A l \in 1 .. made : l # made'
            BY <1>1, <3>1 DEF setNew, TypeOK
      <4>2. \A l \in 1 .. made : l \in Limiters
            BY <1>1, BoundsAssumption DEF TypeOK, Limiters
      <4> QED BY <1>1, <3>1, <4>1, <4>2 DEF setNew, TypeOK
    <3>2. CASE UNCHANGED burst
          BY <3>2
    <3> QED BY <1>2, <3>1, <3>2 DEF setSpeedLimit, setUnlimited, SetLimit
  <2>3. \A c \in Conns : conn[c].at = "chunk" => conn[c].limiter \in 1 .. made
        BY WaitsOn
  <2>4. ChunkOfRest'
        BY <1>1, <2>1 DEF ChunkOfRest
  <2> QED BY <1>1, <2>1, <2>2, <2>3, <2>4 DEF RefusedOvertakenOnly
<1>3. CASE SetBurst
  <2>1. ASSUME NEW c \in Conns, conn'[c].at \in {"chunk", "sleep"}
        PROVE  conn'[c].chunk <= conn'[c].left /\ conn'[c].chunk <= MaxBurst
        BY <1>1, <1>3, <2>1, SetBurstConns DEF ChunkOfRest
  <2>2. ASSUME NEW c \in Conns, conn'[c].at = "chunk",
               conn'[c].chunk > burst'[conn'[c].limiter]
        PROVE  conn'[c].overtaken
    <3>1. conn[c].at = "chunk"
          BY <1>1, <1>3, <2>2, SetBurstConns
    <3>2. CASE conn[c].limiter = limiter
          BY <1>1, <1>3, <3>1, <3>2, SetBurstConns
    <3>3. CASE conn[c].limiter # limiter
      <4>1. conn'[c] = conn[c]
            BY <1>1, <1>3, <3>3, SetBurstConns
      <4>2. conn[c].limiter \in Limiters
            BY <3>1, WaitsOn
      <4>3. burst'[conn[c].limiter] = burst[conn[c].limiter]
            BY <1>1, <1>3, <3>3, <4>2 DEF SetBurst, TypeOK
      <4> QED BY <1>1, <2>2, <4>1, <4>3 DEF RefusedOvertakenOnly
    <3> QED BY <3>2, <3>3
  <2> QED BY <2>1, <2>2 DEF ChunkOfRest, RefusedOvertakenOnly
<1>4. ASSUME NEW c \in Conns, ConnNext(c)
      PROVE  ChunkOfRest' /\ RefusedOvertakenOnly'
  <2>1. UNCHANGED burst /\ \A d \in Conns \ {c} : conn'[d] = conn[d]
        BY <1>1, <1>4, ConnChange
  <2>2. CASE /\ Chunk(c) /\ conn'[c].at = "chunk" /\ conn'[c].limiter = conn[c].limiter
             /\ conn'[c].left = conn[c].left
             /\ conn'[c].chunk = Least(conn[c].left, burst[conn[c].limiter])
    <3>1. conn[c].at = "wait" /\ conn[c].limiter \in Limiters /\ conn[c].left \in Nat
          BY <1>1, <2>2, WaitsOn, ConnFacts DEF Chunk
    <3>2. PICK b : b = burst[conn[c].limiter] /\ b \in Nat /\ b <= MaxBurst
          BY <1>1, <3>1, LimiterFacts, BurstAssumption
    <3>3. /\ conn'[c].at = "chunk" /\ conn'[c].limiter = conn[c].limiter
          /\ conn'[c].left = conn[c].left
          /\ conn'[c].chunk = Least(conn[c].left, b)
          BY <2>2, <3>2
    <3>4. conn'[c].chunk = IF conn[c].left <= b THEN conn[c].left ELSE b
          BY <3>1, <3>2, <3>3, LeastOfTwo
    <3>5. conn'[c].chunk <= conn'[c].left /\ conn'[c].chunk <= MaxBurst /\ ~(conn'[c].chunk > b)
          BY <3>1, <3>2, <3>3, <3>4, BurstAssumption
    <3>6. burst'[conn'[c].limiter] = b
          BY <2>1, <3>2, <3>3
    <3> QED BY <1>1, <2>1, <3>5, <3>6 DEF ChunkOfRest, RefusedOvertakenOnly
  <2>3. CASE /\ WaitN(c) /\ conn'[c].at = "sleep"
             /\ conn'[c].left = conn[c].left /\ conn'[c].chunk = conn[c].chunk
    <3>1. conn[c].at = "chunk"
          BY <2>3 DEF WaitN
    <3> QED BY <1>1, <2>1, <2>3, <3>1 DEF ChunkOfRest, RefusedOvertakenOnly
  <2>4. CASE conn'[c].at \in {"idle", "open", "wait"}
        BY <1>1, <2>1, <2>4 DEF ChunkOfRest, RefusedOvertakenOnly
  <2> QED BY <1>1, <1>4, <2>2, <2>3, <2>4, ConnChange
<1>5. CASE Tick
  <2>1. UNCHANGED burst
        BY <1>5 DEF Tick
  <2>2. ChunkOfRest'
        BY <1>1, <1>5, TickConns DEF ChunkOfRest
  <2>3. \A c \in Conns : conn'[c].at = "chunk" => conn'[c] = conn[c]
        BY <1>1, <1>5, TickConns
  <2> QED BY <1>1, <2>1, <2>2, <2>3 DEF RefusedOvertakenOnly
<1> QED BY <1>2, <1>3, <1>4, <1>5 DEF Next

\* New and SetLimit give every bucket room for minBurst, and nothing else changes
\* its size.
LEMMA BurstStep ==
    ASSUME IInv, Next
    PROVE  HoldMinBurst'
<1>1. /\ TypeOK /\ OnlyMadeUsed /\ HoldMinBurst
      /\ made \in Nat /\ \A l \in 1 .. made : l \in Limiters
      BY BoundsAssumption DEF IInv, TypeOK, Limiters
<1>2. ASSUME NEW limit \in Limits, setSpeedLimit(limit)
      PROVE  HoldMinBurst'
  <2>1. CASE setNew(limit)
    <3>1. /\ made' = made + 1 /\ made + 1 \in Limiters
          /\ burst' = [burst EXCEPT ![made + 1] = bucket(limit)]
      <4>1. made + 1 \in Limiters
            BY <1>1, <2>1, BoundsAssumption DEF setNew, Limiters
      <4> QED BY <2>1, <4>1 DEF setNew
    <3>2. PICK b \in Nat : b = bucket(limit) /\ b >= MinBurst
          BY BucketBounds, BurstAssumption
    <3>3. \A l \in 1 .. made' : l = made + 1 \/ l \in 1 .. made
          BY <1>1, <3>1
    <3>4. burst \in [Limiters -> 0 .. MaxBurst]
          BY <1>1 DEF TypeOK
    <3> QED BY <1>1, <3>1, <3>2, <3>3, <3>4 DEF HoldMinBurst
  <2>2. CASE UNCHANGED <<made, burst>>
        BY <1>1, <2>2 DEF HoldMinBurst
  <2> QED BY <1>2, <2>1, <2>2 DEF setSpeedLimit, setUnlimited, SetLimit
<1>3. CASE SetBurst
  <2>1. /\ made' = made /\ resetting \in MinBurst .. MaxBurst
        /\ burst' = [burst EXCEPT ![limiter] = resetting]
        /\ burst \in [Limiters -> 0 .. MaxBurst]
        BY <1>1, <1>3 DEF SetBurst, TypeOK
  <2>2. resetting >= MinBurst
        BY <2>1, BurstAssumption
  <2> QED BY <1>1, <2>1, <2>2 DEF HoldMinBurst
<1>4. ASSUME NEW c \in Conns, ConnNext(c)
      PROVE  HoldMinBurst'
      BY <1>1, <1>4, ConnChange DEF HoldMinBurst
<1>5. CASE Tick
      BY <1>1, <1>5 DEF Tick, HoldMinBurst
<1> QED BY <1>2, <1>3, <1>4, <1>5 DEF Next

-----------------------------------------------------------------------------
(* The limit is kept.                                                      *)

\* Products of a rate and a time.
LEMMA RateTimesTime ==
    ASSUME NEW r \in Nat, NEW t \in Nat
    PROVE  /\ r * t \in Nat
           /\ r * (t + 1) = r * t + r
           /\ \A u \in Nat : u <= t => r * u <= r * t
<1>1. r * t \in Nat /\ r * (t + 1) = r * t + r
      OBVIOUS
<1>2. ASSUME NEW u \in Nat, u <= t
      PROVE  r * u <= r * t
  <2>1. PICK d \in Nat : t = u + d
        BY <1>2
  <2>2. r * (u + d) = r * u + r * d /\ r * d \in Nat /\ r * u \in Nat
        OBVIOUS
  <2> QED BY <2>1, <2>2
<1> QED BY <1>1, <1>2

\* Who sleeps is among the connections, for a chunk of some burst.
LEMMA SleepersType ==
    ASSUME IInv
    PROVE  /\ Sleepers \in SUBSET Conns /\ \A t : Due(t) \in SUBSET Sleepers
           /\ \A c \in Conns : Chunks[c] \in 0 .. MaxBurst
<1>1. Sleepers \in SUBSET Conns /\ \A t : Due(t) \in SUBSET Sleepers
      BY DEF Sleepers, Due
<1>2. ASSUME NEW c \in Conns
      PROVE  Chunks[c] \in 0 .. MaxBurst
  <2>1. CASE conn[c].at = "sleep"
        BY <2>1, ConnFacts, BurstAssumption DEF IInv, ChunkOfRest, Chunks
  <2>2. CASE conn[c].at # "sleep"
        BY <2>2, BurstAssumption DEF Chunks
  <2> QED BY <2>1, <2>2
<1> QED BY <1>1, <1>2

\* As long as the sleepers are left alone the sums are.
LEMMA SleepersSame ==
    ASSUME \A c \in Conns : conn'[c].at = "sleep" <=> conn[c].at = "sleep",
           \A c \in Conns : conn[c].at = "sleep" =>
               conn'[c].chunk = conn[c].chunk /\ conn'[c].sleep = conn[c].sleep
    PROVE  Sleepers' = Sleepers /\ Chunks' = Chunks /\ \A t \in Nat : Due(t)' = Due(t)
<1>1. Sleepers' = Sleepers
      BY DEF Sleepers
<1>2. Chunks' = Chunks
      BY DEF Chunks
<1>3. \A t \in Nat : Due(t)' = Due(t)
      BY <1>1 DEF Due, Sleepers
<1> QED BY <1>1, <1>2, <1>3

\* setSpeedLimit: a full bucket is the first allowance, and nobody sleeps yet.
LEMMA PacedSet ==
    ASSUME IInv, NEW limit \in Limits, setSpeedLimit(limit), TypeOK'
    PROVE  Paced'
<1> SUFFICES ASSUME sets' = 1 PROVE Paced'
    BY DEF Paced
<1>1. /\ sets = 0 /\ made = 0 /\ limiter = None /\ conn' = conn
      /\ \A l \in Limiters : tokens[l] = 0
  <2>1. sets' = sets + 1 /\ sets \in Nat /\ made \in Nat /\ conn' = conn
        BY DEF setSpeedLimit, IInv, TypeOK
  <2>2. sets = 0 /\ made = 0
        BY <2>1 DEF IInv, OnlyMadeUsed
  <2>3. limiter = None
        BY <2>2 DEF IInv, OnlyMadeUsed
  <2> QED BY <2>1, <2>2, <2>3 DEF IInv, OnlyMadeUsed
<1>2. Sleepers' = {}
  <2>1. \A c \in Conns : conn[c].at # "sleep"
        BY <1>1, WaitsOn
  <2> QED BY <1>1, <2>1 DEF Sleepers
<1>3. \A f : Total({}, f) = 0
  <2>1. \A f : Units({}, f) = {}
        BY DEF Units
  <2> QED BY <2>1, FS_EmptySet DEF Total
<1>4. allowance' = bucket(limit) /\ bucket(limit) \in Nat
      BY <1>1, BucketBounds DEF setSpeedLimit, FirstAllowance
<1>5. tokens'[1] \in Int /\ tokens'[1] <= allowance' /\ rate'[1] \in Nat
  <2>1. 1 \in Limiters
        BY BoundsAssumption DEF Limiters
  <2>2. rate'[1] \in Nat
        BY <2>1, LimitsAssumption DEF TypeOK
  <2>3. CASE UNCHANGED tokens
        BY <1>1, <1>4, <2>1, <2>2, <2>3
  <2>4. CASE setNew(limit)
    <3>1. tokens' = [tokens EXCEPT ![1] = bucket(limit)]
          BY <1>1, <2>4 DEF setNew
    <3>2. tokens'[1] = bucket(limit)
          BY <2>1, <3>1 DEF IInv, TypeOK
    <3> QED BY <1>4, <2>2, <3>2
  <2> QED BY <2>3, <2>4 DEF setSpeedLimit, setUnlimited, SetLimit
<1>6. Total(Sleepers, Chunks)' = 0
      BY <1>2, <1>3
<1>7. ASSUME NEW t \in Nat
      PROVE  (Total(Due(t), Chunks) <= allowance + rate[1] * t)'
  <2>1. Due(t)' = {}
        BY <1>2 DEF Due
  <2>2. Total(Due(t), Chunks)' = 0
        BY <1>3, <2>1
  <2>3. PICK r \in Nat : r = rate'[1]
        BY <1>5
  <2>4. r * t \in Nat
        BY RateTimesTime
  <2> QED BY <1>4, <2>2, <2>3, <2>4
<1> QED BY <1>4, <1>5, <1>6, <1>7 DEF Paced

\* WaitN: tokens are taken before bytes pass, and a debt is slept off.
LEMMA PacedTake ==
    ASSUME IInv, sets = 1, NEW c \in Conns, WaitN(c)
    PROVE  Paced'
<1>1. /\ conn[c] \in Conn /\ conn[c].at = "chunk" /\ conn[c].chunk \in Nat
      /\ conn[c].chunk <= MaxBurst
      BY ConnFacts DEF WaitN, IInv, ChunkOfRest
<1>2. conn[c].limiter = 1 /\ 1 \in Limiters
  <2>1. made \in Nat /\ made <= 1 /\ conn[c].limiter \in 1 .. made
        BY <1>1, WaitsOn DEF IInv, TypeOK, OnlyMadeUsed
  <2> QED BY <2>1, BoundsAssumption DEF Limiters
<1>3. PICK r : r = rate[1] /\ r \in Nat /\ r # 0
  <2>1. rate[1] \in Nat
        BY <1>2, LimiterFacts DEF IInv
  <2>2. 1 \in 1 .. made
        BY <1>1, <1>2, WaitsOn
  <2> QED BY <2>1, <2>2 DEF IInv, OnlyMadeUsed
<1>4. PICK k \in 0 .. MaxBurst : k = conn[c].chunk
      BY <1>1, BurstAssumption
<1>5. PICK after \in Int : /\ after = Least(tokens[1], burst[1]) - k
                          /\ after <= tokens[1] - k
  <2>1. tokens[1] \in Int /\ burst[1] \in Int
        BY <1>2, LimiterFacts DEF IInv
  <2>2. PICK m \in Int : m = Least(tokens[1], burst[1]) /\ m <= tokens[1]
        BY <2>1, LeastOfTwo
  <2> QED BY <1>4, <2>1, <2>2
<1>6. PICK t \in Nat : t = Sleep(-after, r) /\ -after <= r * t
  <2>1. -after \in Int
        BY <1>5
  <2> QED BY <1>3, <2>1, SleepPays
<1>7. /\ conn' = [conn EXCEPT ![c].at = "sleep", ![c].sleep = t]
      /\ tokens' = [tokens EXCEPT ![1] = after]
      /\ UNCHANGED <<rate, sets, allowance>>
      BY <1>2, <1>3, <1>4, <1>5, <1>6 DEF WaitN
<1>8. tokens'[1] = after
      BY <1>2, <1>7 DEF IInv, TypeOK
<1>9. /\ conn'[c].at = "sleep" /\ conn'[c].sleep = t /\ conn'[c].chunk = k
      /\ \A d \in Conns \ {c} : conn'[d] = conn[d]
  <2>1. conn'[c] = [conn[c] EXCEPT !.at = "sleep", !.sleep = t]
        BY <1>7 DEF IInv, TypeOK
  <2> QED BY <1>1, <1>4, <1>7, <2>1 DEF IInv, TypeOK, Conn
<1>10. c \notin Sleepers /\ Sleepers' = Sleepers \union {c}
       BY <1>1, <1>9 DEF Sleepers
<1>11. PICK f : f = Chunks'
       OBVIOUS
<1>12. f[c] = k /\ \A d \in Sleepers : f[d] = Chunks[d]
       BY <1>1, <1>9, <1>11 DEF Chunks, Sleepers
<1>13. PICK all \in Nat : /\ all = Total(Sleepers, Chunks)
                          /\ Total(Sleepers \union {c}, f) = all + k
  <2>1. Total(Sleepers, f) = Total(Sleepers, Chunks)
        BY <1>12, TotalSame
  <2>2. Total(Sleepers \union {c}, f) = Total(Sleepers, f) + k
        BY <1>4, <1>10, <1>12, SleepersType, TotalAdd
  <2> QED BY <2>1, <2>2, SleepersType, TotalType
<1>14. allowance \in Int /\ tokens[1] \in Int /\ all + tokens[1] <= allowance
       BY <1>2, <1>13, LimiterFacts DEF IInv, TypeOK, Paced
<1>15. all + k + after <= allowance
       BY <1>4, <1>5, <1>13, <1>14
<1>16. ASSUME NEW u \in Nat
       PROVE  Total(Due(u)', f) <= allowance + r * u
  <2>1. CASE t <= u
    <3>1. Due(u)' \in SUBSET (Sleepers \union {c})
          BY <1>10 DEF Due
    <3>2. Total(Due(u)', f) <= all + k /\ Total(Due(u)', f) \in Nat
      <4>1. PICK D : D = Due(u)'
            OBVIOUS
      <4>2. D \in SUBSET (Sleepers \union {c}) /\ Sleepers \union {c} \in SUBSET Conns
            BY <3>1, <4>1, SleepersType
      <4> QED BY <1>13, <4>1, <4>2, TotalSubset, TotalType
    <3>3. r * t <= r * u /\ r * u \in Nat /\ r * t \in Nat
          BY <1>3, <2>1, RateTimesTime
    <3>4. all + k <= allowance + r * t
          BY <1>4, <1>5, <1>6, <1>14, <1>15, <3>3
    <3> QED BY <1>4, <1>14, <3>2, <3>3, <3>4
  <2>2. CASE ~(t <= u)
    <3>1. Due(u)' = Due(u)
          BY <1>9, <1>10, <2>2 DEF Due, Sleepers
    <3>2. Total(Due(u), f) = Total(Due(u), Chunks)
          BY <1>12, TotalSame DEF Due
    <3> QED BY <1>3, <3>1, <3>2 DEF IInv, Paced
  <2> QED BY <2>1, <2>2
<1>17. Total(Sleepers, Chunks)' + tokens'[1] <= allowance'
       BY <1>4, <1>7, <1>8, <1>10, <1>11, <1>13, <1>15
<1>18. \A u \in Nat : Total(Due(u)', Chunks') <= allowance' + rate'[1] * u
       BY <1>3, <1>7, <1>11, <1>16
<1> QED BY <1>17, <1>18 DEF Paced

\* Wake and Close: a sleeper leaves, and its bytes pass only when it is due.
LEMMA PacedLeave ==
    ASSUME IInv, sets = 1, NEW c \in Conns, conn[c].at = "sleep", conn'[c].at # "sleep",
           \A d \in Conns \ {c} : conn'[d] = conn[d],
           UNCHANGED <<rate, tokens, sets>>,
           \/ allowance' = allowance
           \/ conn[c].sleep = 0 /\ allowance' = allowance - conn[c].chunk
    PROVE  Paced'
<1>1. PICK k \in 0 .. MaxBurst : k = conn[c].chunk /\ k = Chunks[c]
      BY ConnFacts, BurstAssumption DEF IInv, ChunkOfRest, Chunks
<1>2. PICK f : f = Chunks'
      OBVIOUS
<1>3. Sleepers' = Sleepers \ {c} /\ c \in Sleepers
      BY DEF Sleepers
<1>4. \A d \in Sleepers \ {c} : f[d] = Chunks[d]
      BY <1>2 DEF Chunks, Sleepers
\* Among any sleepers, it accounts for its chunk.
<1>5. ASSUME NEW D \in SUBSET Sleepers, c \in D
      PROVE  /\ Total(D \ {c}, f) \in Nat /\ Total(D, Chunks) \in Nat
             /\ Total(D, Chunks) = Total(D \ {c}, f) + k
  <2>1. D \ {c} \in SUBSET Conns /\ D \in SUBSET Conns /\ D = (D \ {c}) \union {c}
        BY <1>5, SleepersType
  <2>2. Total(D \ {c}, f) = Total(D \ {c}, Chunks)
        BY <1>4, TotalSame
  <2>3. Total((D \ {c}) \union {c}, Chunks) = Total(D \ {c}, Chunks) + k
    <3>1. PICK S : S = D \ {c} /\ S \in SUBSET Conns /\ c \notin S
          BY <2>1
    <3>2. Chunks[c] \in 0 .. MaxBurst
          BY SleepersType
    <3>3. Total(S \union {c}, Chunks) = Total(S, Chunks) + Chunks[c]
          BY <3>1, <3>2, TotalAdd
    <3> QED BY <1>1, <3>1, <3>3
  <2>4. Total(D, Chunks) = Total(D \ {c}, f) + k
        BY <2>1, <2>2, <2>3
  <2> QED BY <2>1, <2>4, TotalType
<1>6. allowance \in Int /\ tokens[1] \in Int
  <2>1. 1 \in Limiters
        BY BoundsAssumption DEF Limiters
  <2> QED BY <2>1, LimiterFacts DEF IInv, TypeOK
<1>7. Total(Sleepers, Chunks)' + tokens'[1] <= allowance'
  <2>1. PICK n : /\ n = Total(Sleepers \ {c}, f) /\ n \in Nat
                 /\ n + k + tokens[1] <= allowance
    <3>1. Total(Sleepers, Chunks) + tokens[1] <= allowance
          BY DEF IInv, Paced
    <3> QED BY <1>3, <1>5, <3>1
  <2>2. n + tokens[1] <= allowance' /\ Total(Sleepers', Chunks') = n
        BY <1>1, <1>2, <1>3, <1>6, <2>1
  <2> QED BY <2>2
<1>8. ASSUME NEW t \in Nat
      PROVE  Total(Due(t)', Chunks') <= allowance' + rate'[1] * t
  <2>1. PICK bound \in Int : bound = rate[1] * t
    <3>1. 1 \in Limiters
          BY BoundsAssumption DEF Limiters
    <3>2. rate[1] \in Nat
          BY <3>1, LimiterFacts DEF IInv
    <3> QED BY <3>2, RateTimesTime
  <2>2. Total(Due(t), Chunks) <= allowance + bound
        BY <2>1 DEF IInv, Paced
  <2>3. Due(t)' = Due(t) \ {c}
        BY <1>3 DEF Due, Sleepers
  <2>4. CASE c \in Due(t)
    <3>1. PICK n : /\ n = Total(Due(t) \ {c}, f) /\ n \in Nat
                   /\ n + k <= allowance + bound
          BY <1>5, <2>2, <2>4, SleepersType
    <3>2. n <= allowance' + bound
          BY <1>1, <1>6, <2>1, <3>1
    <3> QED BY <1>2, <2>1, <2>3, <3>1, <3>2
  <2>5. CASE c \notin Due(t)
    <3>1. allowance' = allowance
      <4>1. conn[c].sleep # 0
            BY <1>3, <2>5 DEF Due
      <4> QED BY <4>1
    <3>2. Due(t)' = Due(t) /\ Due(t) \in SUBSET (Sleepers \ {c})
          BY <2>3, <2>5, SleepersType
    <3>3. Total(Due(t), f) = Total(Due(t), Chunks)
          BY <1>4, <3>2, TotalSame
    <3> QED BY <1>2, <2>1, <2>2, <3>1, <3>2, <3>3
  <2> QED BY <2>4, <2>5
<1> QED BY <1>7, <1>8 DEF Paced

\* Tick: everyone is a second nearer, and a second's rate is added.
LEMMA PacedTick ==
    ASSUME IInv, sets = 1, Tick
    PROVE  Paced'
<1>1. PICK r : r = rate[1] /\ r \in Nat /\ rate'[1] = r
  <2>1. 1 \in Limiters
        BY BoundsAssumption DEF Limiters
  <2> QED BY <2>1, LimiterFacts DEF IInv, Tick
<1>2. allowance \in Int /\ allowance' = allowance + r
      BY <1>1 DEF IInv, TypeOK, Tick
<1>3. tokens[1] \in Int /\ tokens'[1] \in Int /\ tokens'[1] <= tokens[1] + r
  <2>1. 1 \in Limiters /\ tokens[1] \in Int /\ burst[1] \in Int
        BY BoundsAssumption, LimiterFacts DEF IInv, Limiters
  <2>2. tokens'[1] = Least(burst[1], tokens[1] + r)
        BY <1>1, <2>1 DEF Tick
  <2>3. tokens[1] + r \in Int
        BY <1>1, <2>1
  <2>4. tokens'[1] = IF burst[1] <= tokens[1] + r THEN burst[1] ELSE tokens[1] + r
        BY <2>1, <2>2, <2>3, LeastOfTwo
  <2> QED BY <1>1, <2>1, <2>3, <2>4
<1>4. \A c \in Conns : conn'[c].at = "sleep" <=> conn[c].at = "sleep"
      BY TickConns DEF IInv
<1>5. \A c \in Conns : conn[c].at = "sleep" =>
          conn'[c].chunk = conn[c].chunk /\ conn[c].sleep <= conn'[c].sleep + 1
      BY TickConns DEF IInv
<1>6. Sleepers' = Sleepers /\ Chunks' = Chunks
      BY <1>4, <1>5 DEF Sleepers, Chunks
<1>7. Total(Sleepers, Chunks) \in Nat
      BY SleepersType, TotalType
<1>8. Total(Sleepers, Chunks)' + tokens'[1] <= allowance'
  <2>1. Total(Sleepers, Chunks) + tokens[1] <= allowance
        BY DEF IInv, Paced
  <2>2. Total(Sleepers, Chunks) + tokens'[1] <= allowance + r
        BY <1>1, <1>2, <1>3, <1>7, <2>1
  <2> QED BY <1>2, <1>6, <2>2
<1>9. ASSUME NEW t \in Nat
      PROVE  Total(Due(t)', Chunks') <= allowance' + rate'[1] * t
  <2>1. Due(t)' \in SUBSET Due(t + 1)
    <3>1. ASSUME NEW c \in Conns, conn[c].at = "sleep", conn'[c].sleep <= t
          PROVE  conn[c].sleep <= t + 1
      <4>1. conn[c].sleep \in Nat
            BY <3>1, ConnFacts DEF IInv
      <4>2. conn'[c].sleep \in Nat
        <5>1. TypeOK'
              BY TypeStep DEF Next
        <5>2. conn'[c] \in Conn
              BY <1>4, <3>1, <5>1 DEF TypeOK, NoConn
        <5> QED BY <5>2 DEF Conn
      <4> QED BY <1>5, <3>1, <4>1, <4>2
    <3> QED BY <1>6, <3>1 DEF Due, Sleepers
  <2>2. PICK D : D = Due(t)'
        OBVIOUS
  <2>3. Total(D, Chunks) <= Total(Due(t + 1), Chunks)
    <3>1. Due(t + 1) \in SUBSET Conns
          BY SleepersType
    <3> QED BY <2>1, <2>2, <3>1, TotalSubset
  <2>4. Total(D, Chunks) \in Nat /\ Total(Due(t + 1), Chunks) \in Nat
        BY <2>1, <2>2, SleepersType, TotalType
  <2>5. Total(Due(t + 1), Chunks) <= allowance + r * (t + 1)
        BY <1>1 DEF IInv, Paced
  <2>6. r * (t + 1) = r * t + r /\ r * t \in Nat
        BY <1>1, RateTimesTime
  <2>7. Total(D, Chunks) <= allowance + r + r * t
        BY <1>1, <1>2, <2>3, <2>4, <2>5, <2>6
  <2> QED BY <1>1, <1>2, <1>6, <2>2, <2>7
<1> QED BY <1>8, <1>9 DEF Paced

\* Every step keeps the user within the first limit.
LEMMA PacedStep ==
    ASSUME IInv, Next
    PROVE  Paced'
<1>1. TypeOK /\ TypeOK'
      BY TypeStep DEF IInv
<1>2. ASSUME NEW limit \in Limits, setSpeedLimit(limit)
      PROVE  Paced'
      BY <1>1, <1>2, PacedSet
<1>3. CASE SetBurst
      BY <1>3 DEF SetBurst, IInv, TypeOK, OnlyMadeUsed, Paced
<1>4. ASSUME NEW c \in Conns, ConnNext(c)
      PROVE  Paced'
  <2>1. CASE sets # 1
        BY <1>1, <1>4, <2>1, ConnChange DEF Paced
  <2>2. CASE sets = 1 /\ WaitN(c)
        BY <2>2, PacedTake
  <2>3. CASE sets = 1 /\ ~WaitN(c) /\ conn[c].at = "sleep"
    <3>1. /\ Wake(c) \/ Close(c)
          /\ conn'[c].at # "sleep" /\ \A d \in Conns \ {c} : conn'[d] = conn[d]
      <4>1. ~Open(c) /\ ~Chunk(c) /\ ~WaitNRefused(c) /\ \A n \in Nat : ~Wait(c, n)
            BY <2>3 DEF Open, Chunk, WaitNRefused, Wait
      <4> QED BY <1>1, <1>4, <2>3, <4>1, ConnChange
    <3>2. UNCHANGED <<rate, tokens, sets>>
          BY <3>1 DEF Wake, Close
    <3>3. \/ allowance' = allowance
          \/ conn[c].sleep = 0 /\ allowance' = allowance - conn[c].chunk
          BY <2>3, <3>1 DEF Wake, Close
    <3> QED BY <2>3, <3>1, <3>2, <3>3, PacedLeave
  <2>4. CASE sets = 1 /\ ~WaitN(c) /\ conn[c].at # "sleep"
    <3>1. UNCHANGED <<tokens, allowance>>
      <4>1. ~Wake(c)
            BY <2>4 DEF Wake
      <4> QED BY <1>4, <2>4, <4>1 DEF ConnNext, Open, Close, Read, Write, Packet, Wait, Chunk,
                                      WaitNRefused
    <3>2. /\ UNCHANGED <<rate, sets>> /\ \A d \in Conns \ {c} : conn'[d] = conn[d]
          /\ conn'[c].at # "sleep"
      <4>1. ~Wake(c)
            BY <2>4 DEF Wake
      <4> QED BY <1>1, <1>4, <2>4, <4>1, ConnChange
    <3>3. Sleepers' = Sleepers /\ Chunks' = Chunks /\ \A t \in Nat : Due(t)' = Due(t)
          BY <2>4, <3>2, SleepersSame
    <3> QED BY <3>1, <3>2, <3>3 DEF IInv, Paced
  <2> QED BY <2>1, <2>2, <2>3, <2>4
<1>5. CASE Tick
  <2>1. CASE sets = 1
        BY <1>5, <2>1, PacedTick
  <2>2. CASE sets # 1
        BY <1>5, <2>2 DEF Tick, Paced
  <2> QED BY <2>1, <2>2
<1> QED BY <1>2, <1>3, <1>4, <1>5 DEF Next

\* Init establishes the invariant.
LEMMA InitIInv == Init => IInv
<1> SUFFICES ASSUME Init PROVE IInv
    OBVIOUS
<1>1. TypeOK
  <2>1. 0 \in Limits /\ 0 \in 0 .. MaxBurst /\ 0 \in 0 .. MaxMade /\ 0 \in 0 .. MaxSets
        /\ 0 \in 0 .. MaxBytes
        BY LimitsAssumption, BurstAssumption, BoundsAssumption
  <2> QED BY <2>1 DEF Init, TypeOK
<1>2. OnlyMadeUsed /\ ChunkOfRest /\ RefusedOvertakenOnly /\ HoldMinBurst
      BY DEF Init, OnlyMadeUsed, ChunkOfRest, RefusedOvertakenOnly, HoldMinBurst, NoConn
<1>3. Paced
      BY DEF Init, Paced
<1> QED BY <1>1, <1>2, <1>3 DEF IInv

\* The inductive invariant holds throughout.
LEMMA Invariance == Spec => []IInv
<1>1. ASSUME IInv, [Next]_vars
      PROVE  IInv'
  <2>1. CASE Next
        BY <1>1, <2>1, TypeStep, MadeStep, ChunkStep, BurstStep, PacedStep DEF IInv
  <2>2. CASE UNCHANGED vars
    <3>1. /\ TypeOK' /\ OnlyMadeUsed' /\ ChunkOfRest' /\ RefusedOvertakenOnly'
          /\ HoldMinBurst'
          BY <1>1, <2>2 DEF IInv, vars, TypeOK, OnlyMadeUsed, ChunkOfRest,
                            RefusedOvertakenOnly, HoldMinBurst
    <3>2. Paced'
          BY <1>1, <2>2 DEF IInv, vars, Paced, Sleepers, Due, Chunks
    <3> QED BY <3>1, <3>2 DEF IInv
  <2> QED BY <1>1, <2>1, <2>2
<1> QED BY <1>1, InitIInv, PTL DEF Spec

-----------------------------------------------------------------------------
(* The results.                                                            *)

\* Every variable of the limiter keeps its type.
THEOREM TypeCorrect == Spec => []TypeOK
<1>1. IInv => TypeOK
      BY DEF IInv
<1> QED BY <1>1, Invariance, PTL

\* wait and SetLimit: WaitN refuses a connection its tokens only if SetBurst
\* came between its read of the burst and its WaitN, and only for more than
\* minBurst, which every bucket holds.
THEOREM RefusedOvertaken == Spec => []RefusedOnlyWhenOvertaken
<1>1. IInv => RefusedOnlyWhenOvertaken
  <2> SUFFICES ASSUME IInv, NEW c \in Conns, conn[c].at = "chunk",
                      conn[c].chunk > burst[conn[c].limiter]
               PROVE  conn[c].overtaken /\ conn[c].chunk > MinBurst
      BY DEF RefusedOnlyWhenOvertaken
  <2>1. conn[c].overtaken
        BY DEF IInv, RefusedOvertakenOnly
  <2>2. conn[c].limiter \in Limiters /\ conn[c].limiter \in 1 .. made
        BY WaitsOn
  <2>3. burst[conn[c].limiter] >= MinBurst /\ burst[conn[c].limiter] \in Nat
        BY <2>2, LimiterFacts DEF IInv, HoldMinBurst
  <2>4. conn[c].chunk \in Nat
        BY ConnFacts DEF IInv
  <2> QED BY <2>1, <2>3, <2>4, BurstAssumption
<1> QED BY <1>1, Invariance, PTL

\* The shared limiter: however many connections a user has, together they stay
\* within one burst and the rate as long as the first limit stays.
THEOREM LimitKept == Spec => []WithinTheLimit
<1>1. IInv => WithinTheLimit
  <2> SUFFICES ASSUME IInv, sets = 1 PROVE allowance >= 0
      BY DEF WithinTheLimit
  <2>1. Total(Due(0), Chunks) \in Nat
    <3>1. Due(0) \in SUBSET Conns
          BY SleepersType
    <3> QED BY <3>1, TotalType
  <2>2. Total(Due(0), Chunks) <= allowance + rate[1] * 0
        BY DEF IInv, Paced
  <2>3. rate[1] * 0 = 0 /\ allowance \in Int
    <3>1. 1 \in Limiters
          BY BoundsAssumption DEF Limiters
    <3>2. rate[1] \in Nat
          BY <3>1, LimiterFacts DEF IInv
    <3>3. \A r \in Nat : r * 0 = 0
          OBVIOUS
    <3> QED BY <3>2, <3>3 DEF IInv, TypeOK
  <2> QED BY <2>1, <2>2, <2>3
<1> QED BY <1>1, Invariance, PTL
=============================================================================

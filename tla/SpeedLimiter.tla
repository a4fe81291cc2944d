--------------------------- MODULE SpeedLimiter ---------------------------
(***************************************************************************)
(* The speed limit of one user: setSpeedLimit of users.go, called by the   *)
(* pull goroutine, against the connections that wait on the limiter of     *)
(* common/limit.                                                           *)
(*                                                                         *)
(* One direction is modelled; the other is a second bucket of the same     *)
(* kind.  A rate.Limiter is a bucket of tokens that a request may overdraw *)
(* and then sleeps off, at the rate of the moment it was made.  Bytes are  *)
(* counted in units, minBurst is MinBurst of them and a second is a Tick.  *)
(***************************************************************************)
EXTENDS Integers, FiniteSets, FiniteSetsExt

CONSTANTS
    Conns,
    Limits,    \* bytes per second; 0 is unlimited
    MinBurst, MaxBurst,
    Sizes,     \* lengths of writes and packets, and of read buffers
    MaxMade,   \* bound: limiters made
    MaxSets,   \* bound: how often a limit is set
    MaxBytes,  \* bound: bytes that connections transfer
    None       \* nil

ASSUME LimitsAssumption == Limits \subseteq Nat /\ 0 \in Limits
ASSUME BurstAssumption ==
    MinBurst \in Nat \ {0} /\ MaxBurst \in Nat /\ MinBurst <= MaxBurst
ASSUME SizesAssumption == Sizes \subseteq Nat \ {0}
ASSUME BoundsAssumption == MaxMade \in Nat \ {0} /\ MaxSets \in Nat /\ MaxBytes \in Nat
ASSUME ConnsAssumption == IsFiniteSet(Conns)
ASSUME NoneAssumption == None \notin Nat

Limiters == 1 .. MaxMade

VARIABLES
    wanted,    \* the limit the panel last asked for
    limiter,   \* userState.limiter
    made,      \* limiters made so far
    rate, burst, tokens, \* of every limiter
    resetting, \* the new burst, between SetLimit and SetBurst, or None
    conn,      \* the connections
    sets,      \* how often a limit was set
    bytes,     \* that connections began to transfer
    allowance  \* what the user may still get under the first limit, until the
               \* next one: its burst, plus its rate every second, less what passed

vars == <<wanted, limiter, made, rate, burst, tokens, resetting, conn, sets, bytes, allowance>>

NoConn == [at |-> "idle"]

Init ==
    /\ wanted = 0 /\ limiter = None /\ made = 0
    /\ rate = [l \in Limiters |-> 0]
    /\ burst = [l \in Limiters |-> 0] /\ tokens = [l \in Limiters |-> 0]
    /\ resetting = None /\ conn = [c \in Conns |-> NoConn]
    /\ sets = 0 /\ bytes = 0 /\ allowance = 0

Least(a, b) == Min({a, b})
Most(a, b) == Max({a, b})

-----------------------------------------------------------------------------
(* The pull goroutine.                                                     *)

\* The burst of bucket.
bucket(limit) == Least(Most(limit, MinBurst), MaxBurst)

\* A limit of 0 takes the limiter away.
setUnlimited ==
    /\ limiter' = None
    /\ UNCHANGED <<made, rate, burst, tokens, resetting>>

\* limit.New: a full bucket.
setNew(limit) ==
    /\ made < MaxMade
    /\ made' = made + 1 /\ limiter' = made'
    /\ rate' = [rate EXCEPT ![made'] = limit]
    /\ burst' = [burst EXCEPT ![made'] = bucket(limit)]
    /\ tokens' = [tokens EXCEPT ![made'] = bucket(limit)]
    /\ UNCHANGED resetting

\* Limiter.SetLimit: the rate, and then the burst.
SetLimit(limit) ==
    /\ rate' = [rate EXCEPT ![limiter] = limit]
    /\ resetting' = bucket(limit)
    /\ UNCHANGED <<limiter, made, burst, tokens>>

FirstAllowance(limit) == IF sets = 0 THEN bucket(limit) ELSE 0

\* Wrong variant: 0 is set like any other limit.
setSpeedLimitZero(limit) ==
    /\ resetting = None /\ sets < MaxSets
    /\ sets' = sets + 1
    /\ wanted' = limit
    /\ \/ limiter = None /\ setNew(limit)
       \/ limiter # None /\ SetLimit(limit)
    /\ allowance' = FirstAllowance(limit)
    /\ UNCHANGED <<conn, bytes>>

setSpeedLimit(limit) ==
    /\ resetting = None /\ sets < MaxSets
    /\ sets' = sets + 1
    /\ wanted' = limit
    /\ \/ limit = 0 /\ setUnlimited
       \/ limit # 0 /\ limiter = None /\ setNew(limit)
       \/ limit # 0 /\ limiter # None /\ SetLimit(limit)
    /\ allowance' = FirstAllowance(limit)
    /\ UNCHANGED <<conn, bytes>>

\* Connections that have read the burst and not yet taken their tokens.
Overtaken ==
    [c \in Conns |-> IF conn[c].at = "chunk" /\ conn[c].limiter = limiter
                     THEN [conn[c] EXCEPT !.overtaken = TRUE] ELSE conn[c]]

SetBurst ==
    /\ resetting # None
    /\ burst' = [burst EXCEPT ![limiter] = resetting]
    /\ tokens' = [tokens EXCEPT ![limiter] = Least(@, burst[limiter])]
    /\ conn' = Overtaken
    /\ resetting' = None
    /\ UNCHANGED <<wanted, limiter, made, rate, sets, bytes, allowance>>

-----------------------------------------------------------------------------
(* Connections.                                                            *)

\* Wrong variant: every connection gets a limiter of its own.
OpenOwn(c) ==
    /\ conn[c].at = "idle" /\ limiter # None /\ made < MaxMade
    /\ made' = made + 1
    /\ rate' = [rate EXCEPT ![made'] = rate[limiter]]
    /\ burst' = [burst EXCEPT ![made'] = burst[limiter]]
    /\ tokens' = [tokens EXCEPT ![made'] = burst[limiter]]
    /\ conn' = [conn EXCEPT ![c] = [at |-> "open", limiter |-> made', left |-> 0,
                                    chunk |-> 0, sleep |-> 0, overtaken |-> FALSE]]
    /\ UNCHANGED <<wanted, limiter, resetting, sets, bytes, allowance>>

\* The router wraps the connection with the limiter of the moment, if any.
Open(c) ==
    /\ conn[c].at = "idle"
    /\ conn' = [conn EXCEPT ![c] = [at |-> "open", limiter |-> limiter, left |-> 0,
                                    chunk |-> 0, sleep |-> 0, overtaken |-> FALSE]]
    /\ UNCHANGED <<wanted, limiter, made, rate, burst, tokens, resetting, sets, bytes, allowance>>

\* Wrong variant: its record is kept.
CloseKept(c) ==
    /\ conn[c].at # "idle"
    /\ conn' = [conn EXCEPT ![c].at = "idle"]
    /\ UNCHANGED <<wanted, limiter, made, rate, burst, tokens, resetting, sets, bytes, allowance>>

\* Either side ends it, or the user's context is canceled while it waits.
Close(c) ==
    /\ conn[c].at # "idle"
    /\ conn' = [conn EXCEPT ![c] = NoConn]
    /\ UNCHANGED <<wanted, limiter, made, rate, burst, tokens, resetting, sets, bytes, allowance>>

\* wait is called for n bytes.
Wait(c, n) ==
    /\ conn[c].at = "open" /\ conn[c].limiter # None
    /\ bytes + n <= MaxBytes
    /\ bytes' = bytes + n
    /\ conn' = [conn EXCEPT ![c].at = "wait", ![c].left = n]
    /\ UNCHANGED <<wanted, limiter, made, rate, burst, tokens, resetting, sets, allowance>>

\* Read takes at most one burst and waits for what it got.
Read(c) ==
    \E size \in Sizes : \E n \in 1 .. size :
        conn[c].at = "open" /\ conn[c].limiter # None
            /\ n <= burst[conn[c].limiter] /\ Wait(c, n)

\* Write waits first.
Write(c) == \E n \in Sizes : Wait(c, n)

\* ReadPacket and WritePacket take the packet as it is.
Packet(c) == \E n \in Sizes : Wait(c, n)

\* Wrong variant: the whole of n is asked for at once.
ChunkWhole(c) ==
    /\ conn[c].at = "wait" /\ conn[c].left > 0
    /\ conn' = [conn EXCEPT ![c].at = "chunk", ![c].overtaken = FALSE, ![c].chunk = conn[c].left]
    /\ UNCHANGED <<wanted, limiter, made, rate, burst, tokens, resetting, sets, bytes, allowance>>

\* The loop of wait reads the burst ...
Chunk(c) ==
    /\ conn[c].at = "wait" /\ conn[c].left > 0
    /\ conn' = [conn EXCEPT ![c].at = "chunk", ![c].overtaken = FALSE,
                            ![c].chunk = Least(conn[c].left, burst[conn[c].limiter])]
    /\ UNCHANGED <<wanted, limiter, made, rate, burst, tokens, resetting, sets, bytes, allowance>>

Forever == 1000

\* How long a debt of tokens is slept off.
Sleep(debt, r) ==
    CASE debt <= 0 -> 0
      [] debt > 0 /\ r = 0 -> Forever
      [] OTHER -> (debt + r - 1) \div r

\* ... and takes that many tokens, which may leave a debt ...
WaitN(c) ==
    LET l == conn[c].limiter
        after == Least(tokens[l], burst[l]) - conn[c].chunk
    IN  /\ conn[c].at = "chunk" /\ conn[c].chunk <= burst[l]
        /\ tokens' = [tokens EXCEPT ![l] = after]
        /\ conn' = [conn EXCEPT ![c].at = "sleep", ![c].sleep = Sleep(-after, rate[l])]
        /\ UNCHANGED <<wanted, limiter, made, rate, burst, resetting, sets, bytes, allowance>>

\* ... unless they are more than the burst by now: the connection fails.
WaitNRefused(c) ==
    /\ conn[c].at = "chunk" /\ conn[c].chunk > burst[conn[c].limiter]
    /\ conn' = [conn EXCEPT ![c] = NoConn]
    /\ UNCHANGED <<wanted, limiter, made, rate, burst, tokens, resetting, sets, bytes, allowance>>

\* The debt is paid: those bytes may pass, and the loop goes on or returns.
Wake(c) ==
    /\ conn[c].at = "sleep" /\ conn[c].sleep = 0
    /\ allowance' = IF sets = 1 THEN allowance - conn[c].chunk ELSE 0
    /\ conn' = [conn EXCEPT ![c].left = @ - conn[c].chunk, ![c].chunk = 0,
                            ![c].at = IF conn[c].left = conn[c].chunk THEN "open" ELSE "wait"]
    /\ UNCHANGED <<wanted, limiter, made, rate, burst, tokens, resetting, sets, bytes>>

Asleep == {c \in Conns : conn[c].at = "sleep" /\ conn[c].sleep > 0}

\* A second passes.
Tick ==
    /\ \E l \in 1 .. made : tokens[l] < burst[l] \/ Asleep # {}
    /\ tokens' = [l \in Limiters |-> Least(burst[l], tokens[l] + rate[l])]
    /\ conn' = [c \in Conns |-> IF c \in Asleep /\ conn[c].sleep # Forever
                                THEN [conn[c] EXCEPT !.sleep = @ - 1] ELSE conn[c]]
    /\ allowance' = IF sets = 1 THEN allowance + rate[1] ELSE 0
    /\ UNCHANGED <<wanted, limiter, made, rate, burst, resetting, sets, bytes>>

-----------------------------------------------------------------------------
ConnNext(c) ==
    \/ Open(c) \/ Close(c) \/ Read(c) \/ Write(c) \/ Packet(c)
    \/ Chunk(c) \/ WaitN(c) \/ WaitNRefused(c) \/ Wake(c)

Next ==
    \/ \E limit \in Limits : setSpeedLimit(limit)
    \/ SetBurst
    \/ \E c \in Conns : ConnNext(c)
    \/ Tick

Spec == Init /\ [][Next]_vars

\* Time passes, the loop of wait runs, and SetLimit runs to its end.
FairSpec ==
    /\ Spec
    /\ WF_vars(Tick) /\ WF_vars(SetBurst)
    /\ \A c \in Conns : /\ WF_vars(Chunk(c)) /\ WF_vars(WaitN(c))
                        /\ WF_vars(WaitNRefused(c)) /\ WF_vars(Wake(c))

-----------------------------------------------------------------------------
Conn == [at : {"open", "wait", "chunk", "sleep"}, limiter : Limiters \union {None},
         left : Nat, chunk : Nat, sleep : Nat, overtaken : BOOLEAN]

\* Every variable has its type, and a connection that is over leaves nothing.
TypeOK ==
    /\ wanted \in Limits /\ limiter \in Limiters \union {None} /\ made \in 0 .. MaxMade
    /\ rate \in [Limiters -> Limits] /\ burst \in [Limiters -> 0 .. MaxBurst]
    /\ tokens \in [Limiters -> Int] /\ allowance \in Int
    /\ resetting \in (MinBurst .. MaxBurst) \union {None}
    /\ sets \in 0 .. MaxSets /\ bytes \in 0 .. MaxBytes
    /\ conn \in [Conns -> Conn \union {NoConn}]

\* wait takes "at most one burst at a time because WaitN refuses requests larger
\* than the burst" (limiter.go:48), and "minBurst keeps a single UDP datagram or
\* read buffer within one bucket" (limiter.go:16): a connection is refused its
\* tokens, and so broken, only if SetLimit lowered the burst after wait had read
\* it, and never for a datagram or a buffer that fits minBurst.
RefusedOnlyWhenOvertaken ==
    \A c \in Conns : conn[c].at = "chunk" /\ conn[c].chunk > burst[conn[c].limiter] =>
        conn[c].overtaken /\ conn[c].chunk > MinBurst

\* All connections of a user together stay within one burst and the rate, whoever
\* waits, sleeps or gives up in whatever order, as long as the limit stays.
WithinTheLimit == sets = 1 => allowance >= 0

\* A transfer that waits gets on, or its connection ends: no limit the panel may
\* set, 0 included, makes it wait for ever.
TransferEnds ==
    \A c \in Conns : conn[c].at \in {"wait", "chunk", "sleep"} ~> conn[c].at \in {"open", "idle"}
=============================================================================

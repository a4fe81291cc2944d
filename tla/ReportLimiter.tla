--------------------------- MODULE ReportLimiter ---------------------------
(***************************************************************************)
(* The limiter of common/reporter/limit.go, between the loggers of all     *)
(* servers and Sentry: a message is sent once per window, and all messages *)
(* together stay within a rate.                                            *)
(*                                                                         *)
(* A key is a message without its numbers.  allow reads the clock before   *)
(* it takes the lock; next to windows of seconds and minutes that is one   *)
(* step.  Instead of the time of an entry its age is kept, up to the age   *)
(* from which all are alike, so that time need not be bounded.             *)
(***************************************************************************)
EXTENDS Naturals, FiniteSets

CONSTANTS
    Keys,
    repeatWindow, eventInterval, eventBurst, maxTracked,
    MaxHeld,   \* bound: how many messages of one key are counted
    None       \* nil

\* What is sent within a window is less than what is tracked: 70 and 1000.
ASSUME WindowAssumption ==
    /\ repeatWindow \in Nat /\ eventInterval \in Nat \ {0}
    /\ eventBurst \in Nat \ {0} /\ maxTracked \in Nat
    /\ eventBurst * eventInterval + repeatWindow <= maxTracked * eventInterval
ASSUME HeldAssumption == MaxHeld \in Nat

seenMessage == [age : 0 .. repeatWindow, suppressed : Nat]

ASSUME NoMessageAssumption == None \notin seenMessage

VARIABLES
    seen,    \* limiter.seen: key -> seenMessage, or None
    credit,  \* of rate: a message costs eventInterval
    tag,     \* the count that allow returned with the message sent last
    since,   \* what happened: how long ago a message of the key was sent
    held,    \* what happened: messages of the key held back since then
    due      \* what happened: how many of them there were when a message of
             \* the key was sent, for the one sent last

vars == <<seen, credit, tag, since, held, due>>

Tracked == {k \in Keys : seen[k] # None}
Expired(k) == seen[k].age >= repeatWindow

Init ==
    /\ seen = [k \in Keys |-> None]
    /\ credit = eventBurst * eventInterval
    /\ since = [k \in Keys |-> repeatWindow]
    /\ held = [k \in Keys |-> 0]
    /\ tag = 0 /\ due = 0

\* rate.Limiter: AllowN takes a token if there is one.
AllowN == credit >= eventInterval

Repeated(k) == k \in Tracked /\ ~Expired(k)

CountHeld(k) ==
    /\ held[k] < MaxHeld
    /\ held' = [held EXCEPT ![k] = @ + 1]
    /\ seen' = IF k \in Tracked THEN [seen EXCEPT ![k].suppressed = @ + 1] ELSE seen
    /\ UNCHANGED <<credit, tag, since, due>>

\* allow, for a message that was sent within the window,
allowRepeated(k) == Repeated(k) /\ CountHeld(k)

\* Wrong variant: it is not counted.
allowOverRateUncounted(k) ==
    /\ ~Repeated(k) /\ ~AllowN
    /\ held[k] < MaxHeld
    /\ held' = [held EXCEPT ![k] = @ + 1]
    /\ UNCHANGED <<seen, credit, tag, since, due>>

\* for one too many,
allowOverRate(k) == ~Repeated(k) /\ ~AllowN /\ CountHeld(k)

\* Wrong variants: nothing is forgotten; everything is.
ForgottenNone == {}
ForgottenAll == IF Cardinality(Tracked) >= maxTracked THEN Tracked ELSE {}

\* The entries that a full map gives up.
Forgotten == IF Cardinality(Tracked) >= maxTracked
             THEN {k \in Tracked : Expired(k)} ELSE {}

\* What allow returns with true: how many its entry has counted, if there is one.
suppressed(k) == IF k \in Tracked THEN seen[k].suppressed ELSE 0

\* and for one that is sent.
allowSent(k) ==
    /\ ~Repeated(k) /\ AllowN
    /\ seen' = [j \in Keys |-> IF j = k THEN [age |-> 0, suppressed |-> 0]
                               ELSE IF j \in Forgotten THEN None ELSE seen[j]]
    /\ credit' = credit - eventInterval
    /\ since' = [since EXCEPT ![k] = 0]
    /\ tag' = suppressed(k)
    /\ held' = [held EXCEPT ![k] = 0]
    /\ due' = held[k]

Older(age) == IF age < repeatWindow THEN age + 1 ELSE age

Tick ==
    /\ seen' = [k \in Keys |-> IF k \in Tracked
                               THEN [seen[k] EXCEPT !.age = Older(@)] ELSE None]
    /\ credit' = IF credit < eventBurst * eventInterval THEN credit + 1 ELSE credit
    /\ since' = [k \in Keys |-> Older(since[k])]
    /\ UNCHANGED <<tag, held, due>>

Next == Tick \/ \E k \in Keys : allowRepeated(k) \/ allowOverRate(k) \/ allowSent(k)

Spec == Init /\ [][Next]_vars

-----------------------------------------------------------------------------
(* Properties.                                                             *)

\* The map never outgrows maxTracked, although a full map only gives up entries
\* that have expired: the rate keeps the others fewer than that.
TrackedBounded == Cardinality(Tracked) <= maxTracked

\* "A message differing only in numbers is one problem, sent once per window",
\* also when its entry was given up in between (limit.go:25).
OncePerWindow ==
    [][\A k \in Keys : allowSent(k) => since[k] = repeatWindow]_vars

\* The count that is sent with a message is that of all like it "held back since
\* the last one that was" sent, by the window or by the rate, or none at all:
\* never too many, some of them, or those of an earlier window (limit.go:47).
CountAllOrNone == tag \in {0, due}
=============================================================================

------------------------------ MODULE Billing ------------------------------
(***************************************************************************)
(* What the traffic accounting promises the panel, without the user table, *)
(* the counters, the retired states and the reports that keep the promise: *)
(* bytes are billed in batches, each to the user who moved it, and a       *)
(* second time only if the answer to the first batch was lost; nothing is  *)
(* moved or billed once the server has closed.  UserTraffic implements it. *)
(***************************************************************************)
CONSTANTS Users, Chunks

VARIABLES
    moved,   \* user -> chunks of bytes the user's connections moved
    billed,  \* user -> chunks the panel has added to the user's traffic
    doubt,   \* chunks the node does not know to be billed
    closed   \* Server.Close has returned

vars == <<moved, billed, doubt, closed>>

Moved == UNION {moved[u] : u \in Users}
Billed == UNION {billed[u] : u \in Users}

Init ==
    /\ moved = [u \in Users |-> {}]
    /\ billed = [u \in Users |-> {}]
    /\ doubt = {} /\ closed = FALSE

Move(u, b) ==
    /\ ~closed /\ b \notin Moved
    /\ moved' = [moved EXCEPT ![u] = @ \union {b}]
    /\ UNCHANGED <<billed, doubt, closed>>

\* A batch is billed; the answer may be lost, and it may be the last one.
Bill(batch) ==
    /\ ~closed
    /\ batch \subseteq Moved
    /\ batch \intersect Billed \subseteq doubt
    /\ billed' = [u \in Users |-> billed[u] \union (batch \intersect moved[u])]
    /\ doubt' \in {doubt, doubt \union batch}
    /\ closed' \in BOOLEAN
    /\ UNCHANGED moved

Close ==
    /\ closed' = TRUE
    /\ UNCHANGED <<moved, billed, doubt>>

Next == \/ \E u \in Users, b \in Chunks : Move(u, b)
        \/ \E batch \in SUBSET Chunks : Bill(batch)
        \/ Close

Spec == Init /\ [][Next]_vars
=============================================================================

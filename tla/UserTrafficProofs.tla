------------------------- MODULE UserTrafficProofs -------------------------
(***************************************************************************)
(* Proofs about UserTraffic, for every number of users, states,            *)
(* connections and chunks.  IInv is the inductive invariant; its parts are *)
(* named, and there is one lemma per part.                                 *)
(***************************************************************************)
EXTENDS UserTraffic, TLAPS

-----------------------------------------------------------------------------
(* The inductive invariant.                                                *)

\* The table maps an ID to a state of that ID, and connections hold states
\* that were given an ID.
OwnState ==
    /\ \A u \in Users : current[u] # None => id[current[u]] = u
    /\ \A c \in Conns : held[c] # None => id[held[c]] \in Users

\* What a counter or a report holds was moved by the user it is filed under.
OwnChunks ==
    /\ \A s \in States : \A b \in count[s] :
          id[s] \in Users /\ b \in relayed[id[s]]
    /\ \A i \in items : i.chunks \subseteq relayed[i.user]

\* A chunk is moved by one user.
RelayedApart ==
    \A u, v \in Users : u # v => relayed[u] \intersect relayed[v] = {}

\* A chunk is in one counter or one report.
CountsApart ==
    /\ \A s, t \in States : s # t => count[s] \intersect count[t] = {}
    /\ \A i, j \in items : i # j => i.chunks \intersect j.chunks = {}
    /\ \A s \in States, i \in items : count[s] \intersect i.chunks = {}

\* A billed chunk that may be billed again was in an unanswered report.
BilledUnsure ==
    /\ twice \subseteq unsure
    /\ \A s \in States : count[s] \intersect Billed \subseteq unsure
    /\ \A i \in items : i.chunks \intersect Billed \subseteq unsure

\* No chunk disappears before the server has closed.
NoneVanished ==
    server # "closed" =>
        \A u \in Users : \A b \in relayed[u] :
            \/ b \in ledger[u] \union InItems
            \/ \E s \in States : b \in count[s]

\* States that are used are collected later or belong to removed users.
Referenced ==
    /\ \A s \in States : count[s] # {} => s \in Reachable \union canceled
    /\ \A c \in Conns : held[c] # None => held[c] \in Reachable \union canceled
    /\ retired \subseteq canceled
    /\ pull # "retire" => leaving = {}

IInv ==
    /\ TypeOK /\ OwnState /\ OwnChunks /\ RightAccount /\ RelayedApart
    /\ CountsApart /\ BilledUnsure /\ NoneVanished /\ Referenced

-----------------------------------------------------------------------------
(* What the actions do, as the lemmas below need it.                       *)

\* userTable.update gives new users states that nobody refers to, with their
\* IDs, and leaves the others as they are.
LEMMA StoreFacts ==
    ASSUME TypeOK, OwnState, NEW list \in SUBSET Users, UpdateStore(list)
    PROVE  /\ current' \in [Users -> States \union {None}]
           /\ id' \in [States -> Users \union {None}]
           /\ \A s \in States : s \notin Free => id'[s] = id[s]
           /\ \A u \in Users : current'[u] # None => id'[current'[u]] = u
           /\ canceled' \subseteq canceled
           /\ canceled \ canceled' \subseteq Free \intersect All'
           /\ All \subseteq All' \union leaving'
<1> DEFINE new == {u \in list : current[u] = None}
<1>1. PICK fresh \in [new -> Free] :
        /\ \A u, v \in new : fresh[u] = fresh[v] => u = v
        /\ current' = [u \in Users |-> IF u \in new THEN fresh[u]
                                       ELSE IF u \in list THEN current[u]
                                       ELSE None]
        /\ id' = [s \in States |->
                    IF \E u \in new : fresh[u] = s
                    THEN CHOOSE u \in new : fresh[u] = s
                    ELSE id[s]]
        /\ canceled' = canceled \ {fresh[u] : u \in new}
      BY DEF UpdateStore
<1>2. /\ new \subseteq Users
      /\ Free \subseteq States
      /\ \A u \in Users : current[u] # None => current[u] \in States \ Free
      BY DEF Free, Reachable, All, TypeOK
<1>3. \A s \in States : (\E u \in new : fresh[u] = s) =>
          id'[s] \in new /\ fresh[id'[s]] = s
  <2> SUFFICES ASSUME NEW s \in States, \E u \in new : fresh[u] = s
               PROVE  id'[s] \in new /\ fresh[id'[s]] = s
      OBVIOUS
  <2> DEFINE owner == CHOOSE u \in new : fresh[u] = s
  <2>1. id'[s] = owner
        BY <1>1
  <2>2. owner \in new /\ fresh[owner] = s
        OBVIOUS
  <2> HIDE DEF owner
  <2> QED BY <2>1, <2>2
<1>4. \A s \in States : (~ \E u \in new : fresh[u] = s) => id'[s] = id[s]
      BY <1>1
<1>5. id' \in [States -> Users \union {None}]
  <2>1. \A s \in States : id'[s] \in Users \union {None}
        BY <1>2, <1>3, <1>4 DEF TypeOK
  <2>2. id' = [s \in States |-> id'[s]]
        BY <1>1
  <2> QED BY <2>1, <2>2
<1>6. current' \in [Users -> States \union {None}]
      BY <1>1, <1>2 DEF TypeOK
<1>7. \A s \in States : s \notin Free => id'[s] = id[s]
      BY <1>1, <1>4
<1>8. ASSUME NEW u \in Users, current'[u] # None
      PROVE  id'[current'[u]] = u
  <2>1. CASE u \in new
    <3>1. current'[u] = fresh[u] /\ fresh[u] \in States
          BY <1>1, <1>2, <2>1
    <3>2. id'[fresh[u]] \in new /\ fresh[id'[fresh[u]]] = fresh[u]
          BY <1>3, <2>1, <3>1
    <3> QED BY <1>1, <2>1, <3>1, <3>2
  <2>2. CASE u \notin new
    <3>1. current'[u] = current[u] /\ current[u] # None
          BY <1>1, <1>8, <2>2
    <3> QED BY <1>2, <1>7, <3>1 DEF OwnState
  <2> QED BY <2>1, <2>2
<1>9. canceled' \subseteq canceled /\ canceled \ canceled' \subseteq Free \intersect All'
  <2> SUFFICES ASSUME NEW s \in canceled, s \notin canceled'
               PROVE  s \in Free /\ s \in All'
      BY <1>1
  <2>1. PICK u \in new : s = fresh[u]
        BY <1>1
  <2>2. current'[u] = s /\ s \in Free /\ s # None
        BY <1>1, <1>2, <2>1, NoneAssumption
  <2> QED BY <1>2, <2>2 DEF All
<1>10. All \subseteq All' \union leaving'
  <2> SUFFICES ASSUME NEW u \in Users, current[u] # None, current[u] \notin leaving'
               PROVE  current[u] \in All'
      BY DEF All
  <2>1. u \in list /\ u \notin new
        BY DEF UpdateStore
  <2> QED BY <1>1, <2>1 DEF All
<1> QED BY <1>5, <1>6, <1>7, <1>8, <1>9, <1>10

-----------------------------------------------------------------------------
(* Type correctness.                                                       *)

\* Init establishes the whole invariant.
LEMMA InitIInv == Init => IInv
<1> SUFFICES ASSUME Init PROVE IInv
    OBVIOUS
<1>1. TypeOK
      BY DEF Init, TypeOK, Item
<1>2. OwnState /\ OwnChunks /\ RightAccount /\ RelayedApart
      BY DEF Init, OwnState, OwnChunks, RightAccount, RelayedApart
<1>3. CountsApart /\ BilledUnsure /\ NoneVanished /\ Referenced
      BY DEF Init, CountsApart, BilledUnsure, NoneVanished, Referenced
<1> QED BY <1>1, <1>2, <1>3 DEF IInv

\* Every step keeps the types.  OwnState and OwnChunks are needed for the
\* user of a collected item, which is the ID of the state collected.
LEMMA TypeStep == IInv /\ [Next]_vars => TypeOK'
<1> SUFFICES ASSUME IInv, [Next]_vars PROVE TypeOK'
    OBVIOUS
<1> USE DEF IInv, tableVars, stateVars, connVars, pushVars, panelVars
<1>1. ASSUME NEW list \in SUBSET Users, UpdateStore(list) PROVE TypeOK'
  <2>1. current' \in [Users -> States \union {None}]
        BY <1>1, StoreFacts
  <2>2. id' \in [States -> Users \union {None}]
        BY <1>1, StoreFacts
  <2>3. canceled' \in SUBSET States
        BY <1>1, StoreFacts DEF TypeOK
  <2>4. leaving' \in SUBSET States
        BY <1>1 DEF UpdateStore, TypeOK
  <2> QED BY <1>1, <2>1, <2>2, <2>3, <2>4 DEF UpdateStore, TypeOK
<1>2. ASSUME UpdateRetire \/ PullStop PROVE TypeOK'
      BY <1>2 DEF UpdateRetire, PullStop, TypeOK
<1>3. ASSUME NEW c \in Conns, NEW u \in Users, Route(c, u) PROVE TypeOK'
      BY <1>3 DEF Route, TypeOK
<1>4. ASSUME NEW c \in Conns, Refuse(c) \/ Open(c) \/ End(c) PROVE TypeOK'
      BY <1>4 DEF Refuse, Open, End, TypeOK
<1>5. ASSUME NEW c \in Conns, NEW b \in Chunks, Relay(c, b) PROVE TypeOK'
      BY <1>5 DEF Relay, TypeOK
<1>6. ASSUME CollectStart \/ CollectLock \/ FinalCollect PROVE TypeOK'
  <2>1. todo' \in SUBSET States
        BY <1>6 DEF CollectStart, CollectLock, FinalCollect, All, TypeOK
  <2> QED BY <1>6, <2>1 DEF CollectStart, CollectLock, FinalCollect, TypeOK
<1>7. ASSUME NEW s \in States, CollectServed(s) \/ CollectRetired(s) PROVE TypeOK'
  <2>1. count' \in [States -> SUBSET Chunks] /\ todo' \in SUBSET States
        BY <1>7 DEF CollectServed, CollectRetired, Collect, TypeOK
  <2>2. count[s] # {} => [user |-> id[s], chunks |-> count[s]] \in Item
        BY DEF OwnChunks, TypeOK, Item
  <2>3. items' \in SUBSET Item
        BY <1>7, <2>2 DEF CollectServed, CollectRetired, Collect, TypeOK
  <2>4. CASE CollectServed(s)
        BY <2>1, <2>3, <2>4 DEF CollectServed, TypeOK
  <2>5. CASE CollectRetired(s)
        BY <2>1, <2>3, <2>5, NoneAssumption DEF CollectRetired, TypeOK
  <2> QED BY <1>7, <2>4, <2>5
<1>8. ASSUME CheckActive \/ CollectDone PROVE TypeOK'
      BY <1>8 DEF CheckActive, CollectDone, Finish, TypeOK
<1>9. ASSUME Reporting PROVE TypeOK'
  <2>1. \A i \in items : i.chunks \in SUBSET Chunks
        BY DEF TypeOK, Item
  <2>2. InItems \in SUBSET Chunks /\ Billed \in SUBSET Chunks
        BY <2>1 DEF InItems, Billed, TypeOK
  <2>3. ASSUME Credit PROVE ledger' \in [Users -> SUBSET Chunks] /\ twice' \in SUBSET Chunks
        BY <2>1, <2>2, <2>3 DEF Credit, TypeOK
  <2>4. CASE ReportAccepted
        BY <2>3, <2>4 DEF ReportAccepted, Finish, TypeOK
  <2>5. CASE ReportRefused
        BY <2>5 DEF ReportRefused, ReportFailed, Finish, TypeOK
  <2>6. CASE ReportAnswerLost
        BY <2>2, <2>3, <2>6 DEF ReportAnswerLost, ReportFailed, Finish, TypeOK
  <2> QED BY <1>9, <2>4, <2>5, <2>6 DEF Reporting
<1>10. ASSUME NEW i \in items, RestoreServed(i) \/ RestoreRetired(i) \/ RestoreFresh(i)
       PROVE  TypeOK'
  <2>1. i.user \in Users /\ i.chunks \in SUBSET Chunks
        BY DEF TypeOK, Item
  <2>2. CASE RestoreServed(i)
        BY <2>1, <2>2 DEF RestoreServed, Restored, TypeOK
  <2>3. CASE RestoreRetired(i)
        BY <2>1, <2>3 DEF RestoreRetired, Restored, TypeOK
  <2>4. CASE RestoreFresh(i)
        BY <2>1, <2>4 DEF RestoreFresh, Restored, Free, TypeOK
  <2> QED BY <1>10, <2>2, <2>3, <2>4
<1>11. ASSUME NEW i \in items, RestoreMiss(i) PROVE TypeOK'
       BY <1>11, NoneAssumption DEF RestoreMiss, TypeOK, Item
<1>12. ASSUME PushStop \/ Cancel \/ Exited PROVE TypeOK'
       BY <1>12 DEF PushStop, Cancel, Exited, TypeOK, vars
<1>13. ASSUME UNCHANGED vars PROVE TypeOK'
       BY <1>13 DEF TypeOK, vars
<1> QED
    BY <1>1, <1>2, <1>3, <1>4, <1>5, <1>6, <1>7, <1>8, <1>9, <1>10, <1>11, <1>12, <1>13
    DEF Next, Pull, Collecting, Restoring, Connection

-----------------------------------------------------------------------------
(* The accounting.  Every step does one of five things to the counters, the *)
(* reports and the panel.                                                  *)

\* States that hold a count keep their ID.
IdsKept == \A s \in States : count[s] # {} => id'[s] = id[s]

\* The step does not touch the accounting.
Quiet == IdsKept /\ UNCHANGED <<count, items, relayed, panelVars>>

\* The step collects a state.
Collected(s) == Collect(s) /\ UNCHANGED <<id, relayed, panelVars>>

\* The step puts an item back, into a state of the item's user.
PutBack(i, s) ==
    /\ Restored(i, s) /\ id'[s] = i.user /\ IdsKept
    /\ UNCHANGED <<relayed, panelVars>>

\* The five cases are all there is.
LEMMA AccountingCases ==
    ASSUME IInv, [Next]_vars
    PROVE  /\ server = "closed" => server' = "closed"
           /\ \/ Quiet
              \/ \E c \in Conns, b \in Chunks : Relay(c, b)
              \/ \E s \in States : Collected(s)
              \/ Reporting
              \/ \E i \in items, s \in States : PutBack(i, s)
<1> DEFINE Goal == /\ server = "closed" => server' = "closed"
                   /\ \/ Quiet
                      \/ \E c \in Conns, b \in Chunks : Relay(c, b)
                      \/ \E s \in States : Collected(s)
                      \/ Reporting
                      \/ \E i \in items, s \in States : PutBack(i, s)
<1> USE DEF tableVars, stateVars, connVars, pushVars, panelVars
<1>1. ASSUME NEW list \in SUBSET Users, UpdateStore(list) PROVE Goal
  <2>1. IdsKept
        BY <1>1, StoreFacts DEF IInv, IdsKept, Free
  <2> QED BY <1>1, <2>1 DEF UpdateStore, Quiet
<1>2. ASSUME UpdateRetire \/ PullStop PROVE Goal
      BY <1>2 DEF UpdateRetire, PullStop, Quiet, IdsKept
<1>3. ASSUME NEW c \in Conns, \/ \E u \in Users : Route(c, u)
                              \/ Refuse(c) \/ Open(c) \/ End(c)
      PROVE  Goal
      BY <1>3 DEF Route, Refuse, Open, End, Quiet, IdsKept
<1>4. ASSUME NEW c \in Conns, NEW b \in Chunks, Relay(c, b) PROVE Goal
      BY <1>4 DEF Relay
<1>5. ASSUME CollectStart \/ CollectLock \/ FinalCollect PROVE Goal
      BY <1>5 DEF CollectStart, CollectLock, FinalCollect, Quiet, IdsKept
<1>6. ASSUME NEW s \in States, CollectServed(s) \/ CollectRetired(s) PROVE Goal
      BY <1>6 DEF CollectServed, CollectRetired, Collected
<1>7. ASSUME CheckActive \/ CollectDone PROVE Goal
      BY <1>7 DEF CheckActive, CollectDone, Finish, Quiet, IdsKept
<1>8. ASSUME Reporting PROVE Goal
      BY <1>8 DEF Reporting, ReportAccepted, ReportRefused, ReportAnswerLost,
                  ReportFailed, Finish
<1>9. ASSUME NEW i \in items, RestoreServed(i) PROVE Goal
  <2>1. current[i.user] \in States /\ id[current[i.user]] = i.user
        BY <1>9 DEF RestoreServed, IInv, TypeOK, OwnState, Item
  <2>2. PutBack(i, current[i.user])
        BY <1>9, <2>1 DEF RestoreServed, PutBack, IdsKept
  <2> QED BY <1>9, <2>1, <2>2 DEF RestoreServed
<1>10. ASSUME NEW i \in items, RestoreRetired(i) PROVE Goal
  <2>1. PICK s \in retired : id[s] = i.user /\ Restored(i, s)
        BY <1>10 DEF RestoreRetired
  <2>2. s \in States /\ PutBack(i, s)
        BY <1>10, <2>1 DEF RestoreRetired, PutBack, IdsKept, IInv, TypeOK
  <2> QED BY <1>10, <2>2 DEF RestoreRetired
<1>11. ASSUME NEW i \in items, RestoreFresh(i) PROVE Goal
  <2>1. PICK s \in Free : id' = [id EXCEPT ![s] = i.user] /\ Restored(i, s)
        BY <1>11 DEF RestoreFresh
  <2>2. s \in States /\ count[s] = {}
        BY <2>1 DEF Free
  <2>3. PutBack(i, s)
        BY <1>11, <2>1, <2>2 DEF RestoreFresh, PutBack, IdsKept, IInv, TypeOK
  <2> QED BY <1>11, <2>2, <2>3 DEF RestoreFresh
<1>12. ASSUME NEW i \in items, RestoreMiss(i) PROVE Goal
       BY <1>12 DEF RestoreMiss, Quiet, IdsKept
<1>13. ASSUME PushStop \/ Cancel \/ Exited \/ UNCHANGED vars PROVE Goal
       BY <1>13 DEF PushStop, Cancel, Exited, vars, Quiet, IdsKept
<1> QED
    BY <1>1, <1>2, <1>3, <1>4, <1>5, <1>6, <1>7, <1>8, <1>9, <1>10, <1>11, <1>12, <1>13
    DEF Next, Pull, Collecting, Restoring, Connection

\* What is common to the three outcomes of a report.
LEMMA ReportFacts ==
    ASSUME TypeOK, Reporting
    PROVE  /\ UNCHANGED <<count, id, relayed>>
           /\ items' = items \/ items' = {}
           /\ unsure \subseteq unsure'
           /\ \/ /\ Credit
                 /\ items' = {} \/ InItems \subseteq unsure'
              \/ /\ UNCHANGED <<ledger, twice>>
                 /\ items' = items \/ server' = "closed"
<1> USE DEF ReportFailed, Finish, stateVars, panelVars
<1>1. CASE ReportAccepted
      BY <1>1 DEF ReportAccepted
<1>2. CASE ReportRefused
      BY <1>2 DEF ReportRefused
<1>3. CASE ReportAnswerLost
      BY <1>3 DEF ReportAnswerLost
<1> QED BY <1>1, <1>2, <1>3 DEF Reporting

\* The panel bills a user exactly the items of that user.
LEMMA CreditFacts ==
    ASSUME TypeOK, Credit
    PROVE  /\ \A u \in Users : ledger[u] \subseteq ledger'[u]
           /\ \A i \in items : i.chunks \subseteq ledger'[i.user]
           /\ \A u \in Users : \A b \in ledger'[u] \ ledger[u] :
                 \E i \in items : i.user = u /\ b \in i.chunks
  BY DEF Credit, TypeOK, Item

\* Chunks stay with the user who moved them.
LEMMA OwnStep ==
    ASSUME IInv, [Next]_vars
    PROVE  OwnChunks' /\ RelayedApart' /\ RightAccount'
<1> USE DEF IInv
<1>1. ASSUME Quiet PROVE OwnChunks' /\ RelayedApart' /\ RightAccount'
      BY <1>1 DEF Quiet, IdsKept, OwnChunks, RelayedApart, RightAccount, panelVars, TypeOK
<1>2. ASSUME NEW c \in Conns, NEW b \in Chunks, Relay(c, b)
      PROVE  OwnChunks' /\ RelayedApart' /\ RightAccount'
  <2> DEFINE s == held[c]
  <2>1. s \in States /\ id[s] \in Users
        BY <1>2 DEF Relay, TypeOK, OwnState
  <2>2. /\ \A t \in States : count'[t] = IF t = s THEN count[t] \union {b} ELSE count[t]
        /\ \A u \in Users : relayed'[u] = IF u = id[s] THEN relayed[u] \union {b}
                                          ELSE relayed[u]
        /\ \A u \in Users : b \notin relayed[u]
        /\ UNCHANGED <<id, items, ledger>>
        BY <1>2, <2>1 DEF Relay, TypeOK, pushVars, panelVars
  <2> HIDE DEF s
  <2>3. \A t \in States : \A d \in count'[t] : id[t] \in Users /\ d \in relayed'[id[t]]
        BY <2>1, <2>2 DEF OwnChunks
  <2>4. \A i \in items : i.user \in Users /\ i.chunks \subseteq relayed'[i.user]
        BY <2>2 DEF OwnChunks, TypeOK, Item
  <2>5. ASSUME NEW u \in Users, NEW v \in Users, u # v
        PROVE  relayed'[u] \intersect relayed'[v] = {}
    <3>1. relayed[u] \intersect relayed[v] = {}
          BY <2>5 DEF RelayedApart
    <3> QED BY <2>2, <2>5, <3>1
  <2>6. RightAccount'
        BY <2>2 DEF RightAccount
  <2> QED BY <2>2, <2>3, <2>4, <2>5, <2>6 DEF OwnChunks, RelayedApart
<1>3. ASSUME NEW s \in States, Collected(s)
      PROVE  OwnChunks' /\ RelayedApart' /\ RightAccount'
  <2>1. OwnChunks'
        BY <1>3 DEF Collected, Collect, OwnChunks, TypeOK, Item
  <2> QED BY <1>3, <2>1 DEF Collected, RelayedApart, RightAccount, panelVars
<1>4. ASSUME Reporting PROVE OwnChunks' /\ RelayedApart' /\ RightAccount'
  <2>1. OwnChunks' /\ RelayedApart'
        BY <1>4, ReportFacts DEF OwnChunks, RelayedApart
  <2>2. RightAccount'
        BY <1>4, ReportFacts, CreditFacts DEF RightAccount, OwnChunks
  <2> QED BY <2>1, <2>2
<1>5. ASSUME NEW i \in items, NEW s \in States, PutBack(i, s)
      PROVE  OwnChunks' /\ RelayedApart' /\ RightAccount'
  <2>1. OwnChunks'
        BY <1>5 DEF PutBack, Restored, IdsKept, OwnChunks, TypeOK, Item
  <2> QED BY <1>5, <2>1 DEF PutBack, RelayedApart, RightAccount, panelVars
<1> QED BY <1>1, <1>2, <1>3, <1>4, <1>5, AccountingCases

\* Counters and reports stay disjoint.
LEMMA ApartStep == ASSUME IInv, [Next]_vars PROVE CountsApart'
<1> USE DEF IInv
<1>1. ASSUME Quiet PROVE CountsApart'
      BY <1>1 DEF Quiet, CountsApart
<1>2. ASSUME NEW c \in Conns, NEW b \in Chunks, Relay(c, b) PROVE CountsApart'
  <2>1. \A t \in States : b \notin count[t]
        BY <1>2 DEF Relay, OwnChunks
  <2>2. \A i \in items : b \notin i.chunks
        BY <1>2 DEF Relay, OwnChunks, TypeOK, Item
  <2> QED BY <1>2, <2>1, <2>2 DEF Relay, CountsApart, TypeOK, pushVars
<1>3. ASSUME NEW s \in States, Collected(s) PROVE CountsApart'
  <2>1. \A t \in States : count'[t] = IF t = s THEN {} ELSE count[t]
        BY <1>3 DEF Collected, Collect, TypeOK
  <2>2. \A i \in items' : i \in items \/ i.chunks = count[s]
        BY <1>3 DEF Collected, Collect
  <2>3. \A i, j \in items' : i # j => i.chunks \intersect j.chunks = {}
        BY <1>3 DEF Collected, Collect, CountsApart
  <2> QED BY <2>1, <2>2, <2>3 DEF CountsApart
<1>4. ASSUME Reporting PROVE CountsApart'
      BY <1>4, ReportFacts DEF CountsApart
<1>5. ASSUME NEW i \in items, NEW s \in States, PutBack(i, s) PROVE CountsApart'
  <2>1. /\ \A t \in States : count'[t] = IF t = s THEN count[t] \union i.chunks ELSE count[t]
        /\ items' = items \ {i}
        BY <1>5 DEF PutBack, Restored, TypeOK
  <2> QED BY <2>1 DEF CountsApart
<1> QED BY <1>1, <1>2, <1>3, <1>4, <1>5, AccountingCases

\* Only an unanswered report makes a chunk billable twice.
LEMMA UnsureStep == ASSUME IInv, [Next]_vars PROVE BilledUnsure'
<1> USE DEF IInv
<1>1. ASSUME Quiet PROVE BilledUnsure'
      BY <1>1 DEF Quiet, BilledUnsure, Billed, panelVars
<1>2. ASSUME NEW c \in Conns, NEW b \in Chunks, Relay(c, b) PROVE BilledUnsure'
  <2>1. b \notin Billed
        BY <1>2 DEF Relay, Billed, RightAccount
  <2>2. UNCHANGED <<Billed, twice, unsure, items>>
        BY <1>2 DEF Relay, Billed, panelVars, pushVars
  <2> QED BY <1>2, <2>1, <2>2 DEF Relay, BilledUnsure, TypeOK
<1>3. ASSUME NEW s \in States, Collected(s) PROVE BilledUnsure'
      BY <1>3 DEF Collected, Collect, BilledUnsure, Billed, panelVars, TypeOK
<1>4. ASSUME Reporting PROVE BilledUnsure'
  <2>1. CASE UNCHANGED <<ledger, twice>>
        BY <1>4, <2>1, ReportFacts DEF BilledUnsure, Billed
  <2>2. CASE Credit /\ (items' = {} \/ InItems \subseteq unsure')
    <3>1. \A b \in Billed' : b \in Billed \/ b \in InItems
          BY <2>2, CreditFacts DEF Billed, InItems
    <3>2. twice' \subseteq unsure
          BY <2>2 DEF Credit, BilledUnsure, InItems
    <3>3. \A s \in States : count[s] \intersect InItems = {}
          BY DEF CountsApart, InItems
    <3>4. \A i \in items : i.chunks \subseteq InItems
          BY DEF InItems
    <3> QED BY <1>4, <2>2, <3>1, <3>2, <3>3, <3>4, ReportFacts DEF BilledUnsure
  <2> QED BY <1>4, <2>1, <2>2, ReportFacts
<1>5. ASSUME NEW i \in items, NEW s \in States, PutBack(i, s) PROVE BilledUnsure'
      BY <1>5 DEF PutBack, Restored, BilledUnsure, Billed, panelVars, TypeOK
<1> QED BY <1>1, <1>2, <1>3, <1>4, <1>5, AccountingCases

\* No step makes a chunk disappear, except the last one of Close.
LEMMA VanishStep == ASSUME IInv, [Next]_vars PROVE NoneVanished'
<1> SUFFICES ASSUME server' # "closed", NEW u \in Users, NEW b \in relayed'[u]
             PROVE  \/ b \in ledger'[u] \union InItems'
                    \/ \E s \in States : b \in count'[s]
    BY DEF NoneVanished
<1> USE DEF IInv
<1>0. b \in relayed[u] => \/ b \in ledger[u]
                          \/ \E i \in items : b \in i.chunks
                          \/ \E s \in States : b \in count[s]
      BY AccountingCases DEF NoneVanished, InItems
<1>1. CASE Quiet
      BY <1>0, <1>1 DEF Quiet, InItems, panelVars
<1>2. ASSUME NEW c \in Conns, NEW d \in Chunks, Relay(c, d)
      PROVE  \/ b \in ledger'[u] \union InItems'
             \/ \E s \in States : b \in count'[s]
  <2>1. held[c] \in States /\ count'[held[c]] = count[held[c]] \union {d}
        BY <1>2 DEF Relay, TypeOK
  <2>2. b \in relayed[u] \/ b = d
        BY <1>2 DEF Relay, TypeOK
  <2>3. \A s \in States : count[s] \subseteq count'[s]
        BY <1>2 DEF Relay, TypeOK
  <2>4. UNCHANGED <<ledger, items>>
        BY <1>2 DEF Relay, panelVars, pushVars
  <2> QED BY <1>0, <2>1, <2>2, <2>3, <2>4 DEF InItems
<1>3. ASSUME NEW s \in States, Collected(s)
      PROVE  \/ b \in ledger'[u] \union InItems'
             \/ \E t \in States : b \in count'[t]
  <2>1. \A t \in States : count'[t] = IF t = s THEN {} ELSE count[t]
        BY <1>3 DEF Collected, Collect, TypeOK
  <2>2. \A i \in items : i \in items'
        BY <1>3 DEF Collected, Collect
  <2>4. ASSUME b \in count[s] PROVE \E i \in items' : b \in i.chunks
    <3> DEFINE i == [user |-> id[s], chunks |-> count[s]]
    <3>1. i \in items' /\ b \in i.chunks
          BY <1>3, <2>4 DEF Collected, Collect
    <3> QED BY <3>1
  <2>3. UNCHANGED <<relayed, ledger>>
        BY <1>3 DEF Collected, panelVars
  <2> QED BY <1>0, <2>1, <2>2, <2>3, <2>4 DEF InItems
<1>4. CASE Reporting
  <2>1. ASSUME NEW i \in items, b \in i.chunks PROVE i.user = u
        BY <1>4, <2>1, ReportFacts DEF OwnChunks, RelayedApart, TypeOK, Item
  <2> QED BY <1>0, <1>4, <2>1, ReportFacts, CreditFacts DEF InItems
<1>5. ASSUME NEW i \in items, NEW s \in States, PutBack(i, s)
      PROVE  \/ b \in ledger'[u] \union InItems'
             \/ \E t \in States : b \in count'[t]
  <2>1. /\ \A t \in States : count'[t] = IF t = s THEN count[t] \union i.chunks ELSE count[t]
        /\ items' = items \ {i}
        /\ UNCHANGED <<relayed, ledger>>
        BY <1>5 DEF PutBack, Restored, TypeOK, panelVars
  <2> QED BY <1>0, <2>1 DEF InItems
<1> QED BY <1>1, <1>2, <1>3, <1>4, <1>5, AccountingCases

-----------------------------------------------------------------------------
(* The table, the retired states and the connections.                      *)

\* States keep the ID they were given while the table or a connection
\* refers to them.
LEMMA OwnStateStep == ASSUME IInv, [Next]_vars PROVE OwnState'
<1> USE DEF IInv
<1>1. ASSUME NEW list \in SUBSET Users, UpdateStore(list) PROVE OwnState'
  <2>1. \A c \in Conns : held[c] # None => held[c] \in States \ Free
        BY DEF Free, TypeOK
  <2> QED BY <1>1, <2>1, StoreFacts DEF UpdateStore, OwnState, connVars
<1>2. ASSUME NEW c \in Conns, NEW u \in Users, Route(c, u) PROVE OwnState'
      BY <1>2 DEF Route, OwnState, TypeOK, tableVars, stateVars
<1>3. ASSUME NEW c \in Conns, Refuse(c) \/ End(c) PROVE OwnState'
      BY <1>3 DEF Refuse, End, OwnState, TypeOK, tableVars, stateVars
<1>4. ASSUME NEW i \in items, RestoreFresh(i) PROVE OwnState'
  <2>1. PICK s \in Free : id' = [id EXCEPT ![s] = i.user]
        BY <1>4 DEF RestoreFresh
  <2>2. /\ \A u \in Users : current[u] # None => current[u] \in States /\ current[u] # s
        /\ \A c \in Conns : held[c] # None => held[c] \in States /\ held[c] # s
        BY <2>1 DEF Free, Reachable, All, TypeOK
  <2> QED BY <1>4, <2>1, <2>2 DEF RestoreFresh, OwnState, TypeOK, connVars
<1>5. ASSUME UNCHANGED <<current, id, held>> PROVE OwnState'
      BY <1>5 DEF OwnState
<1>6. ASSUME \/ UpdateRetire \/ PullStop \/ Collecting \/ Reporting \/ PushStop
             \/ Cancel \/ FinalCollect \/ Exited \/ UNCHANGED vars
             \/ \E c \in Conns : Open(c) \/ \E b \in Chunks : Relay(c, b)
             \/ \E i \in items : RestoreServed(i) \/ RestoreMiss(i) \/ RestoreRetired(i)
      PROVE  UNCHANGED <<current, id, held>>
      BY <1>6 DEF UpdateRetire, PullStop, Collecting, CollectStart, CollectServed,
         CollectLock, CollectRetired, CheckActive, CollectDone, Reporting,
         ReportAccepted, ReportRefused, ReportAnswerLost, PushStop, Cancel,
         FinalCollect, Exited, vars, Open, Relay, RestoreServed, RestoreMiss,
         RestoreRetired, tableVars, stateVars, connVars
<1> QED BY <1>1, <1>2, <1>3, <1>4, <1>5, <1>6 DEF Next, Pull, Restoring, Connection

\* A step that keeps Reachable \union canceled, the connections and the
\* counters keeps Referenced.
LEMMA ReferencedStep == ASSUME IInv, [Next]_vars PROVE Referenced'
<1> USE DEF IInv
<1> DEFINE Known == Reachable \union canceled
<1>1. ASSUME NEW list \in SUBSET Users, UpdateStore(list) PROVE Referenced'
  <2>1. leaving = {} /\ pull' = "retire" /\ UNCHANGED <<retired, count, held>>
        BY <1>1 DEF UpdateStore, Referenced, connVars
  <2>2. Known \subseteq Known'
        BY <1>1, <2>1, StoreFacts DEF Reachable
  <2>3. retired \subseteq canceled'
        BY <1>1, StoreFacts DEF Referenced, Free, Reachable
  <2> QED BY <2>1, <2>2, <2>3 DEF Referenced
<1>2. ASSUME UpdateRetire PROVE Referenced'
      BY <1>2 DEF UpdateRetire, Referenced, Reachable, All, connVars
<1>3. ASSUME NEW c \in Conns, NEW u \in Users, Route(c, u) PROVE Referenced'
  <2>1. current[u] \in Known
        BY <1>3 DEF Route, Reachable, All
  <2> QED BY <1>3, <2>1 DEF Route, Referenced, Reachable, All, TypeOK, tableVars, stateVars
<1>4. ASSUME NEW c \in Conns, Refuse(c) \/ End(c) PROVE Referenced'
      BY <1>4 DEF Refuse, End, Referenced, Reachable, All, TypeOK, tableVars, stateVars
<1>5. ASSUME NEW c \in Conns, NEW b \in Chunks, Relay(c, b) PROVE Referenced'
  <2>1. held[c] \in States /\ held[c] # None
        BY <1>5 DEF Relay, TypeOK
  <2> QED BY <1>5, <2>1 DEF Relay, Referenced, Reachable, All, TypeOK, tableVars, connVars
<1>6. ASSUME NEW s \in States, CollectServed(s) \/ CollectRetired(s) PROVE Referenced'
      BY <1>6 DEF CollectServed, CollectRetired, Collect, Referenced, Reachable, All,
                  TypeOK, tableVars, connVars
<1>7. ASSUME CheckActive PROVE Referenced'
      BY <1>7 DEF CheckActive, Referenced, Reachable, All, stateVars, connVars
<1>8. ASSUME NEW i \in items, RestoreServed(i) \/ RestoreRetired(i) \/ RestoreFresh(i)
      PROVE  Referenced'
  <2>1. i.user \in Users
        BY DEF TypeOK, Item
  <2>2. CASE RestoreServed(i)
    <3>1. current[i.user] \in States /\ current[i.user] \in Reachable
          BY <2>1, <2>2 DEF RestoreServed, Reachable, All, TypeOK
    <3> QED BY <2>2, <3>1 DEF RestoreServed, Restored, Referenced, Reachable, All,
                              TypeOK, tableVars, connVars
  <2>3. CASE RestoreRetired(i)
        BY <2>3 DEF RestoreRetired, Restored, Referenced, Reachable, All, TypeOK,
                    tableVars, connVars
  <2>4. CASE RestoreFresh(i)
        BY <2>4 DEF RestoreFresh, Restored, Referenced, Reachable, All, TypeOK, connVars
  <2> QED BY <1>8, <2>2, <2>3, <2>4
<1>9. ASSUME current' = current, retired' = retired, leaving' = leaving,
             canceled' = canceled, count' = count, held' = held,
             pull = "retire" => pull' = "retire"
      PROVE  Referenced'
      BY <1>9 DEF Referenced, Reachable, All
<1>10. ASSUME \/ PullStop \/ CollectStart \/ CollectLock \/ CollectDone \/ PushStop
              \/ Cancel \/ FinalCollect
              \/ \E c \in Conns : Open(c)
              \/ \E i \in items : RestoreMiss(i)
       PROVE  Referenced'
       BY <1>9, <1>10 DEF PullStop, CollectStart, CollectLock, CollectDone, PushStop,
          Cancel, FinalCollect, Open, RestoreMiss, tableVars, stateVars, connVars
<1>11. ASSUME Reporting PROVE Referenced'
       BY <1>9, <1>11 DEF Reporting, ReportAccepted, ReportRefused, ReportAnswerLost,
          tableVars, stateVars, connVars
<1>12. ASSUME Exited \/ UNCHANGED vars PROVE Referenced'
       BY <1>9, <1>12 DEF Exited, vars, tableVars, stateVars, connVars
<1> QED
    BY <1>1, <1>2, <1>3, <1>4, <1>5, <1>6, <1>7, <1>8, <1>10, <1>11, <1>12
    DEF Next, Pull, Collecting, Restoring, Connection

-----------------------------------------------------------------------------
(* The theorems.                                                           *)

\* The invariant holds in every reachable state.
THEOREM Invariance == Spec => []IInv
<1>1. IInv /\ [Next]_vars => IInv'
      BY TypeStep, OwnStep, ApartStep, UnsureStep, VanishStep, OwnStateStep,
         ReferencedStep DEF IInv
<1> QED BY InitIInv, <1>1, PTL DEF Spec

\* The variables of users.go, router.go and server.go that are modelled keep
\* their types, and the push loop checks a retired state, or looks for one,
\* exactly where collectTraffic and restoreTraffic do.
THEOREM TypeCorrect == Spec => []TypeOK
<1>1. IInv => TypeOK
      BY DEF IInv
<1> QED BY Invariance, <1>1, PTL

\* A user is billed for that user's bytes only, however reports, removals
\* and restoreTraffic interleave.
THEOREM BilledToTheRightUser == Spec => []RightAccount
<1>1. IInv => RightAccount
      BY DEF IInv
<1> QED BY Invariance, <1>1, PTL

\* collectTraffic and restoreTraffic never duplicate a count; the panel
\* bills a byte twice only after an unanswered report.
THEOREM NeverDuplicated == Spec => []CountedOnce
<1>1. IInv => CountedOnce
      BY DEF IInv, CountedOnce, CountsApart, BilledUnsure
<1> QED BY Invariance, <1>1, PTL

\* No byte of a served user leaves the accounting before the server closes.
THEOREM NeverLostWhileServed == Spec => []ServedTrafficKept
<1>1. IInv => ServedTrafficKept
      BY DEF IInv, ServedTrafficKept, NoneVanished, Referenced
<1> QED BY Invariance, <1>1, PTL

-----------------------------------------------------------------------------
(* UserTraffic implements Billing.                                         *)

\* Server.Close is over only after the push steps it takes for the final report.
ClosedDone == server = "closed" => push = "done"

LEMMA ClosedDoneInvariance == Spec => []ClosedDone
<1>1. Init => ClosedDone
      BY DEF Init, ClosedDone
<1>2. ASSUME ClosedDone, [Next]_vars PROVE ClosedDone'
  <2> USE <1>2 DEF ClosedDone, tableVars, stateVars, connVars, pushVars
  <2>1. ASSUME Pull \/ Cancel PROVE ClosedDone'
        BY <2>1 DEF Pull, UpdateStore, UpdateRetire, PullStop, Cancel
  <2>2. ASSUME Collecting PROVE ClosedDone'
        BY <2>2 DEF Collecting, CollectStart, CollectServed, CollectRetired,
                    CollectLock, CheckActive, CollectDone, Finish
  <2>3. ASSUME Reporting PROVE ClosedDone'
        BY <2>3 DEF Reporting, ReportAccepted, ReportRefused, ReportAnswerLost,
                    ReportFailed, Finish
  <2>4. ASSUME Restoring PROVE ClosedDone'
        BY <2>4 DEF Restoring, RestoreServed, RestoreMiss, RestoreRetired,
                    RestoreFresh, Restored
  <2>5. ASSUME Connection PROVE ClosedDone'
        BY <2>5 DEF Connection, Route, Refuse, Open, Relay, End
  <2>6. ASSUME PushStop \/ FinalCollect \/ Exited \/ UNCHANGED vars PROVE ClosedDone'
        BY <2>6 DEF PushStop, FinalCollect, Exited, vars
  <2> QED BY <2>1, <2>2, <2>3, <2>4, <2>5, <2>6 DEF Next
<1> QED BY <1>1, <1>2, PTL DEF Spec

\* The items of an accepted report are a batch: moved, and not billed before
\* unless an answer was lost, and the panel files each chunk as Billing does.
LEMMA BatchFacts ==
    ASSUME IInv, Credit
    PROVE  /\ InItems \in SUBSET Chunks
           /\ InItems \subseteq Account!Moved
           /\ InItems \intersect Account!Billed \subseteq unsure
           /\ ledger' = [u \in Users |-> ledger[u] \union (InItems \intersect relayed[u])]
<1> USE DEF IInv
<1>1. \A i \in items : i.user \in Users /\ i.chunks \in SUBSET Chunks
      BY DEF TypeOK, Item
<1>2. InItems \in SUBSET Chunks
      BY <1>1 DEF InItems
<1>3. InItems \subseteq Account!Moved
      BY <1>1 DEF InItems, OwnChunks, Account!Moved
<1>4. InItems \intersect Account!Billed \subseteq unsure
      BY DEF InItems, BilledUnsure, Billed, Account!Billed
<1>5. \A u \in Users : UNION {i.chunks : i \in {j \in items : j.user = u}}
                         = InItems \intersect relayed[u]
      BY <1>1 DEF InItems, OwnChunks, RelayedApart
<1> QED BY <1>2, <1>3, <1>4, <1>5 DEF Credit

\* Every step of the accounting is a step of Billing or leaves it as it is.
LEMMA BillingStep ==
    ASSUME IInv, ClosedDone, [Next]_vars
    PROVE  [Account!Next]_(Account!vars)
<1> DEFINE Same == UNCHANGED <<relayed, ledger, unsure>>
<1>1. server = "closed" => server' = "closed"
      BY AccountingCases
<1>2. ASSUME Same PROVE [Account!Next]_(Account!vars)
  <2>1. CASE (server = "closed") = (server' = "closed")
        BY <1>2, <2>1 DEF Account!vars
  <2>2. CASE (server = "closed") # (server' = "closed")
        BY <1>1, <1>2, <2>2 DEF Account!Next, Account!Close
  <2> QED BY <2>1, <2>2
<1>3. CASE Quiet \/ (\E s \in States : Collected(s)) \/ (\E i \in items, s \in States : PutBack(i, s))
      BY <1>2, <1>3 DEF Quiet, Collected, PutBack, panelVars
<1>4. ASSUME NEW c \in Conns, NEW b \in Chunks, Relay(c, b)
      PROVE  [Account!Next]_(Account!vars)
  <2>1. id[held[c]] \in Users
        BY <1>4 DEF Relay, IInv, TypeOK, OwnState
  <2>2. Account!Move(id[held[c]], b)
        BY <1>4 DEF Relay, Account!Move, Account!Moved, panelVars
  <2> QED BY <2>1, <2>2 DEF Account!Next
<1>5. ASSUME Reporting PROVE [Account!Next]_(Account!vars)
  <2>1. server # "closed"
        BY <1>5 DEF Reporting, ReportAccepted, ReportRefused, ReportAnswerLost, ClosedDone
  <2>2. CASE ReportRefused
        BY <1>2, <2>2 DEF ReportRefused, panelVars
  <2>3. CASE ReportAccepted \/ ReportAnswerLost
    <3>1. Credit /\ unsure' \in {unsure, unsure \union InItems} /\ UNCHANGED relayed
          BY <2>3 DEF ReportAccepted, ReportAnswerLost
    <3>2. Account!Bill(InItems)
          BY <2>1, <3>1, BatchFacts DEF Account!Bill
    <3> QED BY <3>1, <3>2, BatchFacts DEF Account!Next
  <2> QED BY <1>5, <2>2, <2>3 DEF Reporting
<1> QED BY <1>3, <1>4, <1>5, AccountingCases

\* UserTraffic implements Billing for every number of users, states,
\* connections and chunks: each report that ReportTraffic gets through bills
\* every chunk to the user who moved it, once unless an answer was lost.
THEOREM Implementation == Spec => ImplementsBilling
<1>1. Init => Account!Init
      BY DEF Init, Account!Init
<1>2. IInv /\ ClosedDone /\ [Next]_vars => [Account!Next]_(Account!vars)
      BY BillingStep
<1> QED BY Invariance, ClosedDoneInvariance, <1>1, <1>2, PTL
        DEF Spec, ImplementsBilling, Account!Spec
=============================================================================

-------------------------- MODULE PanelSyncProofs --------------------------
(***************************************************************************)
(* Proofs about PanelSync, for every set of users, limits, settings and    *)
(* rules and however often the panel changes.                              *)
(***************************************************************************)
EXTENDS PanelSync, TLAPS

-----------------------------------------------------------------------------
(* The inductive invariant.                                                *)

\* What a step of Start may count on: nothing runs yet, and before the first
\* config nothing was fetched.
Booting ==
    /\ booting => nodeServer = None /\ at \notin {"node", "idle", "closed"}
    /\ booting /\ at = "config" =>
          infoETag = None /\ nodeConfig = None /\ userList = NobodyListed /\ table = NobodyListed
    /\ at = "failed" => booting
    /\ at = "create" => nodeServer = None

\* What a fetch returned is what its ETag stands for, until it is applied.
FetchedMeansETag == usersETag # None /\ fetched # None => fetched = usersETag

\* The table holds the users of the list, and the node server too, unless one
\* of its updates failed or is due.
SameUsers ==
    /\ Listed(table) = Listed(userList)
    /\ nodeServer # None /\ "update" \notin failed /\ at # "node" =>
          nodeUsers = Listed(userList)

\* Unless a rebuild failed: after Start there is a node server but in the midst of
\* a rebuild, and the table follows the limit of the config, or, until a new
\* config's limit is looked at, that of the running one.
LimitInForce ==
    "rebuild" \notin failed =>
        /\ ~booting /\ at # "create" => runningConfig # None
        /\ nodeConfig # None =>
              table = TableOf(userList, IF at = "limit" /\ ~booting THEN runningConfig.limit
                                        ELSE nodeConfig.limit)

IInv ==
    /\ TypeOK /\ Booting /\ ETagMeansApplied /\ FetchedMeansETag
    /\ OneListener /\ SameUsers /\ LimitInForce

-----------------------------------------------------------------------------
(* The operators.                                                          *)

\* effectiveLimit is the stricter of two limits, as the README means it.
LEMMA EffectiveIsStricter ==
    ASSUME NEW a \in Nat, NEW b \in Nat
    PROVE  effectiveLimit(a, b) = Stricter(a, b)
<1>1. CASE a = 0 /\ b = 0
      BY <1>1 DEF effectiveLimit, Stricter
<1>2. CASE a = 0 /\ b # 0
  <2>1. Stricter(a, b) = Min({b})
        BY <1>2 DEF Stricter
  <2>2. Min({b}) = b
        BY DEF Min
  <2> QED BY <1>2, <2>1, <2>2 DEF effectiveLimit
<1>3. CASE a # 0 /\ b = 0
  <2>1. Stricter(a, b) = Min({a})
        BY <1>3 DEF Stricter
  <2>2. Min({a}) = a
        BY DEF Min
  <2> QED BY <1>3, <2>1, <2>2 DEF effectiveLimit
<1>4. CASE a # 0 /\ b # 0
  <2>1. Stricter(a, b) = Min({a, b})
    <3>1. {a, b} # {0} /\ {a, b} \ {0} = {a, b}
          BY <1>4
    <3> QED BY <3>1 DEF Stricter
  <2>2. Min({a, b}) = IF a <= b THEN a ELSE b
    <3> DEFINE least == IF a <= b THEN a ELSE b
    <3>1. least \in {a, b} /\ \A y \in {a, b} : least <= y
          OBVIOUS
    <3>2. \A x \in {a, b} : (\A y \in {a, b} : x <= y) => x = least
          OBVIOUS
    <3> QED BY <3>1, <3>2 DEF Min
  <2> QED BY <1>4, <2>1, <2>2 DEF effectiveLimit
<1> QED BY <1>1, <1>2, <1>3, <1>4

\* A limit the table computes is a limit.
LEMMA EffectiveType ==
    ASSUME NEW a \in Limits, NEW b \in Limits
    PROVE  effectiveLimit(a, b) \in Limits
BY DEF effectiveLimit

\* userTable.update serves the users of the list, each with a limit.
LEMMA TableFacts ==
    ASSUME NEW list \in List, NEW limit \in Limits
    PROVE  TableOf(list, limit) \in List /\ Listed(TableOf(list, limit)) = Listed(list)
<1>1. \A u \in Users : list[u] # None => effectiveLimit(limit, list[u]) \in Limits
      BY EffectiveType DEF List
<1> QED BY <1>1, NothingAssumption DEF TableOf, List, Listed

\* Nobody is served whatever the limit.
LEMMA TableOfNobody ==
    ASSUME NEW limit
    PROVE  NobodyListed \in List /\ TableOf(NobodyListed, limit) = NobodyListed
BY DEF TableOf, NobodyListed, List

-----------------------------------------------------------------------------
(* Every step keeps the invariant: one lemma per part.                     *)

\* Init establishes the whole invariant.
LEMMA InitIInv == Init => IInv
<1> SUFFICES ASSUME Init PROVE IInv
    OBVIOUS
<1>1. NobodyListed \in List
      BY TableOfNobody
<1>2. TypeOK
  <2>1. changes \in 0 .. MaxChanges
        BY ChangesAssumption DEF Init
  <2> QED BY <1>1, <2>1, NothingAssumption, Zenon DEF Init, TypeOK
<1>3. Booting /\ ETagMeansApplied /\ FetchedMeansETag /\ OneListener
      BY DEF Init, Booting, ETagMeansApplied, FetchedMeansETag, OneListener
<1>4. SameUsers /\ LimitInForce
      BY DEF Init, SameUsers, LimitInForce
<1> QED BY <1>2, <1>3, <1>4 DEF IInv

\* The types, and that a config and a fetched list are there when they are used.
LEMMA TypeStep == IInv /\ [Next]_vars => TypeOK'
<1> SUFFICES ASSUME IInv, [Next]_vars PROVE TypeOK'
    OBVIOUS
<1> USE NothingAssumption
    DEF IInv, TypeOK, panelVars, etagVars, nodeVars, Step, Goto, FailedAt, Synced, AfterRules
<1>1. CASE PanelChange
  <2>1. changes' \in 0 .. MaxChanges
        BY <1>1, ChangesAssumption DEF PanelChange
  <2>2. available' \in BOOLEAN
        BY <1>1 DEF PanelChange
  <2>3. panelInfo' \in Info /\ panelUsers' \in List /\ panelRules' \in SUBSET Rules
        BY <1>1 DEF PanelChange
  <2> QED BY <1>1, <2>1, <2>2, <2>3 DEF PanelChange
<1>2. CASE ConfigUnchanged
      BY <1>2 DEF ConfigUnchanged, ETagMeansApplied
<1>3. CASE ConfigFetched
      BY <1>3 DEF ConfigFetched
<1>4. CASE ConfigInvalid
      BY <1>4 DEF ConfigInvalid, Booting
<1>5. CASE ConfigError
      BY <1>5 DEF ConfigError, Booting
<1>6. CASE SyncLimit
  <2>1. nodeConfig \in Info
        BY <1>6 DEF SyncLimit
  <2>2. TableOf(userList, nodeConfig.limit) \in List
        BY <2>1, TableFacts DEF Info
  <2> QED BY <1>6, <2>2 DEF SyncLimit
<1>7. CASE SyncSame
      BY <1>7 DEF SyncSame
<1>8. CASE SyncClose
      BY <1>8 DEF SyncClose
<1>9. CASE SyncNone
      BY <1>9 DEF SyncNone
<1>10. CASE RebuildFailed
       BY <1>10 DEF RebuildFailed
<1>11. CASE Rebuilt
  <2>1. nodeConfig \in Info
        BY <1>11 DEF Rebuilt
  <2>2. nodeConfig.listener \in Listeners /\ Listed(userList) \in SUBSET Users
        BY <2>1 DEF Info, Listed
  <2> QED BY <1>11, <2>1, <2>2 DEF Rebuilt
<1>12. CASE UsersUnchanged
       BY <1>12 DEF UsersUnchanged
<1>13. CASE UsersFetched
       BY <1>13 DEF UsersFetched
<1>14. CASE UsersUnavailable
       BY <1>14, TableOfNobody DEF UsersUnavailable
<1>15. CASE UsersError
       BY <1>15 DEF UsersError
<1>16. CASE ApplyTable
  <2>1. nodeConfig \in Info /\ fetched \in List
        BY <1>16 DEF ApplyTable
  <2>2. TableOf(fetched, nodeConfig.limit) \in List
        BY <2>1, TableFacts DEF Info
  <2> QED BY <1>16, <2>1, <2>2 DEF ApplyTable
<1>17. CASE ApplyNode
  <2>1. Listed(userList) \in SUBSET Users
        BY DEF Listed
  <2> QED BY <1>17, <2>1 DEF ApplyNode
<1>18. CASE RulesFetched
       BY <1>18 DEF RulesFetched
<1>19. CASE RulesKept
       BY <1>19 DEF RulesKept
<1>20. CASE Tick
       BY <1>20 DEF Tick
<1>21. CASE Cancel
       BY <1>21 DEF Cancel
<1>22. CASE Close
       BY <1>22 DEF Close
<1>23. CASE Exited \/ UNCHANGED vars
       BY <1>23 DEF Exited, vars
<1> QED
    BY <1>1, <1>2, <1>3, <1>4, <1>5, <1>6, <1>7, <1>8, <1>9, <1>10, <1>11, <1>12, <1>13,
       <1>14, <1>15, <1>16, <1>17, <1>18, <1>19, <1>20, <1>21, <1>22, <1>23
    DEF Next, Fetch, Sync, Apply

\* What Start may count on: a step that would break it is a step of the pull loop.
LEMMA BootingStep == IInv /\ [Next]_vars => Booting'
<1> SUFFICES ASSUME IInv, [Next]_vars PROVE Booting'
    OBVIOUS
<1> USE NothingAssumption
    DEF IInv, TypeOK, Booting, panelVars, etagVars, nodeVars, Step, Goto, FailedAt, Synced, AfterRules
<1>1. CASE PanelChange
      BY <1>1 DEF PanelChange
<1>2. CASE ConfigUnchanged
  <2>1. ~booting
        BY <1>2 DEF ConfigUnchanged
  <2> QED BY <1>2, <2>1 DEF ConfigUnchanged
<1>3. CASE ConfigFetched
      BY <1>3 DEF ConfigFetched
<1>4. CASE ConfigInvalid
      BY <1>4 DEF ConfigInvalid
<1>5. CASE ConfigError
      BY <1>5 DEF ConfigError
<1>6. CASE SyncLimit
      BY <1>6 DEF SyncLimit
<1>7. CASE SyncSame
      BY <1>7 DEF SyncSame
<1>8. CASE SyncClose
      BY <1>8 DEF SyncClose
<1>9. CASE SyncNone
      BY <1>9 DEF SyncNone
<1>10. CASE RebuildFailed
      BY <1>10 DEF RebuildFailed
<1>11. CASE Rebuilt
      BY <1>11 DEF Rebuilt
<1>12. CASE UsersUnchanged
      BY <1>12 DEF UsersUnchanged
<1>13. CASE UsersFetched
      BY <1>13 DEF UsersFetched
<1>14. CASE UsersUnavailable
      BY <1>14 DEF UsersUnavailable
<1>15. CASE UsersError
      BY <1>15 DEF UsersError
<1>16. CASE ApplyTable
      BY <1>16 DEF ApplyTable
<1>17. CASE ApplyNode
      BY <1>17 DEF ApplyNode
<1>18. CASE RulesFetched
      BY <1>18 DEF RulesFetched
<1>19. CASE RulesKept
      BY <1>19 DEF RulesKept
<1>20. CASE Tick
      BY <1>20 DEF Tick
<1>21. CASE Cancel
      BY <1>21 DEF Cancel
<1>22. CASE Close
      BY <1>22 DEF Close
<1>23. CASE Exited \/ UNCHANGED vars
      BY <1>23 DEF Exited, vars
<1> QED
    BY <1>1, <1>2, <1>3, <1>4, <1>5, <1>6, <1>7, <1>8, <1>9, <1>10, <1>11, <1>12, <1>13,
       <1>14, <1>15, <1>16, <1>17, <1>18, <1>19, <1>20, <1>21, <1>22, <1>23
    DEF Next, Fetch, Sync, Apply

\* An ETag stands for what was applied, or was fetched and is applied next.
LEMMA ETagStep == IInv /\ [Next]_vars => (ETagMeansApplied /\ FetchedMeansETag)'
<1> SUFFICES ASSUME IInv, [Next]_vars PROVE (ETagMeansApplied /\ FetchedMeansETag)'
    OBVIOUS
<1> USE NothingAssumption
    DEF IInv, TypeOK, ETagMeansApplied, FetchedMeansETag, panelVars, etagVars, nodeVars, Step, Goto, FailedAt, Synced, AfterRules
<1>1. CASE PanelChange
      BY <1>1 DEF PanelChange
<1>2. CASE ConfigUnchanged
      BY <1>2 DEF ConfigUnchanged
<1>3. CASE ConfigFetched
      BY <1>3 DEF ConfigFetched
<1>4. CASE ConfigInvalid
      BY <1>4 DEF ConfigInvalid
<1>5. CASE ConfigError
      BY <1>5 DEF ConfigError
<1>6. CASE SyncLimit
      BY <1>6 DEF SyncLimit
<1>7. CASE SyncSame
      BY <1>7 DEF SyncSame
<1>8. CASE SyncClose
      BY <1>8 DEF SyncClose
<1>9. CASE SyncNone
      BY <1>9 DEF SyncNone
<1>10. CASE RebuildFailed
      BY <1>10 DEF RebuildFailed
<1>11. CASE Rebuilt
      BY <1>11 DEF Rebuilt
<1>12. CASE UsersUnchanged
      BY <1>12 DEF UsersUnchanged
<1>13. CASE UsersFetched
      BY <1>13 DEF UsersFetched
<1>14. CASE UsersUnavailable
      BY <1>14 DEF UsersUnavailable
<1>15. CASE UsersError
      BY <1>15 DEF UsersError
<1>16. CASE ApplyTable
      BY <1>16 DEF ApplyTable
<1>17. CASE ApplyNode
      BY <1>17 DEF ApplyNode
<1>18. CASE RulesFetched
      BY <1>18 DEF RulesFetched
<1>19. CASE RulesKept
      BY <1>19 DEF RulesKept
<1>20. CASE Tick
      BY <1>20 DEF Tick
<1>21. CASE Cancel
      BY <1>21 DEF Cancel
<1>22. CASE Close
      BY <1>22 DEF Close
<1>23. CASE Exited \/ UNCHANGED vars
      BY <1>23 DEF Exited, vars
<1> QED
    BY <1>1, <1>2, <1>3, <1>4, <1>5, <1>6, <1>7, <1>8, <1>9, <1>10, <1>11, <1>12, <1>13,
       <1>14, <1>15, <1>16, <1>17, <1>18, <1>19, <1>20, <1>21, <1>22, <1>23
    DEF Next, Fetch, Sync, Apply

\* There is one listener, the one that Server stands for.
LEMMA ListenerStep == IInv /\ [Next]_vars => OneListener'
<1> SUFFICES ASSUME IInv, [Next]_vars PROVE OneListener'
    OBVIOUS
<1> USE NothingAssumption
    DEF IInv, TypeOK, Booting, OneListener, panelVars, etagVars, nodeVars, Step, Goto, FailedAt, Synced, AfterRules
<1>1. CASE PanelChange
      BY <1>1 DEF PanelChange
<1>2. CASE ConfigUnchanged
      BY <1>2 DEF ConfigUnchanged
<1>3. CASE ConfigFetched
      BY <1>3 DEF ConfigFetched
<1>4. CASE ConfigInvalid
      BY <1>4 DEF ConfigInvalid
<1>5. CASE ConfigError
      BY <1>5 DEF ConfigError
<1>6. CASE SyncLimit
      BY <1>6 DEF SyncLimit
<1>7. CASE SyncSame
  <2>1. nodeConfig \in Info /\ runningConfig \in Info
        BY <1>7 DEF SyncSame, sameListener
  <2> QED BY <1>7, <2>1 DEF SyncSame, sameListener
<1>8. CASE SyncClose
      BY <1>8 DEF SyncClose
<1>9. CASE SyncNone
      BY <1>9 DEF SyncNone
<1>10. CASE RebuildFailed
      BY <1>10 DEF RebuildFailed
<1>11. CASE Rebuilt
  <2>1. nodeConfig \in Info /\ nodeConfig.listener # None
        BY <1>11 DEF Rebuilt, Info
  <2> QED BY <1>11, <2>1 DEF Rebuilt
<1>12. CASE UsersUnchanged
      BY <1>12 DEF UsersUnchanged
<1>13. CASE UsersFetched
      BY <1>13 DEF UsersFetched
<1>14. CASE UsersUnavailable
      BY <1>14 DEF UsersUnavailable
<1>15. CASE UsersError
      BY <1>15 DEF UsersError
<1>16. CASE ApplyTable
      BY <1>16 DEF ApplyTable
<1>17. CASE ApplyNode
      BY <1>17 DEF ApplyNode
<1>18. CASE RulesFetched
      BY <1>18 DEF RulesFetched
<1>19. CASE RulesKept
      BY <1>19 DEF RulesKept
<1>20. CASE Tick
      BY <1>20 DEF Tick
<1>21. CASE Cancel
      BY <1>21 DEF Cancel
<1>22. CASE Close
      BY <1>22 DEF Close
<1>23. CASE Exited \/ UNCHANGED vars
      BY <1>23 DEF Exited, vars
<1> QED
    BY <1>1, <1>2, <1>3, <1>4, <1>5, <1>6, <1>7, <1>8, <1>9, <1>10, <1>11, <1>12, <1>13,
       <1>14, <1>15, <1>16, <1>17, <1>18, <1>19, <1>20, <1>21, <1>22, <1>23
    DEF Next, Fetch, Sync, Apply

\* The table, the list and the node server have the same users.
LEMMA UsersStep == IInv /\ [Next]_vars => SameUsers'
<1> SUFFICES ASSUME IInv, [Next]_vars PROVE SameUsers'
    OBVIOUS
<1> USE NothingAssumption
    DEF IInv, TypeOK, Booting, SameUsers, panelVars, etagVars, nodeVars, Step, Goto, FailedAt, Synced, AfterRules
<1>1. CASE PanelChange
      BY <1>1 DEF PanelChange
<1>2. CASE ConfigUnchanged
      BY <1>2 DEF ConfigUnchanged
<1>3. CASE ConfigFetched
      BY <1>3 DEF ConfigFetched
<1>4. CASE ConfigInvalid
      BY <1>4 DEF ConfigInvalid
<1>5. CASE ConfigError
      BY <1>5 DEF ConfigError
<1>6. CASE SyncLimit
  <2>1. nodeConfig \in Info
        BY <1>6 DEF SyncLimit
  <2>2. Listed(TableOf(userList, nodeConfig.limit)) = Listed(userList)
        BY <2>1, TableFacts DEF Info
  <2> QED BY <1>6, <2>2 DEF SyncLimit
<1>7. CASE SyncSame
      BY <1>7 DEF SyncSame
<1>8. CASE SyncClose
      BY <1>8 DEF SyncClose
<1>9. CASE SyncNone
      BY <1>9 DEF SyncNone
<1>10. CASE RebuildFailed
      BY <1>10 DEF RebuildFailed
<1>11. CASE Rebuilt
      BY <1>11 DEF Rebuilt
<1>12. CASE UsersUnchanged
      BY <1>12 DEF UsersUnchanged
<1>13. CASE UsersFetched
      BY <1>13 DEF UsersFetched
<1>14. CASE UsersUnavailable
      BY <1>14 DEF UsersUnavailable
<1>15. CASE UsersError
      BY <1>15 DEF UsersError
<1>16. CASE ApplyTable
  <2>1. nodeConfig \in Info /\ fetched \in List
        BY <1>16 DEF ApplyTable
  <2>2. Listed(TableOf(fetched, nodeConfig.limit)) = Listed(fetched)
        BY <2>1, TableFacts DEF Info
  <2> QED BY <1>16, <2>2 DEF ApplyTable
<1>17. CASE ApplyNode
      BY <1>17 DEF ApplyNode
<1>18. CASE RulesFetched
      BY <1>18 DEF RulesFetched
<1>19. CASE RulesKept
      BY <1>19 DEF RulesKept
<1>20. CASE Tick
      BY <1>20 DEF Tick
<1>21. CASE Cancel
      BY <1>21 DEF Cancel
<1>22. CASE Close
      BY <1>22 DEF Close
<1>23. CASE Exited \/ UNCHANGED vars
      BY <1>23 DEF Exited, vars
<1> QED
    BY <1>1, <1>2, <1>3, <1>4, <1>5, <1>6, <1>7, <1>8, <1>9, <1>10, <1>11, <1>12, <1>13,
       <1>14, <1>15, <1>16, <1>17, <1>18, <1>19, <1>20, <1>21, <1>22, <1>23
    DEF Next, Fetch, Sync, Apply

\* The table follows the limit of the config.
LEMMA LimitStep == IInv /\ [Next]_vars => LimitInForce'
<1> SUFFICES ASSUME IInv, [Next]_vars PROVE LimitInForce'
    OBVIOUS
<1> USE NothingAssumption
    DEF IInv, TypeOK, Booting, OneListener, LimitInForce, panelVars, etagVars, nodeVars, Step, Goto, FailedAt, Synced, AfterRules
<1>1. CASE PanelChange
      BY <1>1 DEF PanelChange
<1>2. CASE ConfigUnchanged
      BY <1>2 DEF ConfigUnchanged
<1>3. CASE ConfigFetched
  <2>1. CASE booting
    <3>1. table = TableOf(userList, panelInfo.limit)
          BY <1>3, <2>1, TableOfNobody DEF ConfigFetched
    <3> QED BY <1>3, <2>1, <3>1 DEF ConfigFetched
  <2>2. CASE ~booting
        BY <1>3, <2>2 DEF ConfigFetched
  <2> QED BY <2>1, <2>2
<1>4. CASE ConfigInvalid
      BY <1>4 DEF ConfigInvalid
<1>5. CASE ConfigError
      BY <1>5 DEF ConfigError
<1>6. CASE SyncLimit
      BY <1>6 DEF SyncLimit
<1>7. CASE SyncSame
      BY <1>7 DEF SyncSame
<1>8. CASE SyncClose
      BY <1>8 DEF SyncClose
<1>9. CASE SyncNone
      BY <1>9 DEF SyncNone
<1>10. CASE RebuildFailed
      BY <1>10 DEF RebuildFailed
<1>11. CASE Rebuilt
      BY <1>11 DEF Rebuilt
<1>12. CASE UsersUnchanged
      BY <1>12 DEF UsersUnchanged
<1>13. CASE UsersFetched
      BY <1>13 DEF UsersFetched
<1>14. CASE UsersUnavailable
      BY <1>14 DEF UsersUnavailable
<1>15. CASE UsersError
      BY <1>15 DEF UsersError
<1>16. CASE ApplyTable
      BY <1>16 DEF ApplyTable
<1>17. CASE ApplyNode
      BY <1>17 DEF ApplyNode
<1>18. CASE RulesFetched
      BY <1>18 DEF RulesFetched
<1>19. CASE RulesKept
      BY <1>19 DEF RulesKept
<1>20. CASE Tick
      BY <1>20 DEF Tick
<1>21. CASE Cancel
      BY <1>21 DEF Cancel
<1>22. CASE Close
      BY <1>22 DEF Close
<1>23. CASE Exited \/ UNCHANGED vars
      BY <1>23 DEF Exited, vars
<1> QED
    BY <1>1, <1>2, <1>3, <1>4, <1>5, <1>6, <1>7, <1>8, <1>9, <1>10, <1>11, <1>12, <1>13,
       <1>14, <1>15, <1>16, <1>17, <1>18, <1>19, <1>20, <1>21, <1>22, <1>23
    DEF Next, Fetch, Sync, Apply

-----------------------------------------------------------------------------
(* The theorems.                                                           *)

\* The invariant holds in every reachable state.
LEMMA Invariance == Spec => []IInv
<1>1. IInv /\ [Next]_vars => IInv'
      BY TypeStep, BootingStep, ETagStep, ListenerStep, UsersStep, LimitStep DEF IInv
<1> QED BY InitIInv, <1>1, PTL DEF Spec

\* Type correctness; whoever reads the config or the fetched list finds one.
THEOREM TypeCorrect == Spec => []TypeOK
<1>1. IInv => TypeOK
      BY DEF IInv
<1> QED BY Invariance, <1>1, PTL

\* A 304 never hides an answer that was not applied.
THEOREM ETags == Spec => []ETagMeansApplied
<1>1. IInv => ETagMeansApplied
      BY DEF IInv
<1> QED BY Invariance, <1>1, PTL

\* There is one listener at most, it runs what runningConfig records, and Close
\* leaves none behind.
THEOREM Listener == Spec => []OneListener
<1>1. IInv => OneListener
      BY DEF IInv
<1> QED BY Invariance, <1>1, PTL

\* Between two pulls the node server authenticates exactly the users that are
\* routed, unless one of its updates failed.
THEOREM Authentication == Spec => []AuthenticatesTable
<1>1. IInv => AuthenticatesTable
      BY DEF IInv, SameUsers, AuthenticatesTable
<1> QED BY Invariance, <1>1, PTL

\* Between two pulls every user has the stricter of the node's and their own limit,
\* unless a rebuild failed.
THEOREM SpeedLimits == Spec => []SpeedLimitFollows
<1>1. IInv => SpeedLimitFollows
  <2> SUFFICES ASSUME IInv, "rebuild" \notin failed, at = "idle", nodeServer # None,
                      NEW u \in Listed(table)
               PROVE  table[u] = Stricter(nodeConfig.limit, userList[u])
      BY DEF SpeedLimitFollows, SpeedLimitApplied
  <2>1. u \in Users /\ userList[u] # None /\ nodeConfig \in Info
        BY DEF IInv, TypeOK, SameUsers, Listed
  <2>2. nodeConfig.limit \in Nat /\ userList[u] \in Nat
        BY <2>1, LimitsAssumption DEF IInv, TypeOK, List, Info
  <2>3. table = TableOf(userList, nodeConfig.limit)
        BY <2>1, NothingAssumption DEF IInv, LimitInForce
  <2>4. table[u] = effectiveLimit(nodeConfig.limit, userList[u])
        BY <2>1, <2>3 DEF TableOf
  <2> QED BY <2>2, <2>4, EffectiveIsStricter
<1> QED BY Invariance, <1>1, PTL

\* A user authenticates only once they are routable, and is routable no more before
\* they stop to authenticate.
THEOREM NodeAfterTable == Spec => NodeFollowsTable
<1> DEFINE Ordered ==
        \A u \in Users :
          /\ u \in nodeUsers' \ nodeUsers => table'[u] # None
          /\ u \in nodeUsers \ nodeUsers' /\ nodeServer' # None => table[u] = None
<1>1. ASSUME IInv, [Next]_vars PROVE Ordered \/ UNCHANGED vars
  <2> SUFFICES ASSUME NEW u \in Users, nodeUsers' # nodeUsers, nodeServer' # None
                        \/ u \in nodeUsers'
               PROVE  /\ u \in nodeUsers' => table'[u] # None
                      /\ u \notin nodeUsers' => table[u] = None
      OBVIOUS
  <2>1. u \in Listed(userList) <=> table[u] # None
        BY <1>1 DEF IInv, SameUsers, Listed
  <2>2. CASE Rebuilt
        BY <2>1, <2>2 DEF Rebuilt
  <2>3. CASE ApplyNode
        BY <2>1, <2>3 DEF ApplyNode
  <2>4. CASE SyncClose
        BY <2>4 DEF SyncClose
  <2>5. ~Rebuilt /\ ~ApplyNode /\ ~SyncClose => UNCHANGED nodeUsers
        BY <1>1 DEF Next, Fetch, Sync, Apply, PanelChange, ConfigUnchanged, ConfigFetched,
           ConfigInvalid, ConfigError, SyncLimit, SyncSame, SyncNone, RebuildFailed,
           UsersUnchanged, UsersFetched, UsersUnavailable, UsersError, ApplyTable,
           RulesFetched, RulesKept, Tick, Cancel, Close, Exited, nodeVars, vars
  <2> QED BY <2>2, <2>3, <2>4, <2>5
<1>2. IInv /\ [Next]_vars => [Ordered]_vars
      BY <1>1
<1> QED BY Invariance, <1>2, PTL DEF Spec, NodeFollowsTable
=============================================================================

----------------------------- MODULE PanelSync -----------------------------
(***************************************************************************)
(* How one NeXT-Server node follows its panel: the conditional fetches of  *)
(* api/serverv1, Server.Start, the pull loop (pullOnce, syncNodeServer,    *)
(* applyUsers, pullDetectRules) and Server.Close of server.go.             *)
(*                                                                         *)
(* The pull loop is one goroutine, but the panel changes between any two   *)
(* of its steps, clients meet whatever is between two steps, and every     *)
(* fetch and every step of a rebuild may fail.  `at` is the step it does   *)
(* next.                                                                   *)
(*                                                                         *)
(* An ETag stands for the answer it came with: the panel answers 304 when  *)
(* that is still its answer.  A user list maps IDs to the user's own speed *)
(* limit, the user table to the limit in force; None is "not listed".      *)
(***************************************************************************)
EXTENDS FiniteSets, Naturals, FiniteSetsExt

CONSTANTS
    Users,      \* panel user IDs
    Limits,     \* speed limits; 0 is unlimited
    Listeners,  \* node settings other than the speed limit
    Invalid,    \* those that parseNodeConfig rejects
    Rules,      \* detect rules
    BadRules,   \* those whose regular expression does not compile
    CanFail,    \* "rebuild": a new node server; "update": the running one's users
    MaxChanges, \* bound: how often the panel changes
    None        \* nil, or the empty ETag

ASSUME LimitsAssumption == Limits \subseteq Nat /\ 0 \in Limits
ASSUME InvalidAssumption == Invalid \subseteq Listeners /\ BadRules \subseteq Rules
ASSUME FailAssumption == CanFail \subseteq {"rebuild", "update"}
ASSUME ChangesAssumption == MaxChanges \in Nat

Info == [listener : Listeners, limit : Limits]
List == [Users -> Limits \union {None}]

ASSUME NothingAssumption == None \notin Limits \union Listeners \union Info \union List

NobodyListed == [u \in Users |-> None]
Listed(l) == {u \in Users : l[u] # None}

VARIABLES
    panelInfo, panelUsers, panelRules, \* what the panel would answer
    available, \* FALSE: it answers out_of_bandwidth or node_disabled
    changes,   \* how often it has changed
    infoETag, usersETag, rulesETag,    \* of serverv1.Client
    nodeConfig, runningConfig, userList, \* of Server; runningConfig may be nil
    nodeServer, \* the listener settings Server.nodeServer was built with, or None
    nodeUsers,  \* the users it authenticates
    listening,  \* listener settings of every started, unclosed node server
    table,      \* the user table: limit in force
    rules,      \* auditor.rules
    fetched,    \* what FetchUsers returned, until it is applied
    booting,    \* in Start, not in the pull loop
    canceled,   \* the server's context
    at,         \* the next step
    failed      \* what happened: which of CanFail failed since Start

panelVars == <<panelInfo, panelUsers, panelRules, available, changes>>
etagVars == <<infoETag, usersETag, rulesETag>>
nodeVars == <<nodeServer, nodeUsers, listening>>
vars == <<panelVars, etagVars, nodeVars, nodeConfig, runningConfig, userList,
          table, rules, fetched, booting, canceled, at, failed>>

Init ==
    /\ panelInfo \in Info /\ panelUsers \in List /\ panelRules \in SUBSET Rules
    /\ available \in BOOLEAN /\ changes = 0
    /\ infoETag = None /\ usersETag = None /\ rulesETag = None
    /\ nodeConfig = None /\ runningConfig = None /\ userList = NobodyListed
    /\ nodeServer = None /\ nodeUsers = {} /\ listening = {}
    /\ table = NobodyListed /\ rules = {} /\ fetched = None
    /\ booting = TRUE /\ canceled = FALSE /\ at = "config" /\ failed = {}

-----------------------------------------------------------------------------
(* The panel.                                                              *)

PanelChange ==
    /\ changes < MaxChanges
    /\ changes' = changes + 1
    /\ \/ panelInfo' \in Info \ {panelInfo} /\ UNCHANGED <<panelUsers, panelRules, available>>
       \/ panelUsers' \in List \ {panelUsers} /\ UNCHANGED <<panelInfo, panelRules, available>>
       \/ panelRules' \in SUBSET Rules \ {panelRules} /\ UNCHANGED <<panelInfo, panelUsers, available>>
       \/ available' = ~available /\ UNCHANGED <<panelInfo, panelUsers, panelRules>>
    /\ UNCHANGED <<etagVars, nodeVars, nodeConfig, runningConfig, userList, table,
                   rules, fetched, booting, canceled, at, failed>>

-----------------------------------------------------------------------------
(* The steps of Start and of pullOnce, which order them differently.       *)

Goto(boot, pull) == at' = IF booting THEN boot ELSE pull

\* An error that ends Start, and that pullOnce logs before it goes on.
FailedAt(pull) == Goto("failed", pull) /\ UNCHANGED booting

Step(here) == at = here

\* FetchNodeConfig
ConfigUnchanged ==
    /\ Step("config") /\ ~canceled
    /\ infoETag = panelInfo
    /\ at' = "limit"
    /\ UNCHANGED <<panelVars, etagVars, nodeVars, nodeConfig, runningConfig,
                   userList, table, rules, fetched, booting, canceled, failed>>

ConfigFetched ==
    /\ Step("config") /\ ~canceled
    /\ infoETag # panelInfo /\ panelInfo.listener \notin Invalid
    /\ infoETag' = panelInfo
    /\ nodeConfig' = panelInfo
    /\ Goto("users", "limit")
    /\ UNCHANGED <<panelVars, usersETag, rulesETag, nodeVars, runningConfig,
                   userList, table, rules, fetched, booting, canceled, failed>>

\* Wrong variant: the ETag of the invalid answer is kept.
ConfigInvalidKeepsETag ==
    /\ Step("config") /\ ~canceled
    /\ infoETag # panelInfo /\ panelInfo.listener \in Invalid
    /\ infoETag' = panelInfo
    /\ FailedAt("limit")
    /\ UNCHANGED <<panelVars, usersETag, rulesETag, nodeVars, nodeConfig,
                   runningConfig, userList, table, rules, fetched, canceled, failed>>

\* parseNodeConfig fails: the ETag is forgotten.
ConfigInvalid ==
    /\ Step("config") /\ ~canceled
    /\ infoETag # panelInfo /\ panelInfo.listener \in Invalid
    /\ infoETag' = None
    /\ FailedAt("limit")
    /\ UNCHANGED <<panelVars, usersETag, rulesETag, nodeVars, nodeConfig,
                   runningConfig, userList, table, rules, fetched, canceled, failed>>

\* Any other error, the canceled context included.
ConfigError ==
    /\ Step("config")
    /\ FailedAt("limit")
    /\ UNCHANGED <<panelVars, etagVars, nodeVars, nodeConfig, runningConfig,
                   userList, table, rules, fetched, canceled, failed>>

-----------------------------------------------------------------------------
(* syncNodeServer.                                                         *)

\* Wrong variant: an unlimited node lifts the user's limit.
effectiveLimitUnlimited(a, b) == IF b # 0 /\ b < a THEN b ELSE a

\* effectiveLimit: the stricter of two limits, where 0 is unlimited.
effectiveLimit(a, b) == IF a = 0 \/ (b # 0 /\ b < a) THEN b ELSE a

\* userTable.update
TableOf(list, nodeLimit) ==
    [u \in Users |-> IF list[u] = None THEN None ELSE effectiveLimit(nodeLimit, list[u])]

\* A changed speed limit applies without a rebuild.
SyncLimit ==
    /\ Step("limit")
    /\ table' = IF runningConfig # None /\ nodeConfig.limit # runningConfig.limit
                THEN TableOf(userList, nodeConfig.limit) ELSE table
    /\ at' = "sync"
    /\ UNCHANGED <<panelVars, etagVars, nodeVars, nodeConfig, runningConfig,
                   userList, rules, fetched, booting, canceled, failed>>

sameListener == runningConfig # None /\ nodeConfig.listener = runningConfig.listener

\* Where syncNodeServer returns to; the end of a successful Start.
Synced == Goto("idle", "users") /\ booting' = FALSE

SyncSame ==
    /\ Step("sync") /\ nodeServer # None /\ sameListener
    /\ runningConfig' = nodeConfig
    /\ Synced
    /\ UNCHANGED <<panelVars, etagVars, nodeVars, nodeConfig, userList, table,
                   rules, fetched, canceled, failed>>

\* Wrong variant: the old node server is forgotten and not closed.
SyncForget ==
    /\ Step("sync") /\ nodeServer # None /\ ~sameListener
    /\ nodeServer' = None /\ nodeUsers' = {} /\ runningConfig' = None
    /\ at' = "create"
    /\ UNCHANGED <<panelVars, etagVars, listening, nodeConfig, userList, table,
                   rules, fetched, booting, canceled, failed>>

\* The old node server is closed before the new one is created.
SyncClose ==
    /\ Step("sync") /\ nodeServer # None /\ ~sameListener
    /\ listening' = listening \ {nodeServer}
    /\ nodeServer' = None /\ nodeUsers' = {} /\ runningConfig' = None
    /\ at' = "create"
    /\ UNCHANGED <<panelVars, etagVars, nodeConfig, userList, table, rules,
                   fetched, booting, canceled, failed>>

SyncNone ==
    /\ Step("sync") /\ nodeServer = None
    /\ at' = "create"
    /\ UNCHANGED <<panelVars, etagVars, nodeVars, nodeConfig, runningConfig,
                   userList, table, rules, fetched, booting, canceled, failed>>

\* proxy.New, UpdateUsers or Start fails, and the new server is closed.
RebuildFailed ==
    /\ Step("create")
    /\ "rebuild" \in CanFail
    /\ FailedAt("users")
    /\ failed' = failed \union {"rebuild"}
    /\ UNCHANGED <<panelVars, etagVars, nodeVars, nodeConfig, runningConfig,
                   userList, table, rules, fetched, canceled>>

\* They succeed.  Nobody sees the new server before it is started.
Rebuilt ==
    /\ Step("create")
    /\ nodeServer' = nodeConfig.listener
    /\ nodeUsers' = Listed(userList)
    /\ listening' = listening \union {nodeConfig.listener}
    /\ runningConfig' = nodeConfig
    /\ Synced
    /\ UNCHANGED <<panelVars, etagVars, nodeConfig, userList, table, rules,
                   fetched, canceled, failed>>

-----------------------------------------------------------------------------
(* FetchUsers and applyUsers.                                              *)

UsersUnchanged ==
    /\ Step("users") /\ ~canceled /\ available
    /\ usersETag = panelUsers
    /\ at' = "rules"
    /\ UNCHANGED <<panelVars, etagVars, nodeVars, nodeConfig, runningConfig,
                   userList, table, rules, fetched, booting, canceled, failed>>

\* Wrong variant: the node server gets the new list before the table.
UsersFetchedNodeFirst ==
    /\ Step("users") /\ ~canceled /\ available
    /\ usersETag # panelUsers
    /\ usersETag' = panelUsers
    /\ fetched' = panelUsers
    /\ nodeUsers' = IF nodeServer = None THEN {} ELSE Listed(panelUsers)
    /\ at' = "table"
    /\ UNCHANGED <<panelVars, infoETag, rulesETag, nodeServer, listening, nodeConfig,
                   runningConfig, userList, table, rules, booting, canceled, failed>>

UsersFetched ==
    /\ Step("users") /\ ~canceled /\ available
    /\ usersETag # panelUsers
    /\ usersETag' = panelUsers
    /\ fetched' = panelUsers
    /\ at' = "table"
    /\ UNCHANGED <<panelVars, infoETag, rulesETag, nodeVars, nodeConfig,
                   runningConfig, userList, table, rules, booting, canceled, failed>>

\* Wrong variant: the ETag of the last list is kept.
UsersUnavailableKeepsETag ==
    /\ Step("users") /\ ~canceled /\ ~available
    /\ fetched' = NobodyListed
    /\ at' = "table"
    /\ UNCHANGED <<panelVars, etagVars, nodeVars, nodeConfig, runningConfig,
                   userList, table, rules, booting, canceled, failed>>

\* ErrNodeUnavailable: nobody is served, and the ETag is forgotten.
UsersUnavailable ==
    /\ Step("users") /\ ~canceled /\ ~available
    /\ usersETag' = None
    /\ fetched' = NobodyListed
    /\ at' = "table"
    /\ UNCHANGED <<panelVars, infoETag, rulesETag, nodeVars, nodeConfig,
                   runningConfig, userList, table, rules, booting, canceled, failed>>

UsersError ==
    /\ Step("users")
    /\ FailedAt("rules")
    /\ UNCHANGED <<panelVars, etagVars, nodeVars, nodeConfig, runningConfig,
                   userList, table, rules, fetched, canceled, failed>>

\* Wrong variant: the list stays to be applied.
ApplyTableKeepsList ==
    /\ Step("table")
    /\ table' = TableOf(fetched, nodeConfig.limit)
    /\ userList' = fetched
    /\ at' = IF nodeServer = None THEN "rules" ELSE "node"
    /\ UNCHANGED <<panelVars, etagVars, nodeVars, nodeConfig, runningConfig,
                   rules, fetched, booting, canceled, failed>>

\* Wrong variant: the node server is not told.
ApplyTableOnly ==
    /\ Step("table")
    /\ table' = TableOf(fetched, nodeConfig.limit)
    /\ userList' = fetched
    /\ fetched' = None
    /\ at' = "rules"
    /\ UNCHANGED <<panelVars, etagVars, nodeVars, nodeConfig, runningConfig,
                   rules, booting, canceled, failed>>

\* applyUsers: the table first.
ApplyTable ==
    /\ Step("table")
    /\ table' = TableOf(fetched, nodeConfig.limit)
    /\ userList' = fetched
    /\ fetched' = None
    /\ at' = IF nodeServer = None THEN "rules" ELSE "node"
    /\ UNCHANGED <<panelVars, etagVars, nodeVars, nodeConfig, runningConfig,
                   rules, booting, canceled, failed>>

\* Then the node server, which keeps its users if its UpdateUsers fails.
ApplyNode ==
    /\ Step("node")
    /\ \/ nodeUsers' = Listed(userList) /\ UNCHANGED failed
       \/ /\ "update" \in CanFail
          /\ failed' = failed \union {"update"}
          /\ UNCHANGED nodeUsers
    /\ at' = "rules"
    /\ UNCHANGED <<panelVars, etagVars, nodeServer, listening, nodeConfig,
                   runningConfig, userList, table, rules, fetched, booting, canceled>>

-----------------------------------------------------------------------------
(* pullDetectRules, which ends a pull and precedes syncNodeServer in Start. *)

AfterRules == Goto("limit", "idle")

\* Rules that do not compile are left out.
RulesFetched ==
    /\ Step("rules") /\ ~canceled
    /\ rulesETag # panelRules
    /\ rulesETag' = panelRules
    /\ rules' = panelRules \ BadRules
    /\ AfterRules
    /\ UNCHANGED <<panelVars, infoETag, usersETag, nodeVars, nodeConfig,
                   runningConfig, userList, table, fetched, booting, canceled, failed>>

\* Not modified, or an error, which is logged.
RulesKept ==
    /\ Step("rules")
    /\ AfterRules
    /\ UNCHANGED <<panelVars, etagVars, nodeVars, nodeConfig, runningConfig,
                   userList, table, rules, fetched, booting, canceled, failed>>

-----------------------------------------------------------------------------
(* The loop and its end.                                                   *)

\* A tick; select may still take it when the context is canceled.
Tick ==
    /\ Step("idle")
    /\ at' = "config"
    /\ UNCHANGED <<panelVars, etagVars, nodeVars, nodeConfig, runningConfig,
                   userList, table, rules, fetched, booting, canceled, failed>>

Cancel ==
    /\ ~booting /\ ~canceled
    /\ canceled' = TRUE
    /\ UNCHANGED <<panelVars, etagVars, nodeVars, nodeConfig, runningConfig,
                   userList, table, rules, fetched, booting, at, failed>>

\* Wrong variant: the node server is left running.
CloseLoopOnly ==
    /\ Step("idle") /\ canceled
    /\ at' = "closed"
    /\ UNCHANGED <<panelVars, etagVars, nodeVars, nodeConfig, runningConfig,
                   userList, table, rules, fetched, booting, canceled, failed>>

\* Close, once the loop has ended.
Close ==
    /\ Step("idle") /\ canceled
    /\ listening' = listening \ {nodeServer}
    /\ at' = "closed"
    /\ UNCHANGED <<panelVars, etagVars, nodeServer, nodeUsers, nodeConfig,
                   runningConfig, userList, table, rules, fetched, booting, canceled, failed>>

\* The process exits, after Close or because Start failed.
Exited == at \in {"closed", "failed"} /\ UNCHANGED vars

Fetch == \/ ConfigUnchanged \/ ConfigFetched \/ ConfigInvalid \/ ConfigError
         \/ UsersUnchanged \/ UsersFetched \/ UsersUnavailable \/ UsersError
         \/ RulesFetched \/ RulesKept

Sync == SyncLimit \/ SyncSame \/ SyncClose \/ SyncNone \/ RebuildFailed \/ Rebuilt

Apply == ApplyTable \/ ApplyNode

Next == PanelChange \/ Fetch \/ Sync \/ Apply \/ Tick \/ Cancel \/ Close \/ Exited

Spec == Init /\ [][Next]_vars

\* The loop keeps running.  A panel that is asked again and again answers in
\* the end, a rebuild that is tried again and again succeeds, and a select
\* with a canceled context and a tick ready takes the former in the end.
FairSpec ==
    /\ Spec
    /\ WF_vars(Fetch) /\ WF_vars(Sync) /\ WF_vars(Apply) /\ WF_vars(Tick)
    /\ SF_vars(ConfigFetched) /\ SF_vars(UsersFetched) /\ SF_vars(UsersUnavailable)
    /\ SF_vars(RulesFetched) /\ SF_vars(Rebuilt) /\ SF_vars(Close)

-----------------------------------------------------------------------------
(* Properties.                                                             *)

\* Every variable has its type; there is a config once Start has fetched one, and
\* a fetched user list exactly until applyUsers has stored it.
TypeOK ==
    /\ panelInfo \in Info /\ panelUsers \in List /\ panelRules \in SUBSET Rules
    /\ available \in BOOLEAN /\ changes \in 0 .. MaxChanges
    /\ infoETag \in Info \union {None}
    /\ usersETag \in List \union {None}
    /\ rulesETag \in (SUBSET Rules) \union {None}
    /\ nodeConfig \in Info \union {None}
    /\ nodeConfig = None => booting /\ at \in {"config", "failed"}
    /\ runningConfig \in Info \union {None}
    /\ userList \in List /\ table \in List
    /\ nodeServer \in Listeners \union {None}
    /\ nodeUsers \in SUBSET Users /\ listening \in SUBSET Listeners
    /\ rules \in SUBSET Rules
    /\ fetched \in List \union {None}
    /\ fetched # None <=> at = "table"
    /\ booting \in BOOLEAN /\ canceled \in BOOLEAN /\ failed \subseteq CanFail
    /\ at \in {"config", "limit", "sync", "create", "users", "table", "node",
               "rules", "idle", "closed", "failed"}

\* An ETag the client will send stands for something that was applied, so
\* that a 304 never hides an answer that was not: a config that did not
\* parse, or the list of before the panel stopped serving users
\* (FetchNodeConfig and FetchUsers clear the ETags there).
ETagMeansApplied ==
    /\ infoETag # None => nodeConfig = infoETag
    /\ usersETag # None /\ fetched = None => userList = usersETag
    /\ rulesETag # None => rules = rulesETag \ BadRules

\* "A new one must be routable as soon as it authenticates", and "a removed
\* user must stop routing before the node server stops authenticating them"
\* (applyUsers), also when a rebuild or a failed update came in between.
NodeFollowsTable ==
    [][\A u \in Users :
          /\ u \in nodeUsers' \ nodeUsers => table'[u] # None
          /\ u \in nodeUsers \ nodeUsers' /\ nodeServer' # None => table[u] = None]_vars

\* There is one listener at most, the one Server.nodeServer stands for; it
\* runs the settings runningConfig records, the latest ones once a sync is
\* over, and Close leaves none behind, whatever rebuilds failed before.
OneListener ==
    /\ listening = IF at = "closed" THEN {} ELSE {nodeServer} \ {None}
    /\ nodeServer = None <=> runningConfig = None
    /\ nodeServer # None => nodeServer = runningConfig.listener
    /\ nodeServer # None /\ at \notin {"limit", "sync"} => runningConfig = nodeConfig

\* The node server authenticates the users that are routed, no more and no
\* less, when no pull is under way, unless its UpdateUsers failed before
\* (applyUsers, syncNodeServer).
AuthenticatesTable ==
    at = "idle" /\ nodeServer # None /\ "update" \notin failed =>
        nodeUsers = Listed(table)

Stricter(a, b) == IF {a, b} = {0} THEN 0 ELSE Min({a, b} \ {0})

\* The README: "A user gets the stricter of the node's and their own limit."
\* True of a running node server when no pull is under way.
SpeedLimitApplied ==
    at = "idle" /\ nodeServer # None => \A u \in Listed(table) :
        table[u] = Stricter(nodeConfig.limit, userList[u])

\* The same, unless a rebuild failed before: a changed limit of the node or
\* of a user applies with the pull that fetches it, also when that pull
\* rebuilds the node server or the user list is not modified.
SpeedLimitFollows == "rebuild" \notin failed => SpeedLimitApplied

Converged ==
    /\ panelInfo.listener \notin Invalid =>
          nodeConfig = panelInfo /\ nodeServer = panelInfo.listener
    /\ Listed(table) = IF available THEN Listed(panelUsers) ELSE {}
    /\ nodeServer # None => nodeUsers = Listed(table)
    /\ rules = panelRules \ BadRules

\* When the panel stops changing, the node ends up serving what it says,
\* through failed fetches, invalid settings and failed rebuilds (pullOnce;
\* "a failed rebuild is retried on the next pull").
Converges == <>[](canceled \/ at = "failed" \/ Converged)

\* A canceled server closes its listener, also the one of a rebuild that was
\* under way when it was canceled (Server.Close).
ListenerClosed == canceled ~> listening = {}
=============================================================================

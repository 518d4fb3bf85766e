---------------------------- MODULE AdminAccess ----------------------------
(***************************************************************************)
(* Who may do what through the admin API and the gateway: accounts and     *)
(* their roles, sessions, the table of routes and permissions, first       *)
(* logins by OIDC or by a trusted proxy, and the API keys of an            *)
(* application (crates/application/src/iam_service.rs, apps/server/src/    *)
(* admin.rs, authenticate_key() of pipeline.rs).  Each query is a step; a  *)
(* handler starts in the poll that has read the roles.                     *)
(***************************************************************************)
EXTENDS Integers, Sequences

CONSTANTS
  Names,         \* usernames, which are also the subjects of external accounts
  Calls,         \* HTTP calls under way at once
  TrustsHeader,  \* AuthConfig::trusted_header_user
  MaxTokens,     \* bound of the model: sessions issued
  MaxKeys,       \* bound of the model: API keys created
  SessionTtl,    \* SESSION_TTL, in ticks
  MaxTime        \* bound of the model: ticks

VARIABLES
  accounts,  \* users and user_roles, by name; by = "none" when there is none
  sessions,  \* IamService::sessions: what is known of each token issued
  app,       \* applications.status, "gone" after its deletion
  keys,      \* api_keys of the application, in the order of their creation
  now,       \* the clock
  call,      \* what each call is doing, with its locals
  last       \* history: the handler the last step started for an account or a key, if any

vars == <<accounts, sessions, app, keys, now, call, last>>

-----------------------------------------------------------------------------
(* SYSTEM_ROLES.                                                           *)

AllOf(write) ==
  {"provider.read", "provider.write", "model.write", "virtual_model.write",
   "application.write", "api_key.create", "usage.read", "audit.read", "prompt.write",
   "kb.write", "agent.write", "tool.register", "eval.run"} \union write

Permissions ==
  [super_admin |-> AllOf({"security.manage", "user.manage"}),
   ai_admin |-> AllOf({}),
   security_auditor |-> {"provider.read", "usage.read", "audit.read"},
   developer |-> {"usage.read", "prompt.write", "eval.run"},
   end_user |-> {}]
Roles == DOMAIN Permissions

\* role_has_permission_static(): an account whose creation was cut has no role.
Grants(role) == IF role \in Roles THEN Permissions[role] ELSE {}

-----------------------------------------------------------------------------
(* The routes: the first segment of the path, whether the method only      *)
(* reads, and the tables the handler changes when it succeeds.             *)

Reads(resources) == [resource : resources, read : {TRUE}, changes : {{}}]
Writes(resource, changes) == [resource : {resource}, read : {FALSE}, changes : changes]

SystemRoutes ==
  Reads({"config", "runtime", "jobs"}) \union Writes("jobs", {{"jobs"}})

\* Deletion takes the models along, discovery writes models.
ProviderRoutes ==
  Reads({"providers", "provider-presets"})
  \union Writes("providers", {{"providers"}, {"providers", "models"}, {"models"}})

ModelRoutes ==
  Reads({"models", "pricing-presets"}) \union Writes("models", {{"models"}})

\* The simulation only reads.
VirtualModelRoutes ==
  Reads({"virtual-models"}) \union Writes("virtual-models", {{"virtual_models"}, {}})

ApplicationRoutes ==
  Reads({"applications", "keys"})
  \union Writes("applications", {{"applications"}, {"applications", "api_keys"}})
  \union Writes("keys", {{"api_keys"}})

UsageRoutes == Reads({"usage", "cost", "requests", "audit"})

PlaygroundRoutes == Writes("playground", {{"requests"}})

PromptRoutes ==
  Reads({"prompts"})
  \union Writes("prompts", {{"prompts"}}) \union Writes("prompt-versions", {{"prompts"}})

\* A query only reads.
KnowledgeRoutes ==
  Reads({"knowledge-bases", "documents"})
  \union Writes("knowledge-bases", {{"knowledge"}, {}}) \union Writes("documents", {{"knowledge"}})

ToolRoutes ==
  Reads({"tools", "mcp-servers"})
  \union Writes("tools", {{"tools"}}) \union Writes("mcp-servers", {{"mcp_servers"}})

AgentRoutes ==
  Reads({"agents", "agent-runs"})
  \union Writes("agents", {{"agents"}, {"agent_runs", "requests"}})
  \union Writes("agent-versions", {{"agents"}})

EvalRoutes ==
  Reads({"evals"}) \union Writes("evals", {{"evals"}, {"evals", "requests"}})

\* A scan changes no policy.
PolicyRoutes ==
  Reads({"security"}) \union Writes("security", {{"policies"}, {}})

UserRoutes ==
  Reads({"users"}) \union Writes("users", {{"users"}})

Routes ==
  SystemRoutes \union ProviderRoutes \union ModelRoutes \union VirtualModelRoutes
  \union ApplicationRoutes \union UsageRoutes \union PlaygroundRoutes \union PromptRoutes
  \union KnowledgeRoutes \union ToolRoutes \union AgentRoutes \union EvalRoutes
  \union PolicyRoutes \union UserRoutes

Permission(resource) ==
  CASE resource \in {"config", "usage", "cost", "requests"} -> "usage.read"
    [] resource = "audit" -> "audit.read"
    [] resource \in {"models", "pricing-presets"} -> "model.write"
    [] resource = "virtual-models" -> "virtual_model.write"
    [] resource = "keys" -> "api_key.create"
    [] resource = "applications" -> "application.write"
    [] resource \in {"prompts", "prompt-versions"} -> "prompt.write"
    [] resource \in {"knowledge-bases", "documents"} -> "kb.write"
    [] resource \in {"agents", "agent-versions", "agent-runs"} -> "agent.write"
    [] resource = "tools" -> "tool.register"
    [] resource \in {"mcp-servers", "security", "runtime", "jobs"} -> "security.manage"
    [] resource = "users" -> "user.manage"
    [] resource \in {"evals", "playground"} -> "eval.run"
    [] resource \in {"providers", "provider-presets"} -> "provider.read"
    [] OTHER -> "none"

\* Mutant: the method does not matter.
RequiredByPath(route) == Permission(route.resource)

\* required_permission(): "none" is refused to everybody.
Required(route) ==
  IF route.resource = "providers" /\ ~route.read THEN "provider.write"
  ELSE Permission(route.resource)

-----------------------------------------------------------------------------

Absent == [by |-> "none", role |-> "none", hash |-> "none", active |-> FALSE]
Root == "root"  \* the holder of the admin token
Idle == [pc |-> "idle", who |-> Root, by |-> "none", role |-> "none", then |-> "idle",
         token |-> 0, stale |-> FALSE]
NoHandler == [who |-> Root, changes |-> {}, stale |-> FALSE]

Init ==
  /\ accounts = [n \in Names |-> Absent]
  /\ sessions = <<>> /\ app = "active" /\ keys = <<>>
  /\ now = 0
  /\ call = [c \in Calls |-> Idle]
  /\ last = NoHandler

Become(c, pc) == call' = [call EXCEPT ![c].pc = pc]
Start(c, l) == call[c].pc = "idle" /\ call' = [call EXCEPT ![c] = l]
Forget == last' = NoHandler

\* Every query may fail, and every check may refuse: the call ends.
Refuse(c) ==
  /\ call[c].pc # "idle"
  /\ call' = [call EXCEPT ![c] = Idle]
  /\ Forget /\ UNCHANGED <<accounts, sessions, app, keys, now>>

-----------------------------------------------------------------------------
(* Sessions.  A token that was logged out or lost in a restart keeps its   *)
(* place with live = FALSE.                                                *)

\* Mutant: a token is good for ever.
UnexpiredAlways(t) == sessions[t].live

Unexpired(t) == sessions[t].live /\ sessions[t].expires > now

Good(t) == sessions[t].live /\ sessions[t].expires > now /\ accounts[sessions[t].who].active

ArriveWithToken(c, t) ==
  /\ t \in DOMAIN sessions
  /\ Start(c, [Idle EXCEPT !.pc = "session", !.token = t, !.stale = ~Good(t)])
  /\ Forget /\ UNCHANGED <<accounts, sessions, app, keys, now>>

\* session_user() up to the unlock.
ReadSession(c) ==
  /\ call[c].pc = "session" /\ Unexpired(call[c].token)
  /\ call' = [call EXCEPT ![c].pc = "user", ![c].who = sessions[call[c].token].who,
                          ![c].then = "roles"]
  /\ Forget /\ UNCHANGED <<accounts, sessions, app, keys, now>>

\* The account is read, and a disabled one is refused.
ReadAccount(c) ==
  /\ call[c].pc = "user" /\ accounts[call[c].who].active
  /\ Become(c, call[c].then)
  /\ Forget /\ UNCHANGED <<accounts, sessions, app, keys, now>>

Login(c, n) ==
  /\ Start(c, [Idle EXCEPT !.pc = "login", !.who = n])
  /\ Forget /\ UNCHANGED <<accounts, sessions, app, keys, now>>

\* login(): the account is active when it is read, and the password is right;
\* a legacy hash is replaced before the session is issued.
VerifyPassword(c) ==
  LET account == accounts[call[c].who] IN
  /\ call[c].pc = "login" /\ account.active /\ account.hash # "none"
  /\ Become(c, IF account.hash = "legacy" THEN "upgrade" ELSE "issue")
  /\ Forget /\ UNCHANGED <<accounts, sessions, app, keys, now>>

Upgrade(c) ==
  /\ call[c].pc = "upgrade"
  /\ accounts' = [accounts EXCEPT ![call[c].who].hash = "argon2id"]
  /\ Become(c, "issue")
  /\ Forget /\ UNCHANGED <<sessions, app, keys, now>>

IssueSession(c) ==
  /\ call[c].pc = "issue" /\ Len(sessions) < MaxTokens
  /\ sessions' = Append(sessions,
       [who |-> call[c].who, expires |-> now + SessionTtl, live |-> TRUE])
  /\ call' = [call EXCEPT ![c] = Idle]
  /\ Forget /\ UNCHANGED <<accounts, app, keys, now>>

Logout(t) ==
  /\ t \in DOMAIN sessions
  /\ sessions' = [sessions EXCEPT ![t].live = FALSE]
  /\ Forget /\ UNCHANGED <<accounts, app, keys, now, call>>

-----------------------------------------------------------------------------
(* Accounts.                                                               *)

\* An id_token that has been verified, or a trusted proxy's header.
ArriveWithIdentity(c, n, by) ==
  /\ by = "oidc" \/ TrustsHeader
  /\ Start(c, [Idle EXCEPT !.pc = "subject", !.who = n, !.by = by, !.role = "end_user",
                 !.then = IF by = "oidc" THEN "issue" ELSE "roles",
                 !.stale = accounts[n].by = by /\ ~accounts[n].active])
  /\ Forget /\ UNCHANGED <<accounts, sessions, app, keys, now>>

\* get_by_subject(): a known identity is as good as its account; of another
\* provider's account nothing is found.
FindSubject(c) ==
  LET account == accounts[call[c].who] IN
  /\ call[c].pc = "subject"
  /\ IF account.by = call[c].by
     THEN account.active /\ Become(c, call[c].then)
     ELSE Become(c, "create")
  /\ Forget /\ UNCHANGED <<accounts, sessions, app, keys, now>>

\* Usernames are unique, whoever vouches for them.
CreateAccount(c) ==
  /\ call[c].pc = "create" /\ accounts[call[c].who].by = "none"
  /\ \E hash \in IF call[c].by = "local" THEN {"none", "argon2id"} ELSE {"none"} :
       accounts' = [accounts EXCEPT ![call[c].who] =
         [by |-> call[c].by, role |-> "none", hash |-> hash, active |-> TRUE]]
  /\ Become(c, "assign")
  /\ Forget /\ UNCHANGED <<sessions, app, keys, now>>

AssignRole(c) ==
  /\ call[c].pc = "assign"
  /\ accounts' = [accounts EXCEPT ![call[c].who].role = call[c].role]
  /\ IF call[c].then = "idle" THEN call' = [call EXCEPT ![c] = Idle]
     ELSE Become(c, call[c].then)
  /\ Forget /\ UNCHANGED <<sessions, app, keys, now>>

\* set_status(): the administration of the database, as the tests use it.
Disable(n) ==
  /\ accounts[n].active
  /\ accounts' = [accounts EXCEPT ![n].active = FALSE]
  /\ Forget /\ UNCHANGED <<sessions, app, keys, now, call>>

\* set_password_hash(): a record of the time before argon2id, likewise.
RestoreLegacyHash(n) ==
  /\ accounts[n].hash = "argon2id"
  /\ accounts' = [accounts EXCEPT ![n].hash = "legacy"]
  /\ Forget /\ UNCHANGED <<sessions, app, keys, now, call>>

-----------------------------------------------------------------------------
(* Handlers.                                                               *)

Started(c, changes) ==
  last' = [who |-> call[c].who, changes |-> changes, stale |-> call[c].stale]

\* The handlers that change what this module keeps.
CreateUser(c, n, role) ==
  /\ role \in Roles
  /\ call' = [call EXCEPT ![c] = [Idle EXCEPT !.pc = "create", !.who = n, !.by = "local",
                                              !.role = role]]
  /\ UNCHANGED <<accounts, sessions, app, keys, now>>

\* Nothing but the application's status is in the way of a call.
GoodKey(k) == k \in DOMAIN keys /\ ~keys[k].revoked /\ keys[k].expires > now
OnlyStopped(d) == call[d].pc = "app" \/ (call[d].pc = "key" /\ GoodKey(call[d].token))

UpdateApplication(c, status) ==
  /\ app # "gone" /\ app' = status
  /\ keys' = IF status = "gone" THEN <<>> ELSE keys
  /\ call' = [d \in Calls |-> IF d = c THEN Idle
              ELSE [call[d] EXCEPT !.stale = @ /\ ~(status = "active" /\ OnlyStopped(d))]]
  /\ UNCHANGED <<accounts, sessions, now>>

CreateKey(c, expires) ==
  /\ app # "gone" /\ Len(keys) < MaxKeys
  /\ keys' = Append(keys, [revoked |-> FALSE, expires |-> expires])
  /\ call' = [call EXCEPT ![c] = Idle]
  /\ UNCHANGED <<accounts, sessions, app, now>>

RevokeKey(c, k) ==
  /\ k \in DOMAIN keys
  /\ keys' = [keys EXCEPT ![k].revoked = TRUE]
  /\ call' = [call EXCEPT ![c] = Idle]
  /\ UNCHANGED <<accounts, sessions, app, now>>

Effect(c, changes) ==
  \/ changes = {"users"} /\ \E n \in Names, role \in Roles : CreateUser(c, n, role)
  \/ changes = {"applications"} /\ \E s \in {"active", "disabled"} : UpdateApplication(c, s)
  \/ changes = {"applications", "api_keys"} /\ UpdateApplication(c, "gone")
  \/ changes = {"api_keys"} /\ \/ \E e \in 1 .. MaxTime + 1 : CreateKey(c, e)
                               \/ \E k \in 1 .. MaxKeys : RevokeKey(c, k)
  \/ /\ changes \notin {{"users"}, {"applications"}, {"applications", "api_keys"}, {"api_keys"}}
     /\ call' = [call EXCEPT ![c] = Idle]
     /\ UNCHANGED <<accounts, sessions, app, keys, now>>

\* has_permission(), then the handler.
Handle(c, route) ==
  /\ call[c].pc = "roles"
  /\ Required(route) \in Grants(accounts[call[c].who].role)
  /\ Started(c, route.changes)
  /\ Effect(c, route.changes)

\* The admin token opens every route.
HandleAsRoot(c, route) ==
  /\ call[c].pc = "idle"
  /\ Forget
  /\ Effect(c, route.changes)

-----------------------------------------------------------------------------
(* The gateway: authenticate_key().                                        *)

ArriveWithKey(c, k) ==
  /\ k \in DOMAIN keys \/ app = "gone"
  /\ Start(c, [Idle EXCEPT !.pc = "key", !.token = k,
                           !.stale = ~(GoodKey(k) /\ app = "active")])
  /\ Forget /\ UNCHANGED <<accounts, sessions, app, keys, now>>

\* get_by_prefix(), is_active(): the row is known, not revoked and in time.
ReadKey(c) ==
  /\ call[c].pc = "key" /\ GoodKey(call[c].token)
  /\ Become(c, "app")
  /\ Forget /\ UNCHANGED <<accounts, sessions, app, keys, now>>

Admit(c) ==
  /\ call[c].pc = "app" /\ app = "active"
  /\ Started(c, {})
  /\ call' = [call EXCEPT ![c] = Idle]
  /\ UNCHANGED <<accounts, sessions, app, keys, now>>

-----------------------------------------------------------------------------

Tick ==
  /\ now < MaxTime /\ now' = now + 1
  /\ Forget /\ UNCHANGED <<accounts, sessions, app, keys, call>>

\* Sessions and calls live in memory.
Restart ==
  /\ sessions' = [t \in DOMAIN sessions |-> [sessions[t] EXCEPT !.live = FALSE]]
  /\ call' = [c \in Calls |-> Idle]
  /\ Forget /\ UNCHANGED <<accounts, app, keys, now>>

Next ==
  \/ \E c \in Calls :
       \/ Refuse(c) \/ ReadSession(c) \/ ReadAccount(c)
       \/ VerifyPassword(c) \/ Upgrade(c) \/ IssueSession(c)
       \/ FindSubject(c) \/ CreateAccount(c) \/ AssignRole(c)
       \/ ReadKey(c) \/ Admit(c)
       \/ \E t \in 1 .. MaxTokens : ArriveWithToken(c, t)
       \/ \E n \in Names : Login(c, n) \/ \E by \in {"oidc", "trusted_header"} : ArriveWithIdentity(c, n, by)
       \/ \E k \in 1 .. MaxKeys : ArriveWithKey(c, k)
       \/ \E route \in Routes : Handle(c, route) \/ HandleAsRoot(c, route)
  \/ \E t \in 1 .. MaxTokens : Logout(t)
  \/ \E n \in Names : Disable(n) \/ RestoreLegacyHash(n)
  \/ Tick \/ Restart

Spec == Init /\ [][Next]_vars

-----------------------------------------------------------------------------
(* Properties.                                                             *)

\* However accounts come to be and whatever they ask for, an account changes
\* only what its role is for: an auditor and a person the hub has met at a
\* first login change nothing, a developer prompts, evaluations and the
\* requests they make, an AI administrator all but what reaches the server
\* itself and its users (SYSTEM_ROLES, required_permission() and what the
\* handlers do, three lists that nothing keeps together; the test
\* management_permissions_are_enforced_for_every_role samples five routes).
Developing == {"prompts", "evals", "requests"}
Administering ==
  Developing \union {"providers", "models", "virtual_models", "applications", "api_keys",
                     "knowledge", "tools", "agents", "agent_runs"}
ItsOwn(role) ==
  CASE role = "super_admin" -> Administering \union {"mcp_servers", "policies", "users", "jobs"}
    [] role = "ai_admin" -> Administering
    [] role = "developer" -> Developing
    [] OTHER -> {}
RolesGovernChanges ==
  last.who # Root => last.changes \subseteq ItsOwn(accounts[last.who].role)

\* A call that arrives after its credential has ended is not served, although
\* the credential is looked up in several steps: a session that was logged out,
\* has expired, was lost in a restart or belongs to a disabled account, a key
\* that was revoked or has expired, an application that is not active
\* ("revoked and expired keys are refused at once", pipeline.rs:192).
CredentialsEnd == ~last.stale
=============================================================================

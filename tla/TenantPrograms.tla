--------------------------- MODULE TenantPrograms ---------------------------
(***************************************************************************)
(* What the endpoints of src/app/api and the jobs of src/app/workers do    *)
(* with sessions and tenants, as programs of TenantScope: which session    *)
(* each statement runs in, what each commit makes durable, what is open    *)
(* around it.  A commit stands for what was added to its session since the *)
(* transaction began.                                                      *)
(***************************************************************************)
EXTENDS TenantScope

Do(op) == <<[do |-> op, rows |-> {}]>>
Commits(rows) == <<[do |-> "commit", rows |-> rows]>>

WithTenant(body) == Do("context") \o body \o Do("end")
TenantSession(body) == Do("tenant") \o body \o Do("end")
AdminSession(body) == Do("admin") \o body \o Do("end")
Guarded(body) == Do("try") \o body \o Do("end")

(* get_current_user and get_current_tenant, then the endpoint. *)
Authenticated(body) ==
  Do("authenticate") \o TenantSession(Do("load")) \o AdminSession(Do("root")) \o body \o Do("end")

(* The changes of a tenant's row go through an admin session; their entry  *)
(* in the audit log follows in a tenant session.                           *)
ChangeTenant == AdminSession(Do("root") \o Commits({"tenant"}))
LogEntry == TenantSession(Commits({"log"}))

-----------------------------------------------------------------------------
(* Mutant: the entry of the audit log has a session of its own. *)
MutDisableAgent == Authenticated(TenantSession(Do("load") \o Commits({"row"})) \o LogEntry)

ListAgents == Authenticated(TenantSession(Do("look")))
UpdateAgent == Authenticated(TenantSession(Do("load") \o Commits({"row", "log"}) \o Do("refresh")))
DisableAgent == Authenticated(TenantSession(Do("load") \o Commits({"row", "log"})))

(* create() and one call of the LLM: the budget is queried and the call    *)
(* recorded in sessions of their own, the record's failure is swallowed.   *)
CreateClient == AdminSession(Do("root"))
MeteredCall ==
  WithTenant(TenantSession(Do("look"))) \o Do("call")
    \o Guarded(WithTenant(TenantSession(Commits({"row"}))))

TestAgent ==
  Authenticated(TenantSession(Do("load") \o CreateClient \o MeteredCall \o Do("rollback")))

ListConversations == Authenticated(TenantSession(Do("look") \o Do("look")))
GetConversation == Authenticated(TenantSession(Do("load") \o Do("look")))
HumanMessage == Authenticated(TenantSession(Do("load") \o Commits({"row", "log"}) \o Do("refresh")))
EscalateConversation == Authenticated(TenantSession(Do("load") \o Commits({"row", "log"})))
CloseConversation == Authenticated(TenantSession(Do("load") \o Commits({"row", "log"})))

UpdateTenant ==
  Authenticated(AdminSession(Do("root") \o Commits({"tenant"}) \o Do("root")) \o LogEntry)
SwitchTenant == Authenticated(ChangeTenant \o LogEntry)
ChangeKey == Authenticated(Do("call") \o ChangeTenant \o LogEntry)
Usage == Authenticated(TenantSession(Do("look")))

(* Mutant: the tenant of the state parameter is not made the context. *)
MutConnectInstagram == Do("call") \o ChangeTenant \o LogEntry

ConnectInstagram == Do("call") \o ChangeTenant \o WithTenant(LogEntry)
DisconnectInstagram == Authenticated(ChangeTenant \o WithTenant(LogEntry))

Register ==
  AdminSession(Do("root") \o Do("look") \o Do("set_config") \o Commits({"tenant", "row"})
               \o Do("refresh"))
Login == AdminSession(Do("load")) \o AdminSession(Do("root"))
RefreshToken == AdminSession(Do("load"))

(* Customer and conversation are found or made, the message is stored.     *)
ReceiveMessage ==
  AdminSession(Do("root") \o Do("may_return") \o Do("look") \o Commits({"row"}) \o Do("call"))

-----------------------------------------------------------------------------
(* A tool that looks products up tells the LLM of its failure.             *)
LookUpProduct == Guarded(WithTenant(TenantSession(Do("look"))))

RunAgents ==
  TenantSession(Do("look") \o CreateClient \o Do("look") \o Do("may_return") \o MeteredCall
                \o LookUpProduct \o Commits({"row", "log"}))
StoreReply == WithTenant(TenantSession(Commits({"row"})))
SendReply == Guarded(CreateClient \o Do("call"))

HandleMessage ==
  Guarded(AdminSession(Do("root")) \o Do("may_return")
          \o WithTenant(RunAgents \o StoreReply \o SendReply) \o Do("return"))
    \o Guarded(WithTenant(LogEntry))

(* Mutant: the safety job pauses in the session of its checks. *)
MutPauseTenant == Do("root") \o Commits({"tenant"})

(* The safety job's pause is committed on its own, the entry of the audit  *)
(* log with the rest of the checks.                                        *)
PauseTenant == ChangeTenant

CheckTenant(pause) ==
  Guarded(WithTenant(TenantSession(Do("look") \o pause \o Do("look") \o Commits({"row", "log"}))))

SafetyChecks == AdminSession(Do("root")) \o CheckTenant(PauseTenant) \o Do("turn") \o CheckTenant(<<>>)

Programs ==
  [list_agents |-> ListAgents, update_agent |-> UpdateAgent, disable_agent |-> DisableAgent,
   test_agent |-> TestAgent, list_conversations |-> ListConversations,
   get_conversation |-> GetConversation, human_message |-> HumanMessage,
   escalate |-> EscalateConversation, close |-> CloseConversation,
   update_tenant |-> UpdateTenant, switch_tenant |-> SwitchTenant, change_key |-> ChangeKey,
   usage |-> Usage, connect |-> ConnectInstagram, disconnect |-> DisconnectInstagram,
   register |-> Register, login |-> Login, refresh_token |-> RefreshToken,
   receive |-> ReceiveMessage, handle_message |-> HandleMessage, safety_checks |-> SafetyChecks]

ASSUME ProgramsAssumption == \A w \in Work : w \in DOMAIN Programs /\ Program[w] = Programs[w]

-----------------------------------------------------------------------------
(* Those that look at scoped rows without a tenant: with the policies on   *)
(* they find nothing, or fail.                                             *)
Unscoped == {"login", "refresh_token", "receive", "register"}

(* No other request or job, except to refresh a row behind the commit of   *)
(* its session, ever runs a statement on scoped rows in a transaction that *)
(* is not its tenant's, whatever was committed, swallowed or nested before *)
(* (set_config is local to the session's first transaction): with the      *)
(* policies on it would see an empty database.                             *)
NeverBlind ==
  \A t \in Tasks :
    /\ work[t] \notin Unscoped
    /\ At(t, "look") \/ At(t, "load") \/ (At(t, "commit") /\ ~Head(steps[t]).rows \subseteq {"tenant"})
    => Top(t).conn # NoConn /\ guc[Top(t).conn] = subject[t]

(* A session is only opened in the context of the task's own tenant, also  *)
(* behind nested contexts that were left, by their end or an exception:    *)
(* get_tenant_session never raises "No tenant_id in context".              *)
OpenedInContext == \A t \in Tasks : At(t, "tenant") => ctx[t] = subject[t]

Endpoints == {"update_agent", "disable_agent", "human_message", "escalate", "close",
              "update_tenant", "switch_tenant", "change_key", "connect", "disconnect"}

(* An endpoint's change of a scoped row is durable with its entry in the   *)
(* audit log or not at all; its change of the tenant's row has one when it *)
(* answers without an error.                                               *)
Logged ==
  \A t \in Tasks : work[t] \in Endpoints =>
    /\ "row" \in durable[t] => "log" \in durable[t]
    /\ steps[t] = <<>> /\ ~failed[t] => "log" \in durable[t]

(* A task that has ended, however it did, has left its context and given   *)
(* its connections back.                                                   *)
NothingLeft ==
  \A t \in Tasks : steps[t] = <<>> => blocks[t] = <<>> /\ ctx[t] = NoTenant /\ Held(t) = {}

(* Every request and job ends, although each may hold a connection while   *)
(* it waits for another.                                                   *)
TasksEnd == \A t \in Tasks : <>(steps[t] = <<>>)
=============================================================================

# channel-agents: specification and proofs

TLA+ models of the backend in `src/app`: a multi-tenant service in which LLM
agents answer customers on Telegram and Instagram. Each tenant has a kill
switch, a daily LLM budget and agents with an autonomy level; the models are
about what concurrent requests, jobs and failures do to those promises.

## 1. The system

| Component | State it keeps | Operations | What makes it correct |
|---|---|---|---|
| Webhook routes (`api/v1/webhooks.py`) | none; one request, one database session | receive an update, answer 200 or 500 | a 200 only for what is queued |
| Telegram and Instagram handlers (`integrations/*/webhook_handler.py`) | rows of `conversations`, `customers`, `messages`; jobs in Redis | find or create conversation and customer, redeem a handoff token, store the message, enqueue its job | a job only for a stored message; each message gets its job, and no more of them than it was delivered for |
| Customer service (`services/customer_service.py`) | `customers`, `customer_handoffs` | find or insert a customer; create and redeem a handoff | one customer per handle; a token redeemed once |
| Message worker (`workers/tasks/handle_incoming_message.py`, `arq_app.py`) | assistant rows, audit log | one job per message: kill switch, agents, LLM, store reply, send | stored before sent; not answered twice; drafts stay inside; a paused tenant's jobs stop |
| Orchestrator, specialists, comment responder (`agents/`) | none between jobs | route, call specialists and tools, aggregate | bounded rounds; escalation is not lost |
| LLM metering client (`integrations/anthropic_client.py`) | rows of `llm_calls` | check the budget, call with retries, stream, record | bounded overspend; every charge accounted for; ends |
| Safety job (`workers/tasks/safety_job.py`) | the tenant's status, `agents.enabled`, audit log | every five minutes: pause at 95% of the budget or at an error rate, disable failing agents | what it watches for is stopped in the end, whatever fails |
| Tenant control (`api/v1/tenants.py`, `api/deps.py`) | control columns of `tenants` | pause, resume, set and delete the BYOK key | a kill switch is released by a deliberate resume only |
| Agent endpoints (`api/v1/agents.py`) | `agents.enabled`, `autonomy_level` | update, disable, test | a change and its audit entry go together |
| Conversation service and endpoints | `messages`, `conversations.status` | add a message, history, escalation, close | a job's agents are shown every message but the one they answer |
| Tenant isolation (`db/session.py`, `core/tenant_context.py`, RLS policies) | a setting per transaction, a context variable per task, the pool | open a session for a tenant or for administration | no query under another tenant, none without one; nothing left behind |
| Instagram client, OAuth | tokens | send with retries | repeated posts stay bounded |
| Registration and login | `tenants`, `users` | register, log in | as for tenant isolation |

How they interact:

    provider --POST--> webhook handler --commit--> PostgreSQL <--queries-- safety job (cron)
       ^                     |                        ^  ^                        |
       |                     +--enqueue--> Redis      |  +-- tenant control <--- owner
       |                                     |        |
       +-------- Telegram/Instagram API <-- worker job --> metering client --> LLM provider

What is hard here: requests, jobs and the cron run as coroutines in several
processes that share nothing but PostgreSQL rows read and written without locks
or version checks (READ COMMITTED); every `await` is a point where another one
runs; a transaction, a call or a process can fail between any two of them;
providers deliver again what was not answered, and arq runs again what was in
progress when its worker stopped. `PROJECT.json` lists the hazards line by line.

## 2. The modules

| Module | Models | MC module, configurations |
|---|---|---|
| `LlmSpend` | the metering client of one tenant under concurrent callers | `MCLlmSpend`; `LlmSpend.cfg`, `LlmSpendDecimal.cfg` |
| `TenantControl` | the tenant's row and its writers | `MCTenantControl`; `TenantControl.cfg`, `TenantControlKey.cfg` |
| `SafetyJob` | the cron job over several tenants, and what changes under it | `MCSafetyJob`; `SafetyJob.cfg`, `SafetyJobTrial.cfg` |
| `MessageWorker` | a message from its job's enqueueing to the acknowledgement | `MCMessageWorker`; `MessageWorker.cfg` |
| `Answers` | abstract: what the worker promises about the answers to messages | - |
| `WorkerAnswers` | `MessageWorker`'s jobs as the runs of `Answers` | - (in `MessageWorker.cfg`) |
| `AgentPipeline` | a job's agents: history, orchestrator, specialists, tool rounds | `MCAgentPipeline`; `AgentPipeline.cfg` |
| `Inbound` | the webhooks, from delivery to the 200 | `MCInbound`; `Inbound.cfg`, `InboundStart.cfg`, `InboundAnswered.cfg` |
| `TenantScope` | contexts, sessions, transactions, the pool and the policies, under any programs | - |
| `TenantPrograms` | every endpoint and job as a program of `TenantScope` | `MCTenantScope`; `TenantScope.cfg` |
| `LlmSpendProofs`, `TenantControlProofs`, `SafetyJobProofs`, `MessageWorkerProofs`, `AgentPipelineProofs`, `InboundProofs`, `TenantScopeProofs`, `TenantProgramsProofs` | theorems about the modules above | - |

`AgentPipeline` instantiates `MessageWorker` to show that it is the job that
module assumes, and `WorkerAnswers` instantiates `Answers` to show that the worker
implements it; so the agents, the job and what customers see of it are three levels
of one system. The others stand alone; where one needs another's component it
has it as an environment action: the owner's and the safety job's writes to the tenant are
`SwitchTenant` in `MessageWorker` and `Inbound` and `OwnerSwitches` in
`SafetyJob`. In `SwitchTenant` all four rows are allowed that racing requests can
leave in `TenantControl`; `OwnerSwitches` has the two that a request leaves when it
runs alone: the other two combine the same statuses with the other `enabled`, and
the safety job reads nothing of the row but `status`.

An action is the stretch of code around one effect that other processes can see: a
query that is answered, a commit, a call. What lies between two effects and only
moves the actor itself is part of one of them, such as the closing of a session or a
decision on what a query has answered: `Admit` of `TenantControl` is query,
closing and check, `Start` of `SafetyJob` query and closing, `Store` of `Inbound`
insert and commit (nobody sees a row before its commit), and `PauseTenant` of
`SafetyJob` select and commit (`TenantControl` has that race, as `auto_pause`). Where
a property speaks of who is past a check, the answer of the query and the check are
two actions, for others run while the session is closed: `ReadSum` and `CheckBudget`
of `LlmSpend`, `ReadTenant` and `CheckTenant` of `MessageWorker`. Operators named `Mut...` are the mutants listed in `PROJECT.json`: faulty
versions of the definition below them that show a property can fail. They are
not part of a specification.

### LlmSpend

`chat[c]` is where the chat of caller `c` stands: `check` (in `_check_budget`,
the sum not answered yet, with `today` computed before), `compare` (the sum is
answered, its session is being closed), `ready` (a generator not iterated), `call`
(in `_call_with_retry` or a stream), `write` (in `finally`), `commit` (in the
transaction of the row, which dates it). `spent` is the sum over `llm_calls` per UTC
day. `attempt` counts tenacity's attempts that failed, `sent` the requests that the
SDK has made again for the present one; each request may be charged, also if no
answer comes (`Resend`, `Retry`, `BreakOff`). A call that is answered is recorded at
what `_compute_cost` makes of its tokens, which is 0 for a model without a price;
an agent's model is whatever its owner sets. `billed` and `lost` are ghosts: what
the provider charged, and the part that no row will ever show. `DecimalBudget`
says whether the budget is a `Decimal`, as `create()` loads it, or the float of
a caller of `__init__`: with the first, the soft warning raises (see the
findings), so the properties of the meter itself are checked with the second.

### TenantControl

A writer (`pause`, `resume`, `set_key`, `delete_key`, the safety job's
`auto_pause`) is admitted, loads the row, and commits an UPDATE of the columns
whose assigned value differs from the loaded one (`Dirty`), as SQLAlchemy's unit
of work does; its audit entry is a later transaction. A tenant can be suspended
by the platform, which nothing in the repository does but `get_current_tenant`
checks for.

### SafetyJob

`job` is the run in progress: the tenants still listed, the one being checked,
the agents loaded and those disabled in the open session (`off`), which are
committed at the end while the pause is committed at once. `calls` is the
`llm_calls` table of a tenant, `recent` and `today` say how many of its last
rows the two windows hold. A row is a success at `CallCost` or a failure at no
cost; a cancelled call, which the code records as a success at cost 0, would
only lower the error rate and is left out. A budget of zero raises
`ZeroDivisionError` in the percentage, which is modelled.

### MessageWorker

`job[m]` follows one message through the awaits of `_process`. In `pass` and `drop`
the tenant's row has been read and the session is being closed; the check that
follows goes by what was read, so a kill switch thrown meanwhile is not seen. An
agent's work
is its number of LLM calls and its output: `escalate`, and `texts`, how many
posts it takes (a comment may be answered in public and in private). The level
of the agent is chosen where it is read, in `LoadAgents`, which allows any
change by the owner before. Telegram's errors are raised to the task;
`InstagramClient._request` posts again after a 429 or a 5xx (`SendAgain`, up to
`MaxTries` attempts), although a server that answered 5xx may have carried the
post out, and errors of the last attempt are only logged. `Timeout` is arq's
`job_timeout`, whose `CancelledError` passes `except Exception`; `Restart` is a
worker that stops with jobs in progress. A comment is answered whatever the
level of its agent, although `agents/comment_responder.py:23` lists "0=draft
only"; `DraftsStayHome` is therefore about private messages.

### Answers and WorkerAnswers

What is left of a job when its inside is hidden: a run waits, is admitted past the
kill switch (`Admit`), comes to its answer once (`Answer`, a private one with its row
or with nothing to post), uses up the posts it may make (`Post`), and closes; the end
of any await may close it (`Close`). `may` is what the run may still post, as
`InstagramClient._request` may post one text several times. A worker that stops makes
what arq has not recorded begin again (`Rerun`), never what is over. `WorkerAnswers`
is the refinement mapping: `Stage` puts the awaits of a job together (a run is admitted when it reads the row),
`May` of `MessageWorker` is computed from the texts and attempts the job holds. The agents of a job and its audit entry have no
counterpart.

### AgentPipeline

One job from `ReadHistory` over `Route` (the orchestrator's LLM call) to
`Conclude` (its output, and the worker's commit). `thread` holds the roles of
the conversation's rows, ordered by `created_at`; until the history is read,
`AddRow` inserts rows of other requests and jobs anywhere, as a row is dated by
the start of its transaction. `mine` is the row the job is to answer. `Trimmed`
and `Shown` are `history[:-1]` (when the last row is a user's) and the limits of
the queries and of the orchestrator. An operator's row has the role `agent`,
which the provider may refuse: `Fail`. Replies that escalate are stored as the
assistant's rows although they are not sent. `todo` and `taken` are the loop over the routing
decisions; `round`, `words`, `asked` and `cards` stand for the locals of
`ConversationAgent.handle`; `result` is what `_aggregate` would return for the
outputs so far. The LLM is unconstrained: any decisions, text or none, any tools,
in every round. A text is there or missing: `words` says that the local history
holds one of the assistant's, of the context history (`past`) or written by this
call, which is what `_extract_text_from_history` finds. Which of them the answer
gives is not told apart: the code may repeat a past text when the call wrote none,
also if an earlier call of the job had written one. `HandOff` is
`suggest_telegram_handoff`: `link` says whether the LLM was given links with a token
and whether their rows are still there, `broken` that an insert failed, whose
exception is swallowed and has left the job's session without a way to commit. The content
agent and the lead qualifier are stubs in the code too, without an LLM call. The
lead qualifier does not look at its autonomy level. Cutting a job off is left to
`MessageWorker`'s `Timeout`.

`WorkerJob` maps this state to the record `job[m]` of `MessageWorker`:
`StepsOfWorker` says that every step is an LLM call, a failure or the decision of
that module, or leaves the record as it is.

### Inbound

`req[u][s]` is a delivery of update `u` (slot 2 for one that overlaps another).
An Instagram update has several events, handled in turn, each in a transaction
of its own. `newConv` and `newCust` are rows inserted in the open transaction;
they become visible in `Store`, which commits. The unique index on customers
makes an insert wait for an open one and then fail; conversations have none, so
`convs` is a count, and a count above one makes `scalar_one_or_none` raise.
Telegram delivers again for ever, Meta gives up after `MaxTries`. Chats
are private ones. Row-level security is left out: the webhooks use admin
sessions, which see these tables only under a database role that bypasses it, as
the one of `docker-compose.dev.yml` does (`TenantScope` has both cases).

### TenantScope and TenantPrograms

A task is a request or a job: a sequence of `steps`, each up to the next await,
with a stack of `blocks` (tenant contexts, sessions, `try`) it has entered. `ctx`
is its context variable, `guc` the setting `app.tenant_id` in the open
transaction of each connection. `set_config(..., is_local=true)` ends with the
transaction (`EndTransaction`), so what follows a commit in a session runs
without a tenant, on whatever connection the pool gives it (`Usable`). Any
statement or call may fail (`Fails`), a pool without a free connection raises
after its timeout (`PoolTimeout`), and an exception unwinds the stack to the
innermost `try` (`Raise`).

`policed` is the choice between the two deployments: a role the policies apply
to (they are FORCEd, and `tests/multi_tenant_isolation` uses such a role) and a
superuser that bypasses them, as in `docker-compose.dev.yml`. `src/README.md:327`
says the middleware "sets `app.tenant_id` GUC on each session"; only the first
transaction of a session has it. With the policies on, `update_agent` and
`human_message` therefore raise in the refresh behind their commit, `register`
does too, `login` and `refresh_token` find no user, and the webhooks find nothing
and cannot store. `Unscoped` names the ones that never had a tenant, and
`NeverBlind` excepts these and the refreshes.

`TenantPrograms` writes the programs as nested operators that read like the
`async with` blocks they stand for. A commit lists what it makes durable: columns
of `tenants` (no policy), a scoped row, an audit entry. The safety job's program
checks two tenants one after the other, the first one paused; the entry of its
auto-pause is committed with the checks, after the pause.

## 3. What the runs show

Passing runs:

- `llm_spend`. `OvershootBounded`: the check comes before the call and the row
  after it, so the budget is no hard cap, but a day's rows stay below the budget
  plus one dearest call per concurrent caller. `GateClosed`: once a day's rows have
  reached the budget, the callers that may still reach the provider that day are
  those that had their sum before, each for the one chat; a caller that holds such a
  sum passes although the limit is reached, but no sum answered later admits anyone,
  also not across midnight with a stale `today`. `ChargesAccounted`: every charge is
  in one row, held by a call about to write its row, or lost: with a request that was
  repeated or broken off, a cancelled call, a model without a price or a failed
  insert. So rows never show more than was charged, and may show less. `ChatEnds`.
- `tenant_control`. `KillSwitchSticks`: the switch is released only by a resume
  that had itself seen it thrown. It holds because the UPDATE leaves out
  unchanged columns: with all assigned columns (the mutant) a late resume
  releases a switch thrown meanwhile.
- `safety_job`. `OverspentPaused`, `ErroringPaused`, `FailingAgentDisabled`: an
  active tenant over its limits is stopped, though another tenant's check raises
  in every run and any transaction may fail once. An agent is disabled if runs list its
  tenant again and again, whichever of them also pause it. Without that nothing is
  promised of it: a fault between the pause and the commit of the checks leaves a
  paused tenant with its agent enabled, which no run sees before the owner resumes
  the tenant.
- `message_worker`. `StoredBeforeSent`, `AnsweredOncePerRun`, `PauseRunsDry`,
  `DraftsStayHome` and `JobEnds`, under kill switch, agent changes, failing
  queries, LLM calls and sends, repeated posts, timeouts and restarts. A post
  counts as sent each time the channel may have carried it out; one run makes at
  most `Posts(m)` of them, and only a restart adds to that. A run that has read the
  tenant's row is not stopped by the switch. What the switch does give is
  `PauseRunsDry`: while it is thrown no message gets more LLM calls or posts than its
  run had left, through failures and retries, and a run that begins again gets none.
  `KeepsPromise`: all steps together are those of `Answers`, in the order it allows.
- `agent_pipeline`. `NoRowMissed`: among the latest rows, the specialists miss
  only the message being answered or a newer one, which has a job of its own,
  although `history[:-1]` takes off whatever row is last. `EscalationKept`: an
  escalation by the LLM, or by a conversation agent at
  level 0, is in the job's output whatever the specialists after it return.
  `LinksKept`: a job comes to an answer only if the rows of all handoff tokens its LLM
  was given are still in the session; a failed insert takes the earlier ones with it,
  and it is the commit of the broken session that keeps their links from going out.
  `Ends`: whatever the LLM asks for. `StepsOfWorker`: at
  most `MAX_SPECIALIST_CALLS * MAX_TOOL_ROUNDS + 1` LLM calls, at least one before
  the output, and drafts for a human only, as `MessageWorker` assumes.
- `inbound`. `AckedIsQueued`: a 200 means every event has its job, or the tenant
  was paused. `JobHasMessage`: the worker never gets a job whose message is not
  committed. `StoredOncePerFault`: a Telegram message is stored again only for a
  delivery that overlapped or broke off. `TelegramQueued`: it gets its job in the
  end, also when its handoff token cannot be redeemed and when it collides with
  another on a customer, unless the conversation was created twice.
- `tenant_scope`. `Isolated`: no open transaction is another tenant's, and no
  connection in the pool has a tenant set. `NeverBlind`: but for the exceptions
  above, no statement on scoped rows runs in a transaction without its tenant.
  `OpenedInContext`: a tenant session is only opened in the task's own tenant,
  also behind nested contexts left by exceptions. `Logged`: an endpoint's change
  of a scoped row and its audit entry are one transaction; a change of the
  tenant's row has its entry if the request answers without an error.
  `NothingLeft`: a task that ended has left its contexts and given its
  connections back. `TasksEnd`: although tasks hold a connection while they wait
  for another, all end; it is the pool's timeout that breaks the wait.

Runs with an expected violation, each of what a line of the repository says:

- `llm_spend_decimal`: a `Decimal` budget times the float 0.8 is a `TypeError`
  (`anthropic_client.py:337`), so a tenant with a budget is refused every call.
- `tenant_key`: a key replaced while it is being deleted leaves `managed` with a
  stored key (`tenants.py:227`).
- `safety_job_trial`: tenants on trial, where all begin, are never checked
  (`safety_job.py:49`).
- `inbound_start`: the log call after a redemption raises, and the redemption is
  rolled back (`telegram/webhook_handler.py:207`); the message is taken only when
  the token has expired.
- `inbound_answered`: two first messages of a chat create its conversation
  twice, if the second selects the conversation before and the customer after
  the first one's commit; every further update of the chat ends with a 500 and
  is delivered again (`telegram/webhook_handler.py:43`).

### Bounds

| Run | Instance | Why it is enough |
|---|---|---|
| llm_spend | 2 callers, budgets NULL, 0 and 1, calls of cost 0 or 1, 2 attempts of 2 requests, 2 days, 3 chats | two callers make a sum stale, a third chat reads the sum behind both rows, the budget of one call is reached by one and overshot by the other, one midnight separates `today` from the day of the row; the theorems cover every other instance |
| tenant_control | 2 writers, any number of operations in a row | a lost update takes two; the row is finite, so nothing is bounded |
| safety_job | 2 tenants (budget of one call, budget of zero), 1 agent, 3 rows, thresholds 2, 1 fault | one tenant's exception and another's limits; thresholds of 2 stand for 10 calls and 5 failures so that they are reached and left again |
| message_worker | a private message and a comment, 1 job at once, 3 LLM calls, 3 attempts at a post, 2 restarts | the two ways through the worker, in any order and with either waiting for the place of the other; a post repeated twice and given up; a run begun again twice. Jobs share only the tenant and the places; the theorems cover every other instance, with any number of jobs at once |
| agent_pipeline | 2 specialist calls, 2 tool rounds, 3 decisions in the LLM's answer; row limits 2, 4 and 2 for 10, 20 and 10, up to 5 rows | two outputs are aggregated, also two of the conversation agent, and two rounds overwrite a text; each limit is exceeded by what the LLM asks for and by the rows |
| inbound | two Telegram messages of one person, one with a token, and an Instagram update of two events; 2 deliveries of the latter, 1 fault | two requests collide on a conversation or a customer; a fault between two events makes the first one come again |
| tenant_scope | 2 tenants, any endpoint or job beside a test of an agent, 2 connections | a test of an agent holds one connection and waits for another, as jobs do, so with any other task the pool (10 + 20 in the code) is exhausted; the programs themselves are not shortened |

No symmetry is used, as liveness is checked. Deadlock is off where a behaviour
may end: all chats begun, the one job over, all tasks ended. It is on for the
others, where owner, cron or time can always act.

### Fairness

- `LlmSpend`: weak fairness of each caller's next step. The database and the
  provider answer, fail, or are cut off by the SDK's and the job's timeouts.
- `SafetyJob`: weak fairness of the job's next step: the cron starts a run every
  five minutes and the queries of a run end. Nothing for owners, calls or time.
- `MessageWorker`: weak fairness of each job's next step: the worker polls its
  queue. Nothing forces a message to arrive, a timeout or a restart.
- `AgentPipeline`: weak fairness of the job's next step: the LLM's client and the
  tools' queries end or raise.
- `Inbound`: requests end, tokens expire with time, and the provider delivers
  what has not been answered. Nothing forces overlaps, faults or the owner.
- `TenantScope`: weak fairness of each task's next step, the pool's timeout among
  them; nothing forces a failure.

## 4. What is proved

### The meter

`LlmSpendProofs` proves, for every finite non-empty set of callers, every set of
budgets, price, number of days and chats (the named assumptions of `LlmSpend`):

- `TypeCorrect`: `Spec => []TypeOK`;
- `OvershootSafe`: `Spec => []OvershootBounded`;
- `GateStaysClosed`: `Spec => GateClosed`;
- `ChargesBalance`: `Spec => []ChargesAccounted`.

`OvershootBounded` is not inductive: in a state where the day's sum is just
below its bound and a caller is about to write a row, it is lost in the next
step. The invariant `IInv` adds what makes such states impossible:

- `RoomForInFlight`: a day's sum plus one dearest call for each caller *in flight*
  whose row may be dated that day (`Claims`) is below budget plus one dearest call for
  *every* caller. A caller is in flight from the moment its query has answered a sum
  below the budget, however long it then takes to compare it, until its row is
  written. At that moment the day's sum is below the budget, so there is room for
  all callers; a row adds no more than the room its caller gives up by leaving. For a
  budget of 0 nobody is ever in flight.
- `SinceIsPast` and `FutureIsEmpty`: a check's `today` has come, and rows are only
  on days that have. Hence `SpentSince` is at least the current day's sum also
  when `today` is stale, and a new day begins with no rows; after midnight the
  room is that of the callers still in flight.

The counting is in the lemmas `Monotone`, `OneLess`, `CountBounds`, `Numbers`,
`DayKept` and `RoomKept`; then come the actions (`AdmitStep` for the answer of the
query, `CheckStep`, `WriteStep`, `MidnightStep`, and `FlightShrinks` for the others).
`GateClosed` follows from `SinceIsPast`: under a budget only `ReadSum` puts a caller
in flight, and it sees at least the day's sum.

`ChargesAccounted` needs only `NothingHeld` besides (a caller that is not writing
its row holds no charge); together they are `Balanced`. Its sums run over the days and
the callers, whose numbers are not fixed. The library defines such a sum by
recursion over an arbitrary order of the domain, so the module first shows what
can be known of it: `SumChange`, that a change at one point changes the sum by
the difference, whatever the order. Both the recursion (`SumRecursion`) and this
are proved by the least counterexample (`Least`: a set of naturals that is not
empty has a least element). `MoneyMoves` then says that each step moves a charge
between a row, a caller and `lost`, or adds it to `billed` and one of them.

### The kill switch

`TenantControlProofs`, for every set of writers: `TypeCorrect`
(`Spec => []TypeOK`) and `SwitchSticks` (`Spec => KillSwitchSticks`). The types are
the invariant the action property needs: a release is a `Commit` whose `Dirty`
contains `enabled`, so it assigns TRUE, which only a resume does
(`OnlyResumeEnables`), and the row it had loaded held the other Boolean.

### The worker

`MessageWorkerProofs`, for every set of messages, `max_jobs`, number of LLM calls
and restarts: `TypeCorrect`, `StoreFirst` (`[]StoredBeforeSent`),
`OneAnswerPerRun` (`[]AnsweredOncePerRun`), `PauseDrains` (`PauseRunsDry`),
`DraftsStay` (`DraftsStayHome`) and `WorkerKeepsPromise` (`KeepsPromise`, the
refinement of `Answers`).
The first needs `RowForSend` besides: a private job about to send has a row whose
share of posts covers what it may still post (`Left`), which `StoreReply`
establishes and only posts use up; it rests on `OneText`. The second needs
`NothingYet`: a run that has not stored (sent) anything yet has at most the rows
(posts) of the runs before it; a restart adds one run and puts the job where that
holds again. Both are stated per message (`MsgInv`), since a step touches one
message only, except for `Restart`. The products with the number of posts are
confined to `OneMore` and `LeftBounds`. `DraftsStay` carries the flag from
`Decide` to the post (`DraftInv`). `PauseDrains` compares what a run has left before
and after each step (`PauseStep`); it needs `OneText` and `OneCall`, that no run has
made more calls than it is allowed (a comment's one), since else its `CallsLeft` would
be below 0 and a step that ends the run would raise it.

The refinement (`PromiseStep`) maps each action to a step of `Answers` or to none:
`Hidden`, `Closes`, `GivesAnswer` and `PostsOne` are its four ways, and `View` says that a
step of one message shows as that of its own stage and posts. It needs `OneText` (only a
comment goes on to a second text), and `StoresPrivate` (only a private answer comes to be
stored).

### The agents

`AgentPipelineProofs`, for every limit on rounds, specialists and rows:
`TypeCorrect`, `HistoryComplete` (`[]NoRowMissed`), `EscalationStays`
(`EscalationKept`), `LinksLead` (`[]LinksKept`) and `StepsAreWorkers`
(`StepsOfWorker`).

- `HistoryComplete` rests on `OwnRow`: the job's message is committed before the
  job exists, so the row that is trimmed is at or behind it.
- `LinksLead` rests on `SessionInv`: a row is lost only with a session that is
  broken, which stays so, and no job comes to its end with a broken session.
- `StepsAreWorkers` shows that every step of the detailed agents is one of
  `MessageWorker`'s or leaves its view unchanged. It needs `CallsBounded` (one
  call of the routing, at most `MaxToolRounds` for each decision taken, and
  `round` for the one in progress) and `DraftsEscalate` (if all that can write
  are drafts, there is nothing to post or an escalation).

### The webhooks

`InboundProofs`, for every set of updates, of any number of events, and any
number of deliveries and faults: `TypeCorrect`, `JobsFindMessages`
(`[]JobHasMessage`), `AckedOnlyQueued` (`[]AckedIsQueued`) and `StoredPerFault`
(`[]StoredOncePerFault`). Each needs more than itself:

- `RowsAhead`: the rows of an event without a job are those of requests between
  commit and `enqueue_job`, or of requests that broke off there. Two overlapping
  deliveries each bring their own row.
- `Progress`: all events behind a request's position have a job; so when it is
  past the last one, the 200 is due (`Answered`).
- `FaultEach`: every delivery that is not yet past its commit is paid for by a
  fault, except one, which is free as long as the update is neither answered nor
  abandoned (`Free`). A refused delivery rolls back and gives its place back.

A step touches one update (`UpdateInv`); the others keep their part
(`Elsewhere`).

### Tenant isolation

`TenantScopeProofs`, for every set of tenants, tasks and connections and *any*
programs, not only those of `TenantPrograms`: `TypeCorrect` and `TenantsIsolated`
(`[]Isolated`). The invariant adds `Disjoint` (no connection is two tasks') and
`Scoped` (a context, and whatever a block will restore, is empty or the task's
own tenant, and empty outside of all blocks). `Scoped` is what lets `Turn`, which
gives the safety job another tenant, happen only where nothing of the last one is
left. The lemmas about stacks (`PushConns`, `PopConns`, `SetConns`) say which
connections a task holds after each kind of step, and `OneStack` that the others
keep theirs.

`TenantProgramsProofs` proves what depends on the programs, for every set of
tenants, tasks and connections and the programs of all endpoints and jobs:
`StatementsSee` (`[]NeverBlind`), `SessionsInContext` (`[]OpenedInContext`),
`TasksLeaveNothing` (`[]NothingLeft`) and `ChangesLogged` (`[]Logged`). The first
three are one argument, that of a type system:

- A program is typed if it leads from one stack of frames to another (`Runs`):
  `Effect` is the typing rule of each kind of step. A frame says of a session
  whether its transaction has the tenant; `get_tenant_session` is typed only
  inside of a context, a statement on scoped rows only on a session with the tenant
  (`strict`; the four programs in `Unscoped` are typed without that), and a commit takes
  the tenant from the session.
- Typed tasks stay typed (`TypedInductive`): `Fits` says what a stack of frames
  means in a state, and `Typed` that a task's blocks fit a stack from which the rest of
  its steps is typed. There is a lemma for each kind of step, and
  `OthersTyped` for the tasks that do not move.
- Exceptions and early returns drop steps. What is left of a typed
  program behind the block that is left is typed again (`RunsAfter`, `RaiseRuns`):
  wherever a step raises, the blocks outside of the one left are as they were when it
  was entered (`OuterKept`), and as many ends are left as blocks are open
  (`LeftDepth`). This is induction over the program, again by the least
  counterexample.
- The programs of the code are typed (`ProgramsTyped`), put together from a lemma
  for each combinator (`WithTenantRuns`, `TenantSessionRuns`, `AuthenticatedRuns`,
  ...), as the programs themselves are.

`ChangesLogged` has an invariant of its own, `Audited`: an endpoint's remaining steps
swallow no exception and do not return early, commit a row only together with its
entry (`Plain`), and hold an entry still to come unless there is one or
an exception has ended the endpoint. That is why an exception leaves no change of a
scoped row without entry, and why it may leave a change of the tenant's
row without one, as the property says.

`ProgramsAssumption` says that `Program`, which TLC evaluates once for each kind of
work, is the table `Programs`, and that there is no other work; TLC checks it in
`tenant_scope`.

### The safety job

`SafetyJobProofs`, for every set of tenants and agents: `TypeCorrect`, which
includes that a run has nothing of a tenant's session left when the next one's
turn comes. Its other properties are liveness.

### Only model-checked

All liveness (`ChatEnds`, `OverspentPaused`, `ErroringPaused`,
`FailingAgentDisabled`, `JobEnds`, `Ends`, `TelegramQueued`, `TasksEnd`), which is
beyond the prover. Every safety property of a passing run is proved.

## 5. Not modelled

- Channel adapters and phone normalisation: text without state. Knowledge
  service: calls to a vector store that the worker never makes. Logging, metrics,
  tracing: nothing depends on them. Billing, tenant and product services, CRM and
  1C clients: stubs.
- What a committed redemption of a handoff token would do: none is ever
  committed (`inbound_start`), so the race of two redemptions has nothing to win.
- The webhooks without a Redis pool (`arq_redis is None`): `main.py` sets one before
  the first request. The tools that look products up in a test of an agent; a job's
  are in (`LookUpProduct`).
- Which text an answer has: the fallback into the past (`conversation.py:291`) and the
  last specialist's text replacing that of the others (`orchestrator.py:172`) are in
  `AgentPipeline`, without a property.
- When one event of an Instagram update fails, those before it are stored and
  answered again with the next delivery; `Inbound` has it, `StoredOncePerFault` is
  about Telegram only.
- The docstring of the safety job (`safety_job.py:4`) says "> 95%" and "> 10"
  consecutive failures, `src/README.md:257` and the code at least 95% and at least 10;
  the model is the code.
- The OAuth exchange, password hashing and tokens: calls and library code without
  state; the sessions around them are in `TenantPrograms`.
- The status of a conversation (escalated, closed): no line of the worker reads
  it. `get_conversation` returns the oldest `last_n` messages, not the latest
  (`conversations.py:91`); it is a read, without a property here.
- Hazards without a property, with the reason, are in `PROJECT.json`: the audit
  entry of an auto-pause lost between two transactions, the text of the last
  specialist replacing that of the others, a past text given again, the refresh behind
  a commit. The models have the behaviour; nothing in the repository promises
  its absence.

## 6. Plan

1. `Inbound` as the environment of `MessageWorker`: its rows and jobs as that
   module's `Receive` and `Enqueue`, for which the rows of an Instagram event must be
   bounded by its deliveries.
2. Redemption of handoff tokens, once it can commit: two redemptions of one token,
   a chat id already taken, the partial unique indices.

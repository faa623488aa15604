--------------------------- MODULE MessageWorker ---------------------------
(***************************************************************************)
(* A customer message on its way through one tenant: stored and enqueued   *)
(* by a webhook, then processed by a job of the arq worker, which is       *)
(* handle_incoming_message in                                              *)
(* src/app/workers/tasks/handle_incoming_message.py.                       *)
(*                                                                         *)
(* A message stands for its job.  Up to MaxJobs jobs run at once, each     *)
(* pausing at every query, LLM call and send; the owner's kill switch and  *)
(* changes to the agents fall between any two of these awaits.  arq runs a *)
(* job again when its worker stopped while the job was running.            *)
(***************************************************************************)
EXTENDS Integers, FiniteSets

CONSTANTS
  Msgs,          \* customer messages
  Channel,       \* the channel of each
  MaxJobs,       \* WorkerSettings.max_jobs
  MaxLlmCalls,   \* LLM calls of one job: MAX_SPECIALIST_CALLS * MAX_TOOL_ROUNDS + 1
  MaxTries,      \* _MAX_RETRIES of InstagramClient
  MaxRestarts    \* bound: restarts of the worker (arq tries a job 5 times)

ASSUME ChannelAssumption ==
  Channel \in [Msgs -> {"telegram", "instagram", "instagram_comment"}]
ASSUME BoundsAssumption ==
  /\ MaxJobs \in Nat \ {0} /\ MaxLlmCalls \in Nat \ {0}
  /\ MaxTries \in Nat \ {0} /\ MaxRestarts \in Nat

VARIABLES
  tenant,    \* the row's status and enabled (autonomous_actions_enabled)
  job,       \* per message: where its job stands and what the job holds
  reply,     \* per message: assistant rows stored for it
  sent,      \* per message: posts that the channel carried out
  audited,   \* messages with an agent_error entry in the audit log
  restarts   \* counts restarts, for the bound MaxRestarts

vars == <<tenant, job, reply, sent, audited, restarts>>

(* autonomy_level of the agent that answers, "off" when none of its type   *)
(* is enabled.  "draft" is level 0, "auto" is level 1 or 2: these gate by  *)
(* the words of the task and the LLM's own request, so an output of theirs *)
(* may escalate or not.                                                    *)
Levels == {"draft", "auto", "off"}

(* The rows the kill switch leaves; concurrent requests that write only    *)
(* the columns they saw changed leave all four (TenantControl).            *)
TenantRows == [status : {"active", "paused"}, enabled : BOOLEAN]

IsComment(m) == Channel[m] = "instagram_comment"

(* at "none", "stored" by the webhook, "lost" before it was enqueued,      *)
(* "queued", then the awaits of the job: "pass" and "drop" have read the    *)
(* tenant's row and close its session.  "error": the audit entry of an     *)
(* exception; "ack": the task has returned, arq has not recorded it yet;   *)
(* "done".  level: as loaded; calls: LLM calls made; escalate: of the      *)
(* agent's output; texts: what it has to post, the reply to a comment and  *)
(* a private message being two; tries: failed attempts at the next post.   *)
JobStates == [at : {"none", "stored", "lost", "queued", "tenant", "pass", "drop", "agents",
                    "llm", "store", "send", "error", "ack", "done"},
              level : Levels, calls : 0..MaxLlmCalls,
              escalate : BOOLEAN, texts : 0..2, tries : 0..MaxTries - 1]

JobWith(place, lev) ==
  [at |-> place, level |-> lev, calls |-> 0, escalate |-> FALSE, texts |-> 0, tries |-> 0]
NewJob(place) == JobWith(place, "off")

Init ==
  /\ tenant = [status |-> "active", enabled |-> TRUE]
  /\ job = [m \in Msgs |-> NewJob("none")]
  /\ reply = [m \in Msgs |-> 0]
  /\ sent = [m \in Msgs |-> 0]
  /\ audited = {}
  /\ restarts = 0

-----------------------------------------------------------------------------
(* The jobs that the worker is running. *)
Running == {m \in Msgs : job[m].at \in {"tenant", "pass", "drop", "agents", "llm", "store",
                                        "send", "error", "ack"}}

(* How a job goes on, returns to arq, or ends up in the except clause.     *)
Goto(m, place) == job' = [job EXCEPT ![m].at = place]
Return(m) == job' = [job EXCEPT ![m] = NewJob("ack")]

(* Mutant: the task raises, and the queue retries it without an end. *)
MutRaise(m) == job' = [job EXCEPT ![m] = NewJob("queued")]

Raise(m) == job' = [job EXCEPT ![m] = NewJob("error")]

(* The webhook commits the message, then enqueues its job. *)
Receive(m) ==
  /\ job[m].at = "none"
  /\ Goto(m, "stored")
  /\ UNCHANGED <<tenant, reply, sent, audited, restarts>>

Enqueue(m) ==
  /\ job[m].at = "stored"
  /\ \E p \in {"queued", "lost"} : Goto(m, p)
  /\ UNCHANGED <<tenant, reply, sent, audited, restarts>>

Start(m) ==
  /\ job[m].at = "queued" /\ Cardinality(Running) < MaxJobs
  /\ Goto(m, "tenant")
  /\ UNCHANGED <<tenant, reply, sent, audited, restarts>>

(* The kill switch drops the job; a suspended tenant's would go on.        *)
Paused == tenant.status = "paused" \/ ~tenant.enabled

(* Mutant: only the status is looked at. *)
MutReadTenant(m) ==
  /\ job[m].at = "tenant"
  /\ Goto(m, IF tenant.status = "paused" THEN "drop" ELSE "pass")
  /\ UNCHANGED <<tenant, reply, sent, audited, restarts>>

(* The row is read once.  Of it the check looks at the two columns below,  *)
(* and a message has its tenant, whose row is never deleted.               *)
ReadTenant(m) ==
  /\ job[m].at = "tenant"
  /\ Goto(m, IF Paused THEN "drop" ELSE "pass")
  /\ UNCHANGED <<tenant, reply, sent, audited, restarts>>

(* The session is closed and the row checked as it was read: a kill switch *)
(* thrown since then is not seen, here or later.                           *)
CheckTenant(m) ==
  /\ \/ job[m].at = "pass" /\ Goto(m, "agents")
     \/ job[m].at = "drop" /\ Return(m)
  /\ UNCHANGED <<tenant, reply, sent, audited, restarts>>

(* The enabled agents, which their owner changes at any time, as they are  *)
(* now; without the one in charge the job ends silently.  create() raises  *)
(* when the tenant has no usable key.                                      *)
LoadAgents(m) ==
  /\ job[m].at = "agents"
  /\ \/ Return(m)
     \/ \E level \in Levels \ {"off"} : job' = [job EXCEPT ![m] = JobWith("llm", level)]
     \/ Raise(m)
  /\ UNCHANGED <<tenant, reply, sent, audited, restarts>>

(* Mutant: tool rounds without a limit. *)
MutLlmCall(m) ==
  /\ job[m].at = "llm"
  /\ job' = [job EXCEPT ![m].calls = @ + 1]
  /\ UNCHANGED <<tenant, reply, sent, audited, restarts>>

(* The LLM calls a job has: a comment's responder makes one. *)
Allowed(m) == IF IsComment(m) THEN 1 ELSE MaxLlmCalls

(* One LLM call of the routing, of a specialist's tool rounds or of the    *)
(* comment responder; it is refused (budget) or fails with an exception.   *)
LlmCall(m) ==
  /\ job[m].at = "llm"
  /\ job[m].calls < Allowed(m)
  /\ job' = [job EXCEPT ![m].calls = @ + 1]
  /\ UNCHANGED <<tenant, reply, sent, audited, restarts>>

LlmFails(m) ==
  /\ job[m].at = "llm"
  /\ Raise(m)
  /\ UNCHANGED <<tenant, reply, sent, audited, restarts>>

(* Mutant: every answer takes the comment's way, which stores nothing. *)
MutDecide(m) ==
  /\ job[m].at = "llm" /\ job[m].calls > 0
  /\ \E esc \in BOOLEAN, n \in 0..1 :
       /\ job[m].level = "draft" /\ n > 0 => esc
       /\ job' = [job EXCEPT ![m].at = "send", ![m].escalate = esc, ![m].texts = n]
  /\ UNCHANGED <<tenant, reply, sent, audited, restarts>>

(* The agent's output: a specialist at level 0 always escalates, one at    *)
(* a higher level when its LLM or the task's words say so.  The comment    *)
(* responder takes its decision from the LLM alone, whatever its level: to *)
(* answer in public, in private or both; a blocked keyword ignores the     *)
(* comment without a call.                                                 *)
Decide(m) ==
  /\ job[m].at = "llm"
  /\ \E esc \in BOOLEAN, n \in 0..2 :
       /\ IsComment(m) => (job[m].calls = 0 => ~esc /\ n = 0)
       /\ ~IsComment(m) => n < 2 /\ job[m].calls > 0 /\ (job[m].level = "draft" /\ n > 0 => esc)
       /\ job' = [job EXCEPT ![m] =
            [at |-> IF IsComment(m) THEN "send" ELSE "store",
             level |-> @.level, calls |-> @.calls, escalate |-> esc, texts |-> n, tries |-> 0]]
  /\ UNCHANGED <<tenant, reply, sent, audited, restarts>>

(* The reply is stored as the assistant's, escalated or not. *)
StoreReply(m) ==
  /\ job[m].at = "store"
  /\ reply' = IF job[m].texts > 0 THEN [reply EXCEPT ![m] = @ + 1] ELSE reply
  /\ Goto(m, "send")
  /\ UNCHANGED <<tenant, sent, audited, restarts>>

(* Mutant: the escalation flag is not looked at. *)
MutSends(m) == job[m].texts > 0

(* What is sent: an answer that does not escalate; of a comment, any text. *)
Sends(m) == job[m].texts > 0 /\ (IsComment(m) \/ ~job[m].escalate)

(* One post is done with, carried out or given up. *)
NextPost(m) ==
  IF job[m].texts = 1 THEN Return(m)
  ELSE job' = [job EXCEPT ![m].texts = @ - 1, ![m].tries = 0]

SendReply(m) ==
  /\ job[m].at = "send" /\ Sends(m)
  /\ sent' = [sent EXCEPT ![m] = @ + 1]
  /\ NextPost(m)
  /\ UNCHANGED <<tenant, reply, audited, restarts>>

(* Instagram answers with 429 or a 5xx: the post is made again after a     *)
(* pause, although a server that answered 5xx may have carried it out.     *)
SendAgain(m) ==
  /\ job[m].at = "send" /\ Sends(m)
  /\ Channel[m] # "telegram" /\ job[m].tries < MaxTries - 1
  /\ job' = [job EXCEPT ![m].tries = @ + 1]
  /\ sent' \in {sent, [sent EXCEPT ![m] = @ + 1]}
  /\ UNCHANGED <<tenant, reply, audited, restarts>>

(* Mutant: a failed send puts the job back on the queue. *)
MutSendFails(m) ==
  /\ job[m].at = "send" /\ Sends(m)
  /\ job' = [job EXCEPT ![m] = NewJob("queued")]
  /\ sent' \in {sent, [sent EXCEPT ![m] = @ + 1]}
  /\ UNCHANGED <<tenant, reply, audited, restarts>>

(* Telegram's errors are raised to the task, also the loss of the answer   *)
(* to a request that was carried out; Instagram's, where there is no next  *)
(* attempt, are only logged.  A channel without a token or, for a          *)
(* carousel, without a form for it sends nothing and raises nothing.       *)
SendFails(m) ==
  /\ job[m].at = "send" /\ Sends(m)
  /\ \/ /\ IF Channel[m] = "telegram" THEN Raise(m) ELSE NextPost(m)
        /\ sent' \in {sent, [sent EXCEPT ![m] = @ + 1]}
     \/ job[m].tries = 0 /\ Return(m) /\ UNCHANGED sent
  /\ UNCHANGED <<tenant, reply, audited, restarts>>

SkipSend(m) ==
  /\ job[m].at = "send" /\ ~Sends(m)
  /\ Return(m)
  /\ UNCHANGED <<tenant, reply, sent, audited, restarts>>

(* Any query of the job fails, or the closing of its session. *)
QueryFails(m) ==
  /\ job[m].at \in {"tenant", "pass", "drop", "agents", "store"}
  /\ Raise(m)
  /\ UNCHANGED <<tenant, reply, sent, audited, restarts>>

(* _write_error_audit: its own failure is only logged. *)
WriteErrorAudit(m) ==
  /\ job[m].at = "error"
  /\ audited' \in {audited, audited \cup {m}}
  /\ Return(m)
  /\ UNCHANGED <<tenant, reply, sent, restarts>>

(* job_timeout cancels the task; CancelledError passes its except clause,  *)
(* and arq does not run the job again.                                     *)
Timeout(m) ==
  /\ m \in Running /\ job[m].at # "ack"
  /\ Return(m)
  /\ UNCHANGED <<tenant, reply, sent, audited, restarts>>

(* arq takes the job off the queue. *)
Acknowledge(m) ==
  /\ job[m].at = "ack"
  /\ Goto(m, "done")
  /\ UNCHANGED <<tenant, reply, sent, audited, restarts>>

(* The worker stops and another takes over: what was running runs again.   *)
Restart ==
  /\ restarts < MaxRestarts
  /\ job' = [m \in Msgs |-> IF m \in Running THEN NewJob("queued") ELSE job[m]]
  /\ restarts' = restarts + 1
  /\ UNCHANGED <<tenant, reply, sent, audited>>

(* The owner or the safety job write the kill switch.                      *)
SwitchTenant ==
  /\ tenant' \in TenantRows
  /\ UNCHANGED <<job, reply, sent, audited, restarts>>

Step(m) ==
  \/ Enqueue(m) \/ Start(m) \/ ReadTenant(m) \/ CheckTenant(m) \/ LoadAgents(m)
  \/ LlmCall(m) \/ LlmFails(m) \/ Decide(m) \/ StoreReply(m) \/ SendReply(m) \/ SendAgain(m) \/ SendFails(m)
  \/ SkipSend(m) \/ QueryFails(m) \/ WriteErrorAudit(m) \/ Acknowledge(m)

Next ==
  \/ \E m \in Msgs : Receive(m) \/ Step(m) \/ Timeout(m)
  \/ Restart \/ SwitchTenant

Spec == Init /\ [][Next]_vars

(* The worker polls its queue and every await of a job ends.  Nothing says *)
(* that a message arrives, that the owner acts or that a worker stops.     *)
FairSpec == Spec /\ \A m \in Msgs : WF_vars(Step(m))

-----------------------------------------------------------------------------
TypeOK ==
  /\ tenant \in TenantRows
  /\ job \in [Msgs -> JobStates]
  /\ reply \in [Msgs -> Nat] /\ sent \in [Msgs -> Nat]
  /\ audited \subseteq Msgs
  /\ restarts \in 0..MaxRestarts

(* Posts one run can make for a message, each carried out at most once. *)
Posts(m) == CASE Channel[m] = "telegram"          -> 1
              [] Channel[m] = "instagram"         -> MaxTries
              [] Channel[m] = "instagram_comment" -> 2 * MaxTries

(* The posts the run of a job may still make of its answer. *)
Left(m) == IF Channel[m] = "telegram" THEN 1 ELSE job[m].texts * MaxTries - job[m].tries

May(m) == IF job[m].at = "send" /\ Sends(m) THEN Left(m) ELSE 0

(* The LLM calls and the posts a run may still make, once it has read that *)
(* its tenant is not paused.                                               *)
CallsLeft(m) ==
  CASE job[m].at \in {"pass", "agents"} -> Allowed(m)
    [] job[m].at = "llm"                -> Allowed(m) - job[m].calls
    [] OTHER                            -> 0

PostsLeft(m) ==
  IF job[m].at \in {"pass", "agents", "llm", "store"} THEN Posts(m) ELSE May(m)

(* What a customer was sent in a private conversation is in its history,   *)
(* which the next job shows the LLM: the row is committed before the send, *)
(* also when the worker stops in between and the job runs again.           *)
StoredBeforeSent == \A m \in Msgs : IsComment(m) \/ sent[m] <= reply[m] * Posts(m)

(* A message is answered once, and once more at most for every time its    *)
(* worker was stopped: no failure makes the program itself answer twice,   *)
(* but for the repeated posts of InstagramClient, which stay bounded.      *)
AnsweredOncePerRun ==
  \A m \in Msgs : sent[m] <= (restarts + 1) * Posts(m) /\ reply[m] <= restarts + 1

(* A thrown kill switch stops no run that has read the row before, wherever *)
(* that run stands; but from then on nobody is given more to do: of every   *)
(* message the LLM calls to come, and the posts made and to come, only get  *)
(* fewer, also when the job is run again.                                   *)
PauseRunsDry ==
  [][Paused => \A m \in Msgs : /\ CallsLeft(m)' <= CallsLeft(m)
                              /\ sent'[m] + PostsLeft(m)' <= sent[m] + PostsLeft(m)]_vars

(* A private answer is never sent by an agent that was loaded at level 0.  *)
DraftsStayHome ==
  [][\A m \in Msgs : ~IsComment(m) /\ sent'[m] > sent[m] => job[m].level # "draft"]_vars

(* An enqueued job ends, through every error, timeout and restart.         *)
JobEnds == \A m \in Msgs : job[m].at = "queued" ~> job[m].at = "done"
=============================================================================

--------------------------- MODULE AgentPipeline ---------------------------
(***************************************************************************)
(* What a worker's job does between loading the agents and storing a       *)
(* reply: it reads the history, then runs OrchestratorAgent of             *)
(* src/app/agents/orchestrator.py, which asks an LLM for the specialists   *)
(* to call and aggregates their outputs, and ConversationAgent of          *)
(* src/app/agents/conversation.py, which lets an LLM use tools for a       *)
(* number of rounds.                                                       *)
(*                                                                         *)
(* The LLM may answer anything; the program has to bound its calls, keep   *)
(* its escalations, and end with one output.  One job works alone, in a    *)
(* database session that is committed behind it; the property at the end   *)
(* relates its steps to those of a job in MessageWorker.                   *)
(***************************************************************************)
EXTENDS Integers, Sequences, SequencesExt

CONSTANTS
  MaxSpecialistCalls,   \* MAX_SPECIALIST_CALLS
  MaxToolRounds,        \* MAX_TOOL_ROUNDS
  ChannelRows,          \* rows read of one conversation (10),
  CustomerRows,         \* of all conversations of a customer (20),
  SpecialistRows,       \* and shown to a specialist (10)
  MaxDecisions,         \* bound: routing decisions in one answer of the LLM
  MaxRows               \* bound: rows in the conversation when it is read

ASSUME LimitsAssumption ==
  /\ MaxSpecialistCalls \in Nat \ {0} /\ MaxToolRounds \in Nat \ {0} /\ MaxDecisions \in Nat
  /\ ChannelRows \in Nat \ {0} /\ CustomerRows \in Nat \ {0} /\ SpecialistRows \in Nat \ {0}
  /\ MaxRows \in Nat

VARIABLES
  agent,     \* autonomy level of each specialist's record, "off" if not enabled
  thread,    \* roles of the rows of the conversation, by created_at
  mine,      \* the one of them that the job is to answer
  past,      \* the context history given to a specialist has an assistant's message
  at,        \* where the job stands
  todo,      \* routing decisions not looked at yet
  taken,     \* how many have been
  round,     \* tool rounds of the conversation agent
  words,     \* its local history has an assistant's text, of the past or its own
  asked,     \* it has seen a call of the tool escalate_to_human
  cards,     \* a carousel waits to be shown
  result,    \* the outputs so far, as _aggregate would return them
  broken,    \* the job's session can only be rolled back
  link,      \* of the handoff tokens the LLM was given: "open" with their rows in
             \* the job's session, "lost" when a row was rolled back
  calls      \* LLM calls made

vars == <<agent, thread, mine, past, at, todo, taken, round, words, asked, cards, result, broken,
          link, calls>>
local == <<round, words, asked, cards>>
rows == <<thread, mine>>

Levels == {"draft", "propose", "auto"}    \* autonomy_level 0, 1, 2
Specialists == {"conversation", "content", "lead_qualifier"}

(* The tool's enum has one more than the worker gives the orchestrator.    *)
Names == Specialists \cup {"comment_responder"}

(* text: there is one to answer with, whatever it says. *)
NoResult == [count |-> 0, text |-> FALSE, cards |-> FALSE, escalate |-> FALSE]

Init ==
  /\ agent \in [Specialists -> Levels \cup {"off"}]
  /\ agent["lead_qualifier"] \in {"auto", "off"}    \* its level is never read
  /\ thread = <<"user">> /\ mine = 1
  /\ past = FALSE
  /\ at = "read"
  /\ todo = <<>> /\ taken = 0
  /\ round = 0 /\ words = FALSE /\ asked = FALSE /\ cards = FALSE
  /\ result = NoResult
  /\ broken = FALSE /\ link = "none"
  /\ calls = 0

-----------------------------------------------------------------------------
(* Until the history is read, other messages of the customer, answers of   *)
(* other jobs and an operator's words ("agent") are stored.  created_at is *)
(* the start of a row's transaction, which may be before that of rows      *)
(* already there.                                                          *)
AddRow ==
  /\ at = "read" /\ Len(thread) < MaxRows
  /\ \E i \in 1..Len(thread) + 1, role \in {"user", "assistant", "agent"} :
       /\ thread' = InsertAt(thread, i, role)
       /\ mine' = IF i <= mine THEN mine + 1 ELSE mine
  /\ UNCHANGED <<agent, past, at, todo, taken, result, broken, link, calls, local>>

(* Mutant: every user's row at the end is taken off. *)
MutTrimmed == Max({0} \cup {i \in DOMAIN thread : thread[i] # "user"})

(* The last row is taken off when it is a user's, whichever message it is. *)
Trimmed == IF Last(thread) = "user" THEN Len(thread) - 1 ELSE Len(thread)

(* The rows a specialist is shown of the latest n. *)
Shown(n) == {i \in 1..Trimmed : i > Len(thread) - n /\ i > Trimmed - SpecialistRows}

(* The conversations of a customer are read together once it is known who  *)
(* that is.  No step of the job looks at the thread again.                 *)
ReadHistory ==
  /\ at = "read"
  /\ \E n \in {ChannelRows, CustomerRows} :
       past' = \E i \in Shown(n) : thread[i] = "assistant"
  /\ thread' = <<>> /\ mine' = 0
  /\ at' = "route"
  /\ UNCHANGED <<agent, todo, taken, result, broken, link, calls, local>>

(* _route: one LLM call; blocks that are no valid decision are left out.   *)
Route ==
  /\ at = "route"
  /\ \E n \in 0..MaxDecisions : todo' \in [1..n -> Names]
  /\ at' = "next"
  /\ calls' = calls + 1
  /\ UNCHANGED <<agent, rows, past, taken, result, broken, link, local>>

(* Mutant: the limit lets one call more through. *)
MutMore == todo # <<>> /\ taken <= MaxSpecialistCalls

(* There is a decision to look at.  One without a specialist counts too.   *)
More == todo # <<>> /\ taken < MaxSpecialistCalls

Take == todo' = Tail(todo) /\ taken' = taken + 1

Enabled(name) == name \in Specialists /\ agent[name] # "off"

(* Mutant: a decision without a specialist is not taken off the list. *)
MutSkip ==
  /\ at = "next" /\ More /\ ~Enabled(Head(todo))
  /\ UNCHANGED vars

Skip ==
  /\ at = "next" /\ More /\ ~Enabled(Head(todo))
  /\ Take
  /\ UNCHANGED <<agent, rows, past, at, result, broken, link, calls, local>>

(* Mutant: the last specialist's output alone says whether to escalate. *)
MutAdd(text, card, escalate) ==
  result' = [count |-> result.count + 1, text |-> text,
             cards |-> result.count = 0 /\ card, escalate |-> escalate]

(* _aggregate, one output at a time: the last text, any escalation, and a  *)
(* carousel only from a single specialist.                                 *)
Add(text, card, escalate) ==
  result' = [count |-> result.count + 1, text |-> text,
             cards |-> result.count = 0 /\ card, escalate |-> result.escalate \/ escalate]

(* _check_human_approval_needed: level 1 goes by the words of the task.    *)
Gates(level) == CASE level = "draft"   -> {TRUE}
                  [] level = "propose" -> BOOLEAN
                  [] level = "auto"    -> {FALSE}

AskContent ==
  /\ at = "next" /\ More /\ Head(todo) = "content" /\ Enabled("content")
  /\ \E gate \in Gates(agent["content"]) : Add(TRUE, FALSE, gate)
  /\ Take
  /\ UNCHANGED <<agent, rows, past, at, broken, link, calls, local>>

AskLeadQualifier ==
  /\ at = "next" /\ More /\ Head(todo) = "lead_qualifier" /\ Enabled("lead_qualifier")
  /\ Add(FALSE, FALSE, FALSE)
  /\ Take
  /\ UNCHANGED <<agent, rows, past, at, broken, link, calls, local>>

AskConversation ==
  /\ at = "next" /\ More /\ Head(todo) = "conversation" /\ Enabled("conversation")
  /\ Take
  /\ at' = "round"
  /\ words' = past
  /\ UNCHANGED <<agent, rows, past, round, asked, cards, result, broken, link, calls>>

-----------------------------------------------------------------------------
(* One round of the conversation agent: the LLM writes text or none, and   *)
(* stops or calls tools; behind the last round its tools still run.        *)
Round ==
  /\ at = "round"
  /\ round' = round + 1
  /\ calls' = calls + 1
  /\ words' \in {words, TRUE}
  /\ at' \in {"tools", "finish"}
  /\ UNCHANGED <<agent, rows, past, todo, taken, asked, cards, result, broken, link>>

(* Mutant: one round more. *)
MutAfterTools(escalates) == IF asked \/ escalates \/ round > MaxToolRounds THEN "finish" ELSE "round"

(* The loop goes on unless it is at its limit or a human was asked for.    *)
AfterTools(escalates) == IF asked \/ escalates \/ round = MaxToolRounds THEN "finish" ELSE "round"

(* Mutant: the except clause rolls the session back, so that it can be     *)
(* committed after all.                                                    *)
MutHandOff ==
  \/ UNCHANGED <<broken, link>>
  \/ broken' = FALSE /\ link' = (IF link = "lost" THEN "lost" ELSE "open")
  \/ broken' = FALSE /\ link' \in {link, "lost"} /\ (link = "open" => link' = "lost")

(* suggest_telegram_handoff, as often as the answer calls it: it inserts a *)
(* row in the job's session and gives its token to the LLM, in a link.     *)
(* When that fails the exception is swallowed, the link has no token, and  *)
(* the session refuses everything but a rollback, also further tokens.     *)
HandOff ==
  \/ UNCHANGED <<broken, link>>
  \/ ~broken /\ broken' = FALSE /\ link' = "open"
  \/ ~broken /\ broken' = TRUE /\ link' \in {link, "lost"} /\ (link = "open" => link' = "lost")

(* The tools of one answer.  show_product_carousel replaces the cards by   *)
(* what it finds.                                                          *)
RunTools ==
  /\ at = "tools"
  /\ \E escalates \in BOOLEAN :
       /\ asked' = (asked \/ escalates)
       /\ at' = AfterTools(escalates)
  /\ cards' \in BOOLEAN
  /\ HandOff
  /\ UNCHANGED <<agent, rows, past, todo, taken, round, words, result, calls>>

(* The locals of handle are gone. *)
LeaveAgent == round' = 0 /\ words' = FALSE /\ asked' = FALSE /\ cards' = FALSE

(* The output: the LLM's last text, or without one the assistant's of the  *)
(* past (_extract_text_from_history).                                      *)
Finish ==
  /\ at = "finish"
  /\ \E gate \in Gates(agent["conversation"]) : Add(words, cards, asked \/ gate)
  /\ at' = "next"
  /\ LeaveAgent
  /\ UNCHANGED <<agent, rows, past, todo, taken, broken, link, calls>>

(* The orchestrator returns, to a human if nobody was called, and the      *)
(* worker commits; the commit of a broken session raises.                  *)
Conclude ==
  /\ at = "next" /\ ~More
  /\ at' = IF broken THEN "failed" ELSE "done"
  /\ result' = IF result.count = 0 THEN [result EXCEPT !.escalate = TRUE] ELSE result
  /\ UNCHANGED <<agent, rows, past, todo, taken, broken, link, calls, local>>

(* A query, an LLM call (one that shows an operator's row may be           *)
(* refused), a tool given unexpected input, or the commit raises.          *)
Fail ==
  /\ at \in {"read", "route", "round", "tools"} \/ (at = "next" /\ ~More)
  /\ at' = "failed"
  /\ UNCHANGED <<agent, rows, past, todo, taken, result, broken, link, calls, local>>

JobStep ==
  \/ ReadHistory \/ Route \/ Skip \/ AskContent \/ AskLeadQualifier \/ AskConversation
  \/ Round \/ RunTools \/ Finish \/ Conclude \/ Fail

Next == AddRow \/ JobStep

Spec == Init /\ [][Next]_vars

(* Every await of the job ends. *)
FairSpec == Spec /\ WF_vars(JobStep)

-----------------------------------------------------------------------------
TypeOK ==
  /\ agent \in [Specialists -> Levels \cup {"off"}]
  /\ thread \in Seq({"user", "assistant", "agent"}) /\ mine \in 0..Len(thread)
  /\ past \in BOOLEAN
  /\ at \in {"read", "route", "next", "round", "tools", "finish", "done", "failed"}
  /\ todo \in Seq(Names) /\ taken \in 0..MaxSpecialistCalls
  /\ round \in 0..MaxToolRounds /\ words \in BOOLEAN
  /\ asked \in BOOLEAN /\ cards \in BOOLEAN
  /\ result \in [count : 0..MaxSpecialistCalls, text : BOOLEAN,
                 cards : BOOLEAN, escalate : BOOLEAN]
  /\ broken \in BOOLEAN /\ link \in {"none", "open", "lost"}
  /\ calls \in Nat

(* An escalation the LLM asked for, or that a draft agent owes to its      *)
(* level, is in the output, whatever the specialists called later say; and *)
(* a job that called nobody goes to a human.                               *)
EscalationKept ==
  [][/\ at = "finish" /\ (asked \/ agent["conversation"] = "draft") => result'.escalate
     /\ result.escalate => result'.escalate
     /\ at' = "done" /\ result.count = 0 => result'.escalate]_vars

(* Of the latest rows of the conversation a specialist misses none but the *)
(* message it answers, or a newer one, which has a job of its own: not     *)
(* when jobs and operators write to the conversation meanwhile either.     *)
NoRowMissed ==
  at = "read" =>
    \A n \in {ChannelRows, CustomerRows}, i \in DOMAIN thread :
      (i > Len(thread) - n /\ i > Len(thread) - SpecialistRows) => i \in Shown(n) \/ i >= mine

(* No answer goes out with a handoff link that leads nowhere: when the     *)
(* insert of a later token fails, the rows of the earlier ones go too, so  *)
(* the job must not come to an answer, whatever its LLM was already given. *)
LinksKept == at = "done" => link # "lost"

(* Whatever the LLM asks for, the job ends. *)
Ends == <>(at \in {"done", "failed"})

-----------------------------------------------------------------------------
(* The job as MessageWorker sees it, which has one level for all its       *)
(* agents: "draft" here if none that can write is beyond it.               *)
AllDraft == \A s \in {"conversation", "content"} : agent[s] \in {"draft", "off"}

WorkerJob ==
  [at       |-> CASE at = "done" -> "store" [] at = "failed" -> "error" [] OTHER -> "llm",
   level    |-> IF at = "failed" THEN "off" ELSE IF AllDraft THEN "draft" ELSE "auto",
   calls    |-> IF at = "failed" THEN 0 ELSE calls,
   escalate |-> at = "done" /\ result.escalate,
   texts    |-> IF at = "done" /\ (result.text \/ result.cards) THEN 1 ELSE 0,
   tries    |-> 0]

Worker == INSTANCE MessageWorker WITH
  Msgs <- {"m"}, Channel <- [m \in {"m"} |-> "telegram"],
  MaxJobs <- 1, MaxRestarts <- 0, MaxTries <- 3,
  MaxLlmCalls <- MaxSpecialistCalls * MaxToolRounds + 1,
  tenant <- [status |-> "active", enabled |-> TRUE],
  job <- [m \in {"m"} |-> WorkerJob],
  reply <- [m \in {"m"} |-> 0], sent <- [m \in {"m"} |-> 0], audited <- {}, restarts <- 0

(* What MessageWorker assumes of the agents: their calls are bounded, they *)
(* answer after at least one, and draft agents answer to a human only.     *)
StepsOfWorker ==
  [][Worker!LlmCall("m") \/ Worker!LlmFails("m") \/ Worker!Decide("m")]_WorkerJob
=============================================================================

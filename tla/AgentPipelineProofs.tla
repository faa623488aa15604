------------------------ MODULE AgentPipelineProofs ------------------------
(***************************************************************************)
(* Proofs about AgentPipeline for every limit on rounds, specialists and   *)
(* rows: the types, that no row of the conversation is missed for another  *)
(* than the message being answered, that no escalation is lost, that no    *)
(* dead link is answered, and that a job takes the steps of a worker's.    *)
(***************************************************************************)
EXTENDS AgentPipeline, SequenceTheorems, TLAPS

Roles == {"user", "assistant", "agent"}

(* A conversation that is being read has the job's own row. *)
OwnRow == at = "read" => mine \in 1..Len(thread)

(* The tool rounds are counted only while the conversation agent runs, and *)
(* the specialists that answered are among the decisions taken.            *)
Counted ==
  /\ at = "round" => round < MaxToolRounds
  /\ at \in {"read", "route", "next"} => round = 0
  /\ result.count <= taken
  /\ at \in {"round", "tools", "finish"} => result.count < taken

IInv == TypeOK /\ OwnRow /\ Counted

Results == [count : 0..MaxSpecialistCalls, text : BOOLEAN,
            cards : BOOLEAN, escalate : BOOLEAN]

-----------------------------------------------------------------------------
LEMMA InsertType ==
  ASSUME NEW S, NEW s \in Seq(S), NEW i \in 1..Len(s) + 1, NEW e \in S
  PROVE  InsertAt(s, i, e) \in Seq(S) /\ Len(InsertAt(s, i, e)) = Len(s) + 1
<1>1. SubSeq(s, 1, i - 1) \in Seq(S) /\ Len(SubSeq(s, 1, i - 1)) = i - 1
  BY SubSeqProperties
<1>2. SubSeq(s, i, Len(s)) \in Seq(S) /\ Len(SubSeq(s, i, Len(s))) = Len(s) - i + 1
  BY SubSeqProperties
<1>3. <<e>> \in Seq(S) /\ Len(<<e>>) = 1
  OBVIOUS
<1>4. /\ SubSeq(s, 1, i - 1) \o <<e>> \in Seq(S)
      /\ Len(SubSeq(s, 1, i - 1) \o <<e>>) = i
  BY <1>1, <1>3, ConcatProperties
<1> DEFINE A == SubSeq(s, 1, i - 1) \o <<e>>
           B == SubSeq(s, i, Len(s))
<1>5. A \in Seq(S) /\ B \in Seq(S) /\ Len(A) = i /\ Len(B) = Len(s) - i + 1
  BY <1>2, <1>4
<1>6. InsertAt(s, i, e) = A \o B
  BY DEF InsertAt
<1> HIDE DEF A, B
<1>7. A \o B \in Seq(S) /\ Len(A \o B) = Len(A) + Len(B)
  BY <1>5, ConcatProperties
<1> QED
  BY <1>5, <1>6, <1>7

LEMMA AddType ==
  ASSUME result \in Results, result.count < MaxSpecialistCalls,
         NEW text \in BOOLEAN, NEW card \in BOOLEAN, NEW esc \in BOOLEAN,
         Add(text, card, esc)
  PROVE  /\ result' \in Results /\ result'.count = result.count + 1
         /\ result'.escalate = (result.escalate \/ esc)
  BY LimitsAssumption DEF Add, Results

LEMMA GatesType == \A l \in Levels : Gates(l) \subseteq BOOLEAN
  BY DEF Gates, Levels

-----------------------------------------------------------------------------
LEMMA InvInit == Init => IInv
<1> SUFFICES ASSUME Init PROVE IInv
  OBVIOUS
<1>1. <<"user">> \in Seq(Roles) /\ Len(<<"user">>) = 1 /\ <<>> \in Seq(Names)
  BY DEF Roles
<1>2. thread \in Seq(Roles) /\ mine \in 1..Len(thread) /\ mine \in 0..Len(thread)
  BY <1>1 DEF Init
<1>3. result \in Results /\ result.count = 0
  BY LimitsAssumption DEF Init, NoResult, Results
<1>4. TypeOK
  <2>1. /\ agent \in [Specialists -> Levels \cup {"off"}] /\ past \in BOOLEAN
        /\ at \in {"read", "route", "next", "round", "tools", "finish", "done", "failed"}
        /\ asked \in BOOLEAN /\ cards \in BOOLEAN /\ broken \in BOOLEAN
        /\ words \in BOOLEAN /\ link \in {"none", "open", "lost"}
    BY DEF Init
  <2>2. /\ taken \in 0..MaxSpecialistCalls /\ round \in 0..MaxToolRounds /\ calls \in Nat
        /\ todo \in Seq(Names)
    BY <1>1, LimitsAssumption DEF Init
  <2> QED
    BY <1>2, <1>3, <2>1, <2>2 DEF TypeOK, Roles, Results
<1>5. OwnRow /\ Counted
  BY <1>2, <1>3 DEF Init, OwnRow, Counted
<1> QED
  BY <1>4, <1>5 DEF IInv

LEMMA InvStep == IInv /\ [Next]_vars => IInv'
<1> SUFFICES ASSUME IInv, [Next]_vars PROVE IInv'
  OBVIOUS
<1>0. /\ result \in Results /\ result.count \in Nat /\ taken \in 0..MaxSpecialistCalls
      /\ result.count <= taken
  BY DEF IInv, TypeOK, Results, Counted
<1>1. CASE AddRow
  <2>1. PICK i \in 1..Len(thread) + 1, role \in Roles :
          thread' = InsertAt(thread, i, role) /\ mine' = IF i <= mine THEN mine + 1 ELSE mine
    BY <1>1 DEF AddRow, Roles
  <2>2. thread \in Seq(Roles) /\ Len(thread) \in Nat /\ at = "read" /\ mine \in 1..Len(thread)
    BY <1>1 DEF AddRow, IInv, TypeOK, OwnRow, Roles
  <2>3. thread' \in Seq(Roles) /\ Len(thread') = Len(thread) + 1
    BY <2>1, <2>2, InsertType
  <2>4. mine' \in 1..Len(thread')
    BY <2>1, <2>2, <2>3
  <2> QED
    BY <1>1, <2>2, <2>3, <2>4
       DEF AddRow, local, IInv, TypeOK, OwnRow, Counted, Roles
<1>2. CASE ReadHistory
  BY <1>2 DEF ReadHistory, local, IInv, TypeOK, OwnRow, Counted
<1>3. CASE Route
  <2>1. todo' \in Seq(Names)
    BY <1>3 DEF Route
  <2> QED
    BY <1>3, <2>1, LimitsAssumption DEF Route, rows, local, IInv, TypeOK, OwnRow, Counted
<1>4. ASSUME More PROVE Head(todo) \in Names /\ Tail(todo) \in Seq(Names) /\ taken + 1 \in 1..MaxSpecialistCalls
  BY <1>4, HeadTailProperties, LimitsAssumption DEF More, IInv, TypeOK
<1>5. CASE Skip
  BY <1>0, <1>4, <1>5 DEF Skip, Take, rows, local, IInv, TypeOK, OwnRow, Counted
<1>6. CASE AskContent
  <2>1. PICK gate \in Gates(agent["content"]) : Add(TRUE, FALSE, gate)
    BY <1>6 DEF AskContent
  <2>2. gate \in BOOLEAN
    BY <1>6, <2>1, GatesType DEF AskContent, Enabled, Specialists, IInv, TypeOK
  <2>3. result.count < MaxSpecialistCalls
    BY <1>0, <1>6, LimitsAssumption DEF AskContent, More
  <2>4. result' \in Results /\ result'.count = result.count + 1
    BY <1>0, <2>1, <2>2, <2>3, AddType
  <2> QED
    BY <1>0, <1>4, <1>6, <2>4
       DEF AskContent, Take, rows, local, IInv, TypeOK, OwnRow, Counted, Results
<1>7. CASE AskLeadQualifier
  <2>1. result.count < MaxSpecialistCalls
    BY <1>0, <1>7, LimitsAssumption DEF AskLeadQualifier, More
  <2>2. result' \in Results /\ result'.count = result.count + 1
    BY <1>0, <1>7, <2>1, AddType DEF AskLeadQualifier
  <2> QED
    BY <1>0, <1>4, <1>7, <2>2
       DEF AskLeadQualifier, Take, rows, local, IInv, TypeOK, OwnRow, Counted, Results
<1>8. CASE AskConversation
  <2>1. words' \in BOOLEAN
    BY <1>8 DEF AskConversation, IInv, TypeOK
  <2> QED
    BY <1>0, <1>4, <1>8, <2>1, LimitsAssumption
       DEF AskConversation, Take, rows, IInv, TypeOK, OwnRow, Counted
<1>9. CASE Round
  <2>1. words' \in BOOLEAN
    BY <1>9 DEF Round, IInv, TypeOK
  <2> QED
    BY <1>0, <1>9, <2>1, LimitsAssumption
       DEF Round, rows, IInv, TypeOK, OwnRow, Counted
<1>10. CASE RunTools
  <2>1. at = "tools" /\ at' \in {"round", "finish"} /\ (at' = "round" => round # MaxToolRounds)
        /\ asked' \in BOOLEAN
    BY <1>10 DEF RunTools, AfterTools, IInv, TypeOK
  <2>2. broken' \in BOOLEAN /\ link' \in {"none", "open", "lost"} /\ cards' \in BOOLEAN
    BY <1>10 DEF RunTools, HandOff, IInv, TypeOK
  <2>3. TypeOK'
    BY <1>10, <2>1, <2>2 DEF RunTools, rows, IInv, TypeOK
  <2>4. (OwnRow /\ Counted)'
    BY <1>0, <1>10, <2>1, LimitsAssumption DEF RunTools, IInv, TypeOK, OwnRow, Counted
  <2> QED
    BY <2>3, <2>4 DEF IInv
<1>11. CASE Finish
  <2>1. PICK gate \in Gates(agent["conversation"]) : Add(words, cards, asked \/ gate)
    BY <1>11 DEF Finish
  <2>2. (asked \/ gate) \in BOOLEAN /\ cards \in BOOLEAN /\ words \in BOOLEAN
    BY DEF IInv, TypeOK
  <2>3. result.count < MaxSpecialistCalls /\ result.count < taken
    BY <1>0, <1>11, LimitsAssumption DEF Finish, IInv, Counted
  <2>4. result' \in Results /\ result'.count = result.count + 1
    BY <1>0, <2>1, <2>2, <2>3, AddType
  <2>6. TypeOK'
    <3>1. /\ round' = 0 /\ words' = FALSE /\ asked' = FALSE /\ cards' = FALSE /\ at' = "next"
      BY <1>11 DEF Finish, LeaveAgent
    <3>2. round' \in 0..MaxToolRounds
      BY <3>1, LimitsAssumption
    <3> QED
      BY <1>11, <2>4, <3>1, <3>2 DEF Finish, rows, IInv, TypeOK, Results
  <2>7. (OwnRow /\ Counted)'
    BY <1>0, <1>11, <2>3, <2>4 DEF Finish, LeaveAgent, IInv, OwnRow, Counted
  <2> QED
    BY <2>6, <2>7 DEF IInv
<1>12. CASE Conclude
  <2>1. result' \in Results /\ result'.count = result.count
    BY <1>0, <1>12 DEF Conclude, Results
  <2> QED
    BY <1>0, <1>12, <2>1 DEF Conclude, rows, local, IInv, TypeOK, OwnRow, Counted, Results
<1>13. CASE Fail
  BY <1>0, <1>13 DEF Fail, rows, local, IInv, TypeOK, OwnRow, Counted
<1>14. CASE UNCHANGED vars
  BY <1>14 DEF vars, rows, local, IInv, TypeOK, OwnRow, Counted
<1> QED
  BY <1>1, <1>2, <1>3, <1>5, <1>6, <1>7, <1>8, <1>9, <1>10, <1>11, <1>12, <1>13, <1>14
     DEF Next, JobStep

LEMMA InvHolds == Spec => []IInv
  BY InvInit, InvStep, PTL DEF Spec

(* The pipeline keeps its types: rounds, decisions and outputs stay within *)
(* MAX_TOOL_ROUNDS and MAX_SPECIALIST_CALLS whatever the LLM asks for.     *)
THEOREM TypeCorrect == Spec => []TypeOK
  BY InvHolds, PTL DEF IInv

-----------------------------------------------------------------------------
LEMMA NothingMissed == IInv => NoRowMissed
<1> SUFFICES ASSUME IInv, at = "read", NEW n \in {ChannelRows, CustomerRows},
                    NEW i \in DOMAIN thread, i > Len(thread) - n,
                    i > Len(thread) - SpecialistRows, i < mine
             PROVE  i \in Shown(n)
  BY DEF NoRowMissed, IInv, TypeOK
<1>1. Len(thread) \in Nat /\ i \in 1..Len(thread) /\ mine \in 1..Len(thread)
  BY DEF IInv, TypeOK, OwnRow
<1>2. Trimmed \in {Len(thread) - 1, Len(thread)}
  BY DEF Trimmed
<1> QED
  BY <1>1, <1>2, LimitsAssumption DEF Shown

(* _process takes the last row of the history off without asking whose it  *)
(* is: whatever is written meanwhile, it is the job's own or a newer one.  *)
THEOREM HistoryComplete == Spec => []NoRowMissed
  BY InvHolds, NothingMissed, PTL

-----------------------------------------------------------------------------
Kept ==
  /\ at = "finish" /\ (asked \/ agent["conversation"] = "draft") => result'.escalate
  /\ result.escalate => result'.escalate
  /\ at' = "done" /\ result.count = 0 => result'.escalate

LEMMA KeptStep == IInv /\ Next => Kept
<1> SUFFICES ASSUME IInv, Next PROVE Kept
  OBVIOUS
<1>0. result \in Results /\ result.count <= taken /\ taken \in 0..MaxSpecialistCalls
  BY DEF IInv, TypeOK, Results, Counted
<1>1. CASE AddRow \/ ReadHistory \/ Route \/ Skip \/ AskConversation \/ Round \/ RunTools \/ Fail
  <2>1. result' = result /\ at' # "done" /\ at # "finish"
    BY <1>1 DEF AddRow, ReadHistory, Route, Skip, AskConversation, Round, RunTools, AfterTools, Fail
  <2> QED
    BY <2>1 DEF Kept
<1>2. CASE AskContent
  <2>1. PICK gate \in Gates(agent["content"]) : Add(TRUE, FALSE, gate)
    BY <1>2 DEF AskContent
  <2>2. /\ result'.escalate = (result.escalate \/ gate) /\ at' = "next" /\ at = "next"
    BY <1>2, <2>1 DEF AskContent, Add
  <2> QED
    BY <2>2 DEF Kept
<1>3. CASE AskLeadQualifier
  BY <1>3 DEF AskLeadQualifier, Add, Kept
<1>4. CASE Finish
  <2>1. PICK gate \in Gates(agent["conversation"]) : Add(words, cards, asked \/ gate)
    BY <1>4 DEF Finish
  <2>2. result'.escalate = (result.escalate \/ (asked \/ gate)) /\ at' = "next"
    BY <1>4, <2>1 DEF Finish, Add
  <2>3. agent["conversation"] = "draft" => gate = TRUE
    BY <2>1 DEF Gates
  <2> QED
    BY <2>2, <2>3 DEF Kept
<1>5. CASE Conclude
  BY <1>0, <1>5 DEF Conclude, Kept, Results
<1> QED
  BY <1>1, <1>2, <1>3, <1>4, <1>5 DEF Next, JobStep

(* OrchestratorAgent._aggregate and ConversationAgent.handle: for every    *)
(* number of specialists and rounds, an escalation asked for by the LLM or *)
(* owed to a level 0 is in the output of the job.                          *)
THEOREM EscalationStays == Spec => EscalationKept
<1>1. IInv /\ [Next]_vars => [Kept]_vars
  BY KeptStep
<1> QED
  BY <1>1, InvHolds, PTL DEF Spec, EscalationKept, Kept
-----------------------------------------------------------------------------
(* The calls made so far: one of the routing, and at most MaxToolRounds of *)
(* each decision taken.                                                    *)
CallsBounded ==
  /\ at \in {"read", "route"} => calls = 0 /\ taken = 0
  /\ at = "next" => calls >= 1 /\ calls <= 1 + taken * MaxToolRounds
  /\ at \in {"round", "tools", "finish"} =>
       /\ agent["conversation"] # "off" /\ taken >= 1
       /\ calls >= 1 /\ calls <= 1 + (taken - 1) * MaxToolRounds + round

(* Drafts only answer to a human. *)
DraftsEscalate == AllDraft => (~result.text /\ ~result.cards) \/ result.escalate

SimInv == IInv /\ CallsBounded /\ DraftsEscalate

(* One decision more has room for its rounds. *)
LEMMA OneMore ==
  ASSUME NEW n \in Nat
  PROVE  /\ (n + 1) * MaxToolRounds = n * MaxToolRounds + MaxToolRounds
         /\ n * MaxToolRounds \in Nat
         /\ n + 1 <= MaxSpecialistCalls =>
              n * MaxToolRounds + MaxToolRounds <= MaxSpecialistCalls * MaxToolRounds
<1>1. (n + 1) * MaxToolRounds = n * MaxToolRounds + MaxToolRounds /\ n * MaxToolRounds \in Nat
  BY LimitsAssumption
<1>2. ASSUME n + 1 <= MaxSpecialistCalls
      PROVE  (n + 1) * MaxToolRounds <= MaxSpecialistCalls * MaxToolRounds
  BY <1>2, LimitsAssumption
<1> QED
  BY <1>1, <1>2

LEMMA SimInit == Init => SimInv
  BY InvInit, LimitsAssumption DEF SimInv, Init, CallsBounded, DraftsEscalate, NoResult

LEMMA CallsStep == SimInv /\ [Next]_vars => CallsBounded'
<1> SUFFICES ASSUME SimInv, [Next]_vars PROVE CallsBounded'
  OBVIOUS
<1>0. taken \in Nat /\ calls \in Nat /\ round \in Nat /\ MaxToolRounds \in Nat
  BY LimitsAssumption DEF SimInv, IInv, TypeOK
<1>1. taken * MaxToolRounds \in Nat /\ (taken + 1) * MaxToolRounds = taken * MaxToolRounds + MaxToolRounds
  BY <1>0, OneMore
<1>2. CASE AddRow \/ ReadHistory
  BY <1>2 DEF AddRow, ReadHistory, local, SimInv, CallsBounded
<1>3. CASE Route
  <2>1. taken' = 0 /\ calls' = 1 /\ at' = "next" /\ taken' * MaxToolRounds = 0
    BY <1>0, <1>3 DEF Route, SimInv, CallsBounded
  <2> QED
    BY <2>1 DEF CallsBounded
<1>4. CASE Skip \/ AskContent \/ AskLeadQualifier
  <2>1. at = "next" /\ at' = "next" /\ taken' = taken + 1 /\ calls' = calls
    BY <1>4 DEF Skip, AskContent, AskLeadQualifier, Take
  <2> QED
    BY <1>0, <1>1, <2>1 DEF SimInv, CallsBounded
<1>5. CASE AskConversation
  <2>1. /\ at = "next" /\ at' = "round" /\ taken' = taken + 1 /\ calls' = calls
        /\ round' = round /\ agent["conversation"] # "off" /\ agent' = agent
    BY <1>5 DEF AskConversation, Take, Enabled
  <2>2. calls >= 1 /\ calls <= 1 + taken * MaxToolRounds
    BY <2>1 DEF SimInv, CallsBounded
  <2>3. taken' - 1 = taken
    BY <1>0, <2>1
  <2> QED
    BY <1>0, <1>1, <2>1, <2>2, <2>3 DEF CallsBounded
<1>6. CASE Round \/ RunTools
  <2>1. /\ at \in {"round", "tools"} /\ at' \in {"round", "tools", "finish"}
        /\ taken' = taken /\ agent' = agent
        /\ \/ calls' = calls + 1 /\ round' = round + 1
           \/ calls' = calls /\ round' = round
    BY <1>6 DEF Round, RunTools, AfterTools
  <2>2. /\ agent["conversation"] # "off" /\ taken >= 1
        /\ calls >= 1 /\ calls <= 1 + (taken - 1) * MaxToolRounds + round
    BY <2>1 DEF SimInv, CallsBounded
  <2>3. (taken - 1) * MaxToolRounds \in Int
    BY <1>0
  <2> QED
    BY <1>0, <2>1, <2>2, <2>3 DEF CallsBounded
<1>7. CASE Finish
  <2>1. at = "finish" /\ at' = "next" /\ taken' = taken /\ calls' = calls
    BY <1>7 DEF Finish
  <2>2. taken >= 1 /\ calls >= 1 /\ calls <= 1 + (taken - 1) * MaxToolRounds + round
    BY <2>1 DEF SimInv, CallsBounded
  <2>3. round <= MaxToolRounds
    BY LimitsAssumption DEF SimInv, IInv, TypeOK
  <2>4. taken - 1 \in Nat /\ taken - 1 + 1 = taken
    BY <1>0, <2>2
  <2>5. (taken - 1 + 1) * MaxToolRounds = (taken - 1) * MaxToolRounds + MaxToolRounds
        /\ (taken - 1) * MaxToolRounds \in Nat
    BY <2>4, OneMore
  <2> QED
    BY <1>0, <1>1, <2>1, <2>2, <2>3, <2>4, <2>5 DEF CallsBounded
<1>8. CASE Conclude \/ Fail
  <2>1. at' \in {"done", "failed"}
    BY <1>8 DEF Conclude, Fail
  <2> QED
    BY <2>1 DEF CallsBounded
<1>9. CASE UNCHANGED vars
  BY <1>9 DEF vars, SimInv, CallsBounded
<1> QED
  BY <1>2, <1>3, <1>4, <1>5, <1>6, <1>7, <1>8, <1>9 DEF Next, JobStep

LEMMA DraftsStep == SimInv /\ [Next]_vars => DraftsEscalate'
<1> SUFFICES ASSUME SimInv, [Next]_vars, AllDraft' PROVE (~result.text /\ ~result.cards)' \/ result'.escalate
  BY DEF DraftsEscalate
<1>0. agent' = agent /\ AllDraft
  BY DEF AddRow, ReadHistory, Route, Skip, AskContent, AskLeadQualifier, AskConversation, Round,
     RunTools, Finish, Conclude, Fail, Next, JobStep, vars, AllDraft
<1>1. CASE result' = result
  BY <1>0, <1>1 DEF SimInv, DraftsEscalate
<1>2. CASE AskContent
  <2>1. agent["content"] = "draft"
    BY <1>0, <1>2 DEF AskContent, Enabled, AllDraft
  <2>2. Gates(agent["content"]) = {TRUE}
    BY <2>1 DEF Gates
  <2>3. Add(TRUE, FALSE, TRUE)
    BY <1>2, <2>2 DEF AskContent
  <2>4. result'.escalate = (result.escalate \/ TRUE)
    BY <2>3 DEF Add
  <2> QED
    BY <2>4
<1>3. CASE AskLeadQualifier
  BY <1>3 DEF AskLeadQualifier, Add
<1>4. CASE Finish
  <2>1. agent["conversation"] = "draft"
    BY <1>0, <1>4 DEF Finish, SimInv, CallsBounded, AllDraft
  <2>2. Gates(agent["conversation"]) = {TRUE}
    BY <2>1 DEF Gates
  <2>3. Add(words, cards, asked \/ TRUE)
    BY <1>4, <2>2 DEF Finish
  <2>4. result'.escalate = (result.escalate \/ (asked \/ TRUE))
    BY <2>3 DEF Add
  <2> QED
    BY <2>4
<1>5. CASE Conclude
  <2>1. result \in Results
    BY DEF SimInv, IInv, TypeOK, Results
  <2>2. result' = result \/ result'.escalate
    BY <1>5, <2>1 DEF Conclude, Results
  <2> QED
    BY <1>1, <2>2
<1> QED
  BY <1>1, <1>2, <1>3, <1>4, <1>5 DEF Next, JobStep, AddRow, ReadHistory, Route, Skip,
     AskConversation, Round, RunTools, Fail, vars

LEMMA SimHolds == Spec => []SimInv
<1>1. SimInv /\ [Next]_vars => SimInv'
  BY InvStep, CallsStep, DraftsStep DEF SimInv
<1> QED
  BY <1>1, SimInit, PTL DEF Spec

-----------------------------------------------------------------------------
(* The step of the job as the worker sees it. *)
WorkerStep == Worker!LlmCall("m") \/ Worker!LlmFails("m") \/ Worker!Decide("m")

Level == IF AllDraft THEN "draft" ELSE "auto"

(* Before its end a job only shows its calls. *)
LEMMA Inside ==
  ASSUME at \notin {"done", "failed"}
  PROVE  WorkerJob = [at |-> "llm", level |-> Level,
                      calls |-> calls, escalate |-> FALSE, texts |-> 0, tries |-> 0]
  BY DEF WorkerJob, Level

LEMMA InsideNext ==
  ASSUME at' \notin {"done", "failed"}, agent' = agent
  PROVE  WorkerJob' = [at |-> "llm", level |-> Level,
                       calls |-> calls', escalate |-> FALSE, texts |-> 0, tries |-> 0]
  BY DEF WorkerJob, Level, AllDraft

LEMMA CallStep ==
  ASSUME SimInv, Route \/ Round
  PROVE  Worker!LlmCall("m")
<1>0. calls \in Nat /\ taken \in 0..MaxSpecialistCalls /\ round \in Nat /\ MaxToolRounds \in Nat
  BY LimitsAssumption DEF SimInv, IInv, TypeOK
<1>1. /\ at \in {"route", "round"} /\ at' \notin {"done", "failed"}
      /\ agent' = agent /\ calls' = calls + 1
  BY DEF Route, Round
<1>2. calls < MaxSpecialistCalls * MaxToolRounds + 1
  <2>1. CASE at = "route"
    <3>1. MaxSpecialistCalls * MaxToolRounds \in Nat
      BY LimitsAssumption
    <3> QED
      BY <1>0, <2>1, <3>1 DEF SimInv, CallsBounded
  <2>2. CASE at = "round"
    <3>1. taken >= 1 /\ round < MaxToolRounds /\ calls <= 1 + (taken - 1) * MaxToolRounds + round
      BY <2>2 DEF SimInv, CallsBounded, IInv, Counted
    <3>2. taken - 1 \in Nat /\ taken - 1 + 1 <= MaxSpecialistCalls
      BY <1>0, <3>1, LimitsAssumption
    <3>3. /\ (taken - 1) * MaxToolRounds \in Nat
          /\ (taken - 1) * MaxToolRounds + MaxToolRounds <= MaxSpecialistCalls * MaxToolRounds
      BY <3>2, OneMore
    <3>4. MaxSpecialistCalls * MaxToolRounds \in Nat
      BY LimitsAssumption
    <3> QED
      BY <1>0, <3>1, <3>3, <3>4
  <2> QED
    BY <1>1, <2>1, <2>2
<1>3. WorkerJob.at = "llm" /\ WorkerJob.calls = calls
  BY <1>1, Inside
<1>4. WorkerJob' = [WorkerJob EXCEPT !.calls = WorkerJob.calls + 1]
  <2>1. WorkerJob = [at |-> "llm", level |-> Level,
                     calls |-> calls, escalate |-> FALSE, texts |-> 0, tries |-> 0]
    BY <1>1, Inside
  <2>2. WorkerJob' = [at |-> "llm", level |-> Level,
                      calls |-> calls + 1, escalate |-> FALSE, texts |-> 0, tries |-> 0]
    BY <1>1, InsideNext
  <2> DEFINE Shapes == [at : {"llm"}, level : {"draft", "auto"}, calls : Nat,
                        escalate : BOOLEAN, texts : {0}, tries : {0}]
  <2>3. WorkerJob \in Shapes /\ WorkerJob' \in Shapes
    <3>1. Level \in {"draft", "auto"} /\ calls + 1 \in Nat
      BY <1>0 DEF Level
    <3>2. [at |-> "llm", level |-> Level, calls |-> calls, escalate |-> FALSE,
           texts |-> 0, tries |-> 0] \in Shapes
      BY <1>0, <3>1
    <3>3. [at |-> "llm", level |-> Level, calls |-> calls + 1, escalate |-> FALSE,
           texts |-> 0, tries |-> 0] \in Shapes
      BY <1>0, <3>1
    <3> QED
      BY <2>1, <2>2, <3>2, <3>3, Zenon
  <2>4. /\ WorkerJob'.at = WorkerJob.at /\ WorkerJob'.level = WorkerJob.level
        /\ WorkerJob'.calls = WorkerJob.calls + 1 /\ WorkerJob'.escalate = WorkerJob.escalate
        /\ WorkerJob'.texts = WorkerJob.texts /\ WorkerJob'.tries = WorkerJob.tries
    BY <2>1, <2>2
  <2>5. ASSUME NEW j \in Shapes, NEW k \in Shapes, k.at = j.at, k.level = j.level,
               k.calls = j.calls + 1, k.escalate = j.escalate, k.texts = j.texts, k.tries = j.tries
        PROVE  k = [j EXCEPT !.calls = j.calls + 1]
    BY <2>5
  <2> QED
    BY <2>3, <2>4, <2>5
<1>5. [m \in {"m"} |-> WorkerJob]' = [[m \in {"m"} |-> WorkerJob] EXCEPT !["m"].calls = @ + 1]
  BY <1>4
<1> QED
  BY <1>2, <1>3, <1>5 DEF Worker!LlmCall, Worker!Allowed, Worker!IsComment

LEMMA FailStep ==
  ASSUME at \notin {"done", "failed"}, at' = "failed"
  PROVE  Worker!LlmFails("m")
<1>1. WorkerJob.at = "llm"
  BY DEF WorkerJob
<1>2. WorkerJob' = [at |-> "error", level |-> "off", calls |-> 0, escalate |-> FALSE,
                    texts |-> 0, tries |-> 0]
  BY DEF WorkerJob
<1> QED
  BY <1>1, <1>2 DEF Worker!LlmFails, Worker!Raise, Worker!NewJob, Worker!JobWith

LEMMA DecideStep ==
  ASSUME SimInv, Conclude, ~broken
  PROVE  Worker!Decide("m")
<1>0. result \in Results /\ calls \in Nat
  BY DEF SimInv, IInv, TypeOK, Results
<1>1. at = "next" /\ at' = "done" /\ agent' = agent /\ calls' = calls /\ calls > 0
  BY <1>0 DEF Conclude, SimInv, CallsBounded
<1>2. /\ result'.text = result.text /\ result'.cards = result.cards
      /\ result'.escalate \in BOOLEAN /\ (result.escalate => result'.escalate)
  BY <1>0 DEF Conclude, Results
<1> DEFINE n == IF result.text \/ result.cards THEN 1 ELSE 0
<1>3. n \in 0..2 /\ n < 2 /\ (n > 0 => result.text \/ result.cards)
  OBVIOUS
<1>4. WorkerJob = [at |-> "llm", level |-> Level,
                   calls |-> calls, escalate |-> FALSE, texts |-> 0, tries |-> 0]
  BY <1>1, Inside
<1>5. WorkerJob' = [at |-> "store", level |-> WorkerJob.level, calls |-> WorkerJob.calls,
                    escalate |-> result'.escalate, texts |-> n, tries |-> 0]
  BY <1>1, <1>2, <1>4 DEF WorkerJob, Level, AllDraft
<1>6. WorkerJob.level = "draft" /\ n > 0 => result'.escalate
  BY <1>2, <1>3, <1>4 DEF SimInv, DraftsEscalate, Level
<1> HIDE DEF n
<1>7. [m \in {"m"} |-> WorkerJob]' =
        [[m \in {"m"} |-> WorkerJob] EXCEPT !["m"] =
           [at |-> "store", level |-> @.level, calls |-> @.calls,
            escalate |-> result'.escalate, texts |-> n, tries |-> 0]]
  BY <1>5
<1>8. WorkerJob.at = "llm" /\ WorkerJob.calls > 0
  BY <1>1, <1>4
<1> QED
  BY <1>2, <1>3, <1>6, <1>7, <1>8 DEF Worker!Decide, Worker!IsComment

LEMMA SimStep == SimInv /\ [Next]_vars => [WorkerStep]_WorkerJob
<1> SUFFICES ASSUME SimInv, [Next]_vars PROVE WorkerStep \/ WorkerJob' = WorkerJob
  OBVIOUS
<1>1. CASE Route \/ Round
  BY <1>1, CallStep DEF WorkerStep
<1>2. CASE Fail
  BY <1>2, FailStep DEF Fail, WorkerStep
<1>3. CASE Conclude
  BY <1>3, DecideStep, FailStep DEF Conclude, WorkerStep
<1>4. CASE \/ AddRow \/ ReadHistory \/ Skip \/ AskContent \/ AskLeadQualifier
           \/ AskConversation \/ RunTools \/ Finish
  <2>1. /\ at \notin {"done", "failed"} /\ at' \notin {"done", "failed"}
        /\ agent' = agent /\ calls' = calls
    BY <1>4 DEF AddRow, ReadHistory, Skip, AskContent, AskLeadQualifier, AskConversation,
         RunTools, AfterTools, Finish
  <2> QED
    BY <2>1, Inside, InsideNext
<1>5. CASE UNCHANGED vars
  BY <1>5 DEF vars, WorkerJob, AllDraft
<1> QED
  BY <1>1, <1>2, <1>3, <1>4, <1>5 DEF Next, JobStep

(* The agents do to a job what MessageWorker lets its agents do: no more   *)
(* than MAX_SPECIALIST_CALLS times MAX_TOOL_ROUNDS calls and one, then an  *)
(* exception or one output, which a draft agent's always escalates.        *)
THEOREM StepsAreWorkers == Spec => StepsOfWorker
  BY SimHolds, SimStep, PTL DEF Spec, StepsOfWorker, WorkerStep
-----------------------------------------------------------------------------
(* A row is only lost with the session, which then cannot be committed.    *)
SessionInv == (link = "lost" => broken) /\ (at = "done" => ~broken)

LEMMA SessionStep == SessionInv /\ [Next]_vars => SessionInv'
<1> SUFFICES ASSUME SessionInv, [Next]_vars PROVE SessionInv'
  OBVIOUS
<1>1. CASE RunTools
  <2>1. at' # "done"
    BY <1>1 DEF RunTools, AfterTools
  <2>2. CASE UNCHANGED <<broken, link>>
    BY <2>1, <2>2 DEF SessionInv
  <2>3. CASE ~broken /\ (broken' = TRUE \/ link' = "open")
    BY <2>1, <2>3 DEF SessionInv
  <2> QED
    BY <1>1, <2>2, <2>3 DEF RunTools, HandOff
<1>2. CASE Conclude \/ Fail
  BY <1>2 DEF Conclude, Fail, SessionInv
<1>3. CASE AddRow \/ ReadHistory \/ Route \/ Skip \/ AskContent \/ AskLeadQualifier
           \/ AskConversation \/ Round \/ Finish \/ UNCHANGED vars
  <2>1. /\ UNCHANGED <<broken, link>>
        /\ at' # "done" \/ at' = at
    BY <1>3 DEF AddRow, ReadHistory, Route, Skip, AskContent, AskLeadQualifier, AskConversation,
         Round, Finish, vars
  <2> QED
    BY <2>1 DEF SessionInv
<1> QED
  BY <1>1, <1>2, <1>3 DEF Next, JobStep

(* _tool_suggest_telegram_handoff swallows the exception of its insert,    *)
(* but not for the session, whose commit in _process raises: an answer is  *)
(* only reached with every row whose token a link was made of.             *)
THEOREM LinksLead == Spec => []LinksKept
<1>1. Init => SessionInv
  BY DEF Init, SessionInv
<1>2. SessionInv => LinksKept
  BY DEF SessionInv, LinksKept
<1> QED
  BY <1>1, <1>2, SessionStep, PTL DEF Spec
=============================================================================

------------------------ MODULE MessageWorkerProofs ------------------------
(***************************************************************************)
(* Proofs about MessageWorker for every set of messages, number of jobs    *)
(* at once, LLM calls and restarts: the types, that an answer is stored    *)
(* before it is sent, that only a stopped worker makes the program answer  *)
(* twice, that a thrown kill switch gives no job more to do, that no       *)
(* private draft is sent, and that the worker implements Answers.          *)
(***************************************************************************)
EXTENDS WorkerAnswers, TLAPS

(* A private answer about to be sent has a row no earlier post used up.    *)
RowForSend ==
  \A m \in Msgs :
    ~IsComment(m) /\ job[m].at = "send" /\ job[m].texts > 0 =>
      sent[m] + Left(m) <= reply[m] * Posts(m)

(* A private answer is one text. *)
OneText ==
  \A m \in Msgs : ~IsComment(m) /\ job[m].at \in {"store", "send"} => job[m].texts <= 1

(* A run of a job that has not stored (not sent) yet has only the rows     *)
(* (the posts) of the runs before it, one that is sending its share.       *)
NothingYet ==
  \A m \in Msgs :
    /\ job[m].at \in {"none", "stored", "queued", "tenant", "pass", "drop",
                     "agents", "llm", "store"} =>
         reply[m] <= restarts /\ sent[m] <= restarts * Posts(m)
    /\ job[m].at = "send" /\ job[m].texts > 0 =>
         sent[m] + Left(m) <= (restarts + 1) * Posts(m)

IInv == TypeOK /\ StoredBeforeSent /\ AnsweredOncePerRun /\ RowForSend /\ OneText /\ NothingYet

-----------------------------------------------------------------------------
LEMMA NewJobType ==
  ASSUME NEW p \in {"none", "stored", "lost", "queued", "tenant", "pass", "drop",
                    "agents", "llm", "store", "send", "error", "ack", "done"}
  PROVE  /\ \A l \in Levels : JobWith(p, l) \in JobStates
         /\ NewJob(p) \in JobStates
  BY BoundsAssumption DEF NewJob, JobWith, JobStates, Levels

(* Every step keeps the types. *)
LEMMA TypeStep == TypeOK /\ [Next]_vars => TypeOK'
<1> SUFFICES ASSUME TypeOK, [Next]_vars PROVE TypeOK'
  OBVIOUS
<1>0. \A m \in Msgs : job[m] \in JobStates
  BY DEF TypeOK
<1>1. ASSUME NEW m \in Msgs,
             Receive(m) \/ Enqueue(m) \/ Start(m) \/ ReadTenant(m) \/ CheckTenant(m)
             \/ Acknowledge(m)
      PROVE  TypeOK'
  <2>1. \A p \in {"stored", "queued", "lost", "tenant", "pass", "drop", "agents", "done"} :
          Goto(m, p) => job' \in [Msgs -> JobStates]
    BY <1>0 DEF Goto, TypeOK, JobStates
  <2>2. Return(m) => job' \in [Msgs -> JobStates]
    BY NewJobType DEF Return, TypeOK
  <2> QED
    BY <1>1, <2>1, <2>2 DEF Receive, Enqueue, Start, ReadTenant, CheckTenant, Acknowledge, TypeOK
<1>2. ASSUME NEW m \in Msgs, LoadAgents(m) PROVE TypeOK'
  BY <1>2, NewJobType DEF LoadAgents, Return, Raise, NewJob, TypeOK
<1>3. ASSUME NEW m \in Msgs, LlmCall(m) PROVE TypeOK'
  BY <1>0, <1>3, BoundsAssumption DEF LlmCall, Allowed, TypeOK, JobStates
<1>4. ASSUME NEW m \in Msgs, Decide(m) PROVE TypeOK'
  BY <1>0, <1>4, BoundsAssumption DEF Decide, TypeOK, JobStates
<1>5. ASSUME NEW m \in Msgs, StoreReply(m) PROVE TypeOK'
  BY <1>0, <1>5 DEF StoreReply, Goto, TypeOK, JobStates
<1>6. ASSUME NEW m \in Msgs,
             SkipSend(m) \/ LlmFails(m) \/ QueryFails(m) \/ WriteErrorAudit(m) \/ Timeout(m)
      PROVE  TypeOK'
  BY <1>6, NewJobType
     DEF SkipSend, LlmFails, QueryFails, WriteErrorAudit, Timeout, Return, Raise, TypeOK
<1>7. ASSUME NEW m \in Msgs, SendReply(m) \/ SendFails(m) PROVE TypeOK'
  <2>1. Sends(m) /\ NextPost(m) => job' \in [Msgs -> JobStates]
    BY <1>0, NewJobType, BoundsAssumption DEF Sends, NextPost, Return, TypeOK, JobStates
  <2>2. Return(m) \/ Raise(m) => job' \in [Msgs -> JobStates]
    BY NewJobType DEF Return, Raise, TypeOK
  <2>3. sent' \in [Msgs -> Nat]
    BY <1>7 DEF SendReply, SendFails, TypeOK
  <2> QED
    BY <1>7, <2>1, <2>2, <2>3 DEF SendReply, SendFails, TypeOK
<1>8. ASSUME NEW m \in Msgs, SendAgain(m) PROVE TypeOK'
  <2>1. job' \in [Msgs -> JobStates]
    BY <1>0, <1>8, BoundsAssumption DEF SendAgain, TypeOK, JobStates
  <2>2. sent' \in [Msgs -> Nat]
    BY <1>8 DEF SendAgain, TypeOK
  <2> QED
    BY <1>8, <2>1, <2>2 DEF SendAgain, TypeOK
<1>9. CASE Restart
  <2>1. job' \in [Msgs -> JobStates]
    BY <1>0, <1>9, NewJobType DEF Restart
  <2> QED
    BY <1>9, <2>1, BoundsAssumption DEF Restart, TypeOK
<1>10. CASE SwitchTenant \/ UNCHANGED vars
  BY <1>10 DEF SwitchTenant, vars, TypeOK
<1> QED
  BY <1>1, <1>2, <1>3, <1>4, <1>5, <1>6, <1>7, <1>8, <1>9, <1>10 DEF Next, Step

LEMMA TypeInit == Init => TypeOK
  BY NewJobType, BoundsAssumption DEF Init, TypeOK, TenantRows

(* Jobs, rows and switches keep their types through every run and restart. *)
THEOREM TypeCorrect == Spec => []TypeOK
  BY TypeInit, TypeStep, PTL DEF Spec

-----------------------------------------------------------------------------
(* The part of the invariant about one message, so that a step needs to be *)
(* looked at for its own message only.                                     *)
MsgInv(m) ==
  /\ IsComment(m) \/ sent[m] <= reply[m] * Posts(m)
  /\ sent[m] <= (restarts + 1) * Posts(m) /\ reply[m] <= restarts + 1
  /\ ~IsComment(m) /\ job[m].at = "send" /\ job[m].texts > 0 =>
       sent[m] + Left(m) <= reply[m] * Posts(m)
  /\ ~IsComment(m) /\ job[m].at \in {"store", "send"} => job[m].texts <= 1
  /\ job[m].at \in {"none", "stored", "queued", "tenant", "pass", "drop",
                     "agents", "llm", "store"} =>
       reply[m] <= restarts /\ sent[m] <= restarts * Posts(m)
  /\ job[m].at = "send" /\ job[m].texts > 0 =>
       sent[m] + Left(m) <= (restarts + 1) * Posts(m)

LEMMA PerMessage == IInv <=> TypeOK /\ \A m \in Msgs : MsgInv(m)
  BY DEF IInv, MsgInv, StoredBeforeSent, AnsweredOncePerRun, RowForSend, OneText, NothingYet

LEMMA PostsType == \A m \in Msgs : Posts(m) \in Nat /\ Posts(m) > 0
  BY ChannelAssumption, BoundsAssumption DEF Posts

(* Of a private answer and of a comment's, no more is left than a run may  *)
(* post, and while there is a text something is.                           *)
LEMMA LeftBounds ==
  ASSUME TypeOK, NEW m \in Msgs, job[m].texts > 0
  PROVE  /\ Left(m) \in Int /\ Left(m) >= 1
         /\ IsComment(m) \/ job[m].texts <= 1 => Left(m) <= Posts(m)
<1>1. job[m].texts \in {1, 2} /\ job[m].tries \in 0..MaxTries - 1
  BY DEF TypeOK, JobStates
<1>2. CASE job[m].texts = 1
  BY <1>1, <1>2, ChannelAssumption, BoundsAssumption DEF Left, Posts, IsComment
<1>3. CASE job[m].texts = 2
  BY <1>1, <1>3, ChannelAssumption, BoundsAssumption DEF Left, Posts, IsComment
<1> QED
  BY <1>1, <1>2, <1>3

(* One run, or one row, has room for one more share of posts.              *)
LEMMA OneMore ==
  ASSUME NEW a \in Nat, NEW p \in Nat
  PROVE  (a + 1) * p = a * p + p /\ a * p \in Nat
  OBVIOUS

(* A message the step leaves alone keeps its part. *)
LEMMA Untouched ==
  ASSUME NEW m \in Msgs, MsgInv(m), job'[m] = job[m], reply'[m] = reply[m],
         sent'[m] = sent[m], restarts' = restarts
  PROVE  MsgInv(m)'
  BY DEF MsgInv, IsComment, Left, Posts

(* So does one whose job only goes back to arq or to the except clause.    *)
LEMMA Leaves ==
  ASSUME NEW m \in Msgs, MsgInv(m), NEW p \in {"lost", "error", "ack", "done"},
         job'[m].at = p, reply'[m] = reply[m], sent'[m] = sent[m], restarts' = restarts
  PROVE  MsgInv(m)'
  BY DEF MsgInv, IsComment, Posts

(* And one whose job goes on before it has stored or sent anything.        *)
LEMMA GoesOn ==
  ASSUME NEW m \in Msgs, MsgInv(m),
         job[m].at \in {"none", "stored", "queued", "tenant", "pass", "drop", "agents",
                        "llm"},
         job'[m].at \in {"stored", "queued", "tenant", "pass", "drop", "agents",
                        "llm"},
         reply'[m] = reply[m], sent'[m] = sent[m], restarts' = restarts
  PROVE  MsgInv(m)'
  BY DEF MsgInv, IsComment, Posts

(* A post of the answer that may have been carried out leaves less to do.  *)
LEMMA Posted ==
  ASSUME TypeOK, NEW n \in Msgs, MsgInv(n), SendReply(n) \/ SendAgain(n) \/ SendFails(n)
  PROVE  MsgInv(n)'
<1>0. job[n] \in JobStates /\ sent[n] \in Nat /\ reply[n] \in Nat /\ restarts \in Nat
  BY BoundsAssumption DEF TypeOK
<1>1. /\ job[n].at = "send" /\ job[n].texts > 0
      /\ reply'[n] = reply[n] /\ sent'[n] \in {sent[n], sent[n] + 1} /\ restarts' = restarts
  BY <1>0 DEF SendReply, SendAgain, SendFails, Sends, TypeOK, JobStates
<1>2. /\ Left(n) \in Int /\ Left(n) >= 1
      /\ sent[n] + Left(n) <= (restarts + 1) * Posts(n)
      /\ IsComment(n) \/ sent[n] + Left(n) <= reply[n] * Posts(n)
  BY <1>1, LeftBounds DEF MsgInv
<1>3. (restarts + 1) * Posts(n) \in Nat /\ reply[n] * Posts(n) \in Nat
  BY <1>0, PostsType
<1>4. sent'[n] <= (restarts + 1) * Posts(n) /\ (IsComment(n) \/ sent'[n] <= reply[n] * Posts(n))
  BY <1>0, <1>1, <1>2, <1>3
<1>5. CASE job'[n].at \in {"ack", "error"}
  BY <1>1, <1>4, <1>5 DEF MsgInv, IsComment, Posts
<1>6. CASE job'[n].at = "send"
  <2>1. job'[n].texts <= job[n].texts
    BY <1>0, <1>1, <1>6 DEF SendReply, SendAgain, SendFails, NextPost, Return, Raise, NewJob,
         JobWith, TypeOK, JobStates
  <2>2. Left(n)' \in Int /\ Left(n)' <= Left(n) - 1
    <3>1. CASE SendAgain(n)
      BY <1>0, <1>1, <3>1, BoundsAssumption DEF SendAgain, Left, TypeOK, JobStates
    <3>2. CASE SendReply(n) \/ SendFails(n)
      <4>1. NextPost(n) /\ job[n].texts = 2
        BY <1>0, <1>1, <1>6, <3>2 DEF SendReply, SendFails, NextPost, Return, Raise, NewJob,
             JobWith, TypeOK, JobStates
      <4>2. IsComment(n)
        BY <1>1, <4>1 DEF MsgInv
      <4>3. job'[n].texts = 1 /\ job'[n].tries = 0
        BY <1>0, <4>1 DEF NextPost, TypeOK, JobStates
      <4> QED
        BY <1>0, <4>1, <4>2, <4>3, BoundsAssumption DEF Left, IsComment, JobStates
    <3> QED
      BY <3>1, <3>2
  <2>3. /\ sent'[n] + Left(n)' <= (restarts + 1) * Posts(n)
        /\ IsComment(n) \/ sent'[n] + Left(n)' <= reply[n] * Posts(n)
    BY <1>0, <1>1, <1>2, <1>3, <2>2
  <2>4. IsComment(n) \/ job'[n].texts <= 1
    BY <1>0, <1>1, <1>6, <2>1, TypeStep DEF MsgInv, JobStates, SendReply, SendAgain, SendFails,
       NextPost, Return, Raise, NewJob, JobWith, TypeOK
  <2> QED
    BY <1>1, <1>4, <1>6, <2>3, <2>4 DEF MsgInv, IsComment, Posts
<1> QED
  BY <1>0, <1>5, <1>6 DEF SendReply, SendAgain, SendFails, NextPost, Return, Raise, NewJob,
     JobWith, TypeOK, JobStates

LEMMA InvStep == IInv /\ [Next]_vars => IInv'
<1> SUFFICES ASSUME TypeOK, \A m \in Msgs : MsgInv(m), [Next]_vars
             PROVE  \A n \in Msgs : MsgInv(n)'
  BY PerMessage, TypeStep
     DEF IInv, MsgInv, StoredBeforeSent, AnsweredOncePerRun, RowForSend, OneText, NothingYet
<1> TAKE n \in Msgs
<1>0. \A m \in Msgs : job[m] \in JobStates
  BY DEF TypeOK
<1>a. sent[n] \in Nat /\ reply[n] \in Nat /\ restarts \in Nat
  BY BoundsAssumption DEF TypeOK
<1>b. Posts(n)' = Posts(n) /\ Posts(n) \in Nat /\ IsComment(n)' = IsComment(n)
  BY PostsType DEF Posts, IsComment
<1>c. /\ (restarts + 1) * Posts(n) = restarts * Posts(n) + Posts(n)
      /\ restarts * Posts(n) \in Nat
  BY <1>a, <1>b, OneMore, Zenon
<1>d. /\ (reply[n] + 1) * Posts(n) = reply[n] * Posts(n) + Posts(n)
      /\ reply[n] * Posts(n) \in Nat
  BY <1>a, <1>b, OneMore, Zenon
<1>e. /\ (restarts + 1 + 1) * Posts(n) = (restarts + 1) * Posts(n) + Posts(n)
      /\ (restarts + 1) * Posts(n) \in Nat
  <2>1. restarts + 1 \in Nat
    BY <1>a
  <2> QED
    BY <1>b, <2>1, OneMore, Zenon
<1>1. ASSUME NEW m \in Msgs, Step(m) \/ Receive(m) \/ Timeout(m), m # n PROVE MsgInv(n)'
  <2>1. job'[n] = job[n] /\ reply'[n] = reply[n] /\ sent'[n] = sent[n] /\ restarts' = restarts
    BY <1>1 DEF Step, Receive, Timeout, Enqueue, Start, ReadTenant, CheckTenant, LoadAgents,
         LlmCall, LlmFails, Decide, StoreReply, SendReply, SendAgain, SendFails, NextPost, SkipSend,
         QueryFails, WriteErrorAudit, Acknowledge, Goto, Return, Raise, TypeOK
  <2> QED
    BY <2>1, Untouched
<1>2. CASE Receive(n) \/ Enqueue(n) \/ Start(n) \/ ReadTenant(n) \/ CheckTenant(n)
           \/ LoadAgents(n) \/ LlmCall(n)
  <2>1. /\ job[n].at \in {"none", "stored", "queued", "tenant", "pass", "drop", "agents",
                        "llm"}
        /\ job'[n].at \in {"stored", "queued", "tenant", "pass", "drop", "agents", "llm", "lost",
                            "ack", "error"}
        /\ reply'[n] = reply[n] /\ sent'[n] = sent[n] /\ restarts' = restarts
    BY <1>0, <1>2 DEF Receive, Enqueue, Start, ReadTenant, CheckTenant, LoadAgents, LlmCall,
         Goto, Return, Raise, NewJob, JobWith, TypeOK, JobStates
  <2> QED
    BY <2>1, GoesOn, Leaves
<1>3. CASE LlmFails(n) \/ SkipSend(n) \/ QueryFails(n) \/ WriteErrorAudit(n)
           \/ Acknowledge(n) \/ Timeout(n)
  <2>1. /\ job'[n].at \in {"error", "ack", "done"}
        /\ reply'[n] = reply[n] /\ sent'[n] = sent[n] /\ restarts' = restarts
    BY <1>0, <1>3 DEF LlmFails, SkipSend, QueryFails, WriteErrorAudit, Acknowledge, Timeout,
         Goto, Return, Raise, NewJob, JobWith, TypeOK, JobStates
  <2> QED
    BY <2>1, Leaves
<1>4. CASE Decide(n)
  <2>1. /\ job[n].at = "llm"
        /\ job'[n].at = IF IsComment(n) THEN "send" ELSE "store"
        /\ ~IsComment(n) => job'[n].texts <= 1
        /\ reply'[n] = reply[n] /\ sent'[n] = sent[n] /\ restarts' = restarts
    BY <1>0, <1>4 DEF Decide, TypeOK, JobStates
  <2>2. TypeOK'
    BY TypeStep
  <2>3. IsComment(n) /\ job'[n].texts > 0 => Left(n)' \in Int /\ Left(n)' <= Posts(n)
    BY <1>b, <2>2, BoundsAssumption DEF Left, Posts, IsComment, TypeOK, JobStates
  <2>4. sent[n] <= restarts * Posts(n) /\ (IsComment(n) \/ sent[n] <= reply[n] * Posts(n))
    BY <2>1 DEF MsgInv
  <2> QED
    BY <1>a, <1>b, <2>1, <2>3, <2>4 DEF MsgInv
<1>5. CASE StoreReply(n)
  <2>1. /\ job[n].at = "store" /\ job'[n].at = "send" /\ Left(n)' = Left(n)
        /\ job'[n].texts = job[n].texts
        /\ reply'[n] = (IF job[n].texts > 0 THEN reply[n] + 1 ELSE reply[n])
        /\ sent'[n] = sent[n] /\ restarts' = restarts
    BY <1>0, <1>5 DEF StoreReply, Goto, Left, TypeOK, JobStates
  <2>2. job[n].texts > 0 => Left(n) \in Int /\ Left(n) <= Posts(n)
    BY <2>1, LeftBounds DEF MsgInv
  <2>3. /\ sent[n] <= restarts * Posts(n) /\ reply[n] <= restarts
        /\ IsComment(n) \/ (sent[n] <= reply[n] * Posts(n) /\ job[n].texts <= 1)
    BY <2>1 DEF MsgInv
  <2>4. sent'[n] <= (restarts' + 1) * Posts(n)' /\ reply'[n] <= restarts' + 1
    BY <1>a, <1>b, <1>c, <1>d, <1>e, <2>1, <2>3
  <2>5. job[n].texts > 0 => sent'[n] + Left(n)' <= (restarts' + 1) * Posts(n)'
    BY <1>a, <1>b, <1>c, <1>d, <1>e, <2>1, <2>2, <2>3
  <2>6. IsComment(n)' \/ sent'[n] <= reply'[n] * Posts(n)'
    BY <1>a, <1>b, <1>c, <1>d, <1>e, <2>1, <2>3
  <2>7. IsComment(n)' \/ (job[n].texts > 0 => sent'[n] + Left(n)' <= reply'[n] * Posts(n)')
    BY <1>a, <1>b, <1>c, <1>d, <1>e, <2>1, <2>2, <2>3
  <2> QED
    BY <1>b, <2>1, <2>3, <2>4, <2>5, <2>6, <2>7 DEF MsgInv
<1>6. CASE SendReply(n) \/ SendAgain(n) \/ SendFails(n)
  BY <1>6, Posted
<1>7. CASE Restart
  <2>1. /\ job'[n] = job[n] \/ job'[n].at = "queued"
        /\ job'[n] = job[n] => Left(n)' = Left(n)
        /\ reply'[n] = reply[n] /\ sent'[n] = sent[n] /\ restarts' = restarts + 1
    BY <1>7 DEF Restart, NewJob, JobWith, Left
  <2>2. job[n].at = "send" /\ job[n].texts > 0 => Left(n) \in Int
    BY <1>0, BoundsAssumption DEF Left, JobStates
  <2>3. sent[n] <= (restarts + 1) * Posts(n) /\ reply[n] <= restarts + 1
    BY DEF MsgInv
  <2>4. CASE job'[n].at = "queued"
    BY <1>a, <1>b, <1>c, <1>d, <1>e, <2>1, <2>3, <2>4 DEF MsgInv
  <2>5. CASE job'[n] = job[n]
    <3>1. ASSUME job[n].at = "send" /\ job[n].texts > 0
          PROVE  sent'[n] + Left(n)' <= (restarts' + 1) * Posts(n)'
      <4>1. sent[n] + Left(n) <= (restarts + 1) * Posts(n)
        BY <3>1 DEF MsgInv
      <4> QED
        BY <1>a, <1>b, <1>c, <1>d, <1>e, <2>1, <2>2, <2>5, <3>1, <4>1
    <3>2. sent[n] <= restarts * Posts(n) => sent'[n] <= restarts' * Posts(n)'
      BY <1>a, <1>b, <1>c, <1>d, <1>e, <2>1, PostsType
    <3>3. sent'[n] <= (restarts' + 1) * Posts(n)' /\ reply'[n] <= restarts' + 1
      BY <1>a, <1>b, <1>c, <1>d, <1>e, <2>1, <2>3
    <3>4. reply[n] <= restarts => reply'[n] <= restarts'
      BY <1>a, <2>1
    <3> QED
      BY <1>b, <2>1, <2>5, <3>1, <3>2, <3>3, <3>4 DEF MsgInv
  <2> QED
    BY <2>1, <2>4, <2>5
<1>8. CASE SwitchTenant \/ UNCHANGED vars
  BY <1>8, Untouched DEF SwitchTenant, vars
<1> QED
  BY <1>1, <1>2, <1>3, <1>4, <1>5, <1>6, <1>7, <1>8 DEF Next, Step

LEMMA InvInit == Init => IInv
<1> SUFFICES ASSUME Init PROVE IInv
  OBVIOUS
<1>1. ASSUME NEW m \in Msgs PROVE MsgInv(m)
  BY <1>1, PostsType, BoundsAssumption DEF Init, MsgInv, NewJob, JobWith
<1> QED
  BY <1>1, TypeInit, PerMessage

LEMMA InvHolds == Spec => []IInv
  BY InvInit, InvStep, PTL DEF Spec

(* handle_incoming_message commits the reply before _send_reply: however   *)
(* often workers stop, a customer has seen nothing that is not stored.     *)
THEOREM StoreFirst == Spec => []StoredBeforeSent
  BY InvHolds, PTL DEF IInv

(* However many messages, jobs and failures, only restarts of the worker   *)
(* make handle_incoming_message store or send more than one answer.        *)
THEOREM OneAnswerPerRun == Spec => []AnsweredOncePerRun
  BY InvHolds, PTL DEF IInv

-----------------------------------------------------------------------------
(* What a run may still post is a number, of a channel's posts at most.    *)
LEMMA MayBounds ==
  ASSUME TypeOK, NEW m \in Msgs, IsComment(m) \/ job[m].texts <= 1
  PROVE  May(m) \in 0..Posts(m) /\ (Sends(m) /\ job[m].at = "send" => May(m) >= 1)
<1>1. job[m].texts \in 0..2
  BY DEF TypeOK, JobStates
<1>2. CASE job[m].texts > 0
  BY <1>2, LeftBounds, PostsType DEF May
<1>3. CASE job[m].texts = 0
  BY <1>1, <1>3, PostsType DEF May, Sends
<1> QED
  BY <1>1, <1>2, <1>3

(* An attempt at a post ends the run, or leaves it less to post. *)
LEMMA UsesOneUp ==
  ASSUME TypeOK, NEW m \in Msgs, IsComment(m) \/ job[m].texts <= 1,
         SendReply(m) \/ SendAgain(m) \/ SendFails(m)
  PROVE  \/ job'[m].at \in {"ack", "error"}
         \/ job'[m].at = "send" /\ May(m)' \in 0..May(m) - 1
<1>0. job[m] \in JobStates /\ job[m].at = "send" /\ Sends(m)
  BY DEF TypeOK, SendReply, SendAgain, SendFails
<1>1. job[m].texts \in {1, 2} /\ job[m].tries \in 0..MaxTries - 1 /\ MaxTries \in Nat \ {0}
  BY <1>0, BoundsAssumption DEF Sends, JobStates
<1>2. CASE SendAgain(m)
  <2>1. /\ job'[m].at = "send" /\ job'[m].texts = job[m].texts
        /\ job'[m].tries = job[m].tries + 1 /\ job'[m].escalate = job[m].escalate
        /\ Channel[m] # "telegram" /\ job[m].tries < MaxTries - 1
    BY <1>0, <1>2 DEF SendAgain, TypeOK, JobStates
  <2>2. Sends(m)'
    BY <1>0, <2>1 DEF Sends, IsComment
  <2> QED
    BY <1>0, <1>1, <2>1, <2>2 DEF May, Left
<1>3. CASE SendReply(m) \/ SendFails(m)
  <2>1. job'[m].at \in {"ack", "error"} \/ (NextPost(m) /\ job[m].texts # 1)
    BY <1>0, <1>3 DEF SendReply, SendFails, NextPost, Return, Raise, NewJob, JobWith, TypeOK
  <2>2. CASE NextPost(m) /\ job[m].texts # 1
    <3>1. /\ IsComment(m) /\ job[m].texts = 2 /\ job'[m].at = "send"
          /\ job'[m].texts = 1 /\ job'[m].tries = 0
      BY <1>0, <1>1, <2>2 DEF NextPost, TypeOK, JobStates
    <3> QED
      BY <1>0, <1>1, <3>1 DEF May, Left, Sends, IsComment
  <2> QED
    BY <2>1, <2>2
<1> QED
  BY <1>2, <1>3

(* A comment's run makes its one call. *)
OneCall == \A m \in Msgs : job[m].at = "llm" => job[m].calls <= Allowed(m)

LEMMA OneCallStep == TypeOK /\ OneCall /\ [Next]_vars => OneCall'
<1> SUFFICES ASSUME TypeOK, OneCall, [Next]_vars, NEW n \in Msgs, job'[n].at = "llm"
             PROVE  job'[n].calls <= Allowed(n)
  BY DEF OneCall, Allowed, IsComment
<1>0. (\A m \in Msgs : job[m] \in JobStates) /\ Allowed(n) \in Nat \ {0}
  BY BoundsAssumption DEF TypeOK, Allowed
<1>1. CASE job'[n] = job[n]
  BY <1>1 DEF OneCall
<1>2. ASSUME NEW m \in Msgs, Step(m) \/ Receive(m) \/ Timeout(m), m # n PROVE job'[n] = job[n]
  BY <1>2 DEF Step, Receive, Timeout, Enqueue, Start, ReadTenant, CheckTenant, LoadAgents,
       LlmCall, LlmFails, Decide, StoreReply, SendReply, SendAgain, SendFails, NextPost, SkipSend,
       QueryFails, WriteErrorAudit, Acknowledge, Goto, Return, Raise, TypeOK
<1>3. CASE LoadAgents(n)
  BY <1>0, <1>3 DEF LoadAgents, Return, Raise, NewJob, JobWith, TypeOK
<1>4. CASE LlmCall(n)
  <2>1. job[n].calls < Allowed(n) /\ job'[n].calls = job[n].calls + 1
    BY <1>0, <1>4 DEF LlmCall, TypeOK, JobStates
  <2>2. job[n].calls \in Nat
    BY <1>0 DEF JobStates
  <2> QED
    BY <1>0, <2>1, <2>2
<1>5. ASSUME Step(n) \/ Receive(n) \/ Timeout(n), ~LoadAgents(n), ~LlmCall(n) PROVE FALSE
  BY <1>0, <1>5 DEF Step, Receive, Timeout, Enqueue, Start, ReadTenant, CheckTenant, LlmFails,
       Decide, StoreReply, SendReply, SendAgain, SendFails, NextPost, SkipSend, QueryFails,
       WriteErrorAudit, Acknowledge, Goto, Return, Raise, NewJob, JobWith, TypeOK, JobStates
<1>6. CASE Restart
  BY <1>1, <1>6 DEF Restart, NewJob, JobWith
<1>7. CASE SwitchTenant \/ UNCHANGED vars
  BY <1>1, <1>7 DEF SwitchTenant, vars
<1> QED
  BY <1>1, <1>2, <1>3, <1>4, <1>5, <1>6, <1>7 DEF Next

DryInv == TypeOK /\ OneText /\ OneCall

(* What a run has left is never less than nothing. *)
LEMMA LeftOver ==
  ASSUME DryInv, NEW n \in Msgs
  PROVE  /\ CallsLeft(n) \in Nat /\ PostsLeft(n) \in Nat
         /\ sent[n] \in Nat /\ May(n) \in 0..Posts(n) \cup {0}
<1>1. Allowed(n) \in Nat /\ Posts(n) \in Nat /\ job[n] \in JobStates /\ sent[n] \in Nat
  BY PostsType, BoundsAssumption DEF Allowed, DryInv, TypeOK
<1>2. CallsLeft(n) \in Nat
  BY <1>1 DEF CallsLeft, DryInv, OneCall, JobStates
<1>3. May(n) \in 0..Posts(n) \cup {0}
  BY <1>1, MayBounds DEF May, DryInv, OneText
<1> QED
  BY <1>1, <1>2, <1>3 DEF PostsLeft

(* While the kill switch is thrown, a step of the worker takes from what a *)
(* run has left, or leaves it.                                             *)
LEMMA PauseStep ==
  ASSUME DryInv, DryInv', [Next]_vars, Paused, NEW n \in Msgs
  PROVE  /\ CallsLeft(n)' <= CallsLeft(n)
         /\ sent'[n] + PostsLeft(n)' <= sent[n] + PostsLeft(n)
<1>0. /\ CallsLeft(n) \in Nat /\ PostsLeft(n) \in Nat /\ sent[n] \in Nat
      /\ May(n) \in 0..Posts(n) \cup {0}
      /\ Posts(n) \in Nat /\ Posts(n)' = Posts(n) /\ Allowed(n)' = Allowed(n)
  BY LeftOver, PostsType DEF Posts, Allowed, IsComment
<1>a. May(n)' \in 0..Posts(n) \cup {0}
  <2>1. DryInv' => (May(n) \in 0..Posts(n) \cup {0})'
    BY LeftOver, PTL
  <2> QED
    BY <1>0, <2>1
<1>b. TypeOK /\ OneText /\ \A m \in Msgs : job[m] \in JobStates
  BY DEF DryInv, TypeOK
<1>c. ASSUME job'[n] = job[n], sent'[n] = sent[n] PROVE
        CallsLeft(n)' <= CallsLeft(n) /\ sent'[n] + PostsLeft(n)' <= sent[n] + PostsLeft(n)
  <2>1. May(n)' = May(n)
    BY <1>c DEF May, Left, Sends, IsComment
  <2>2. CallsLeft(n)' = CallsLeft(n)
    BY <1>0, <1>c DEF CallsLeft
  <2>3. PostsLeft(n)' = PostsLeft(n)
    BY <1>0, <1>c, <2>1 DEF PostsLeft
  <2> QED
    BY <1>0, <1>c, <2>2, <2>3
<1>d. ASSUME sent'[n] = sent[n],
             job'[n].at \in {"none", "stored", "lost", "queued", "tenant", "drop", "error",
                            "ack", "done"}
      PROVE  CallsLeft(n)' <= CallsLeft(n) /\ sent'[n] + PostsLeft(n)' <= sent[n] + PostsLeft(n)
  BY <1>0, <1>d DEF CallsLeft, PostsLeft, May
<1>1. ASSUME NEW m \in Msgs, Step(m) \/ Receive(m) \/ Timeout(m), m # n
      PROVE  job'[n] = job[n] /\ sent'[n] = sent[n]
  BY <1>1, <1>b DEF Step, Receive, Timeout, Enqueue, Start, ReadTenant, CheckTenant, LoadAgents,
       LlmCall, LlmFails, Decide, StoreReply, SendReply, SendAgain, SendFails, NextPost, SkipSend,
       QueryFails, WriteErrorAudit, Acknowledge, Goto, Return, Raise, TypeOK
<1>2. CASE Receive(n) \/ Enqueue(n) \/ Start(n) \/ ReadTenant(n) \/ Acknowledge(n)
           \/ LlmFails(n) \/ SkipSend(n) \/ QueryFails(n) \/ WriteErrorAudit(n) \/ Timeout(n)
  <2>1. /\ sent'[n] = sent[n]
        /\ job'[n].at \in {"stored", "lost", "queued", "tenant", "drop", "error", "ack", "done"}
    BY <1>2, <1>b DEF Receive, Enqueue, Start, ReadTenant, Acknowledge, LlmFails, SkipSend,
         QueryFails, WriteErrorAudit, Timeout, Goto, Return, Raise, NewJob, JobWith, TypeOK,
         JobStates
  <2> QED
    BY <1>d, <2>1
<1>3. CASE CheckTenant(n) \/ LoadAgents(n)
  <2>1. /\ sent'[n] = sent[n]
        /\ \/ job'[n].at \in {"ack", "error"}
           \/ job[n].at = "pass" /\ job'[n].at = "agents"
           \/ job[n].at = "agents" /\ job'[n].at = "llm" /\ job'[n].calls = 0
    BY <1>3, <1>b DEF CheckTenant, LoadAgents, Goto, Return, Raise, NewJob, JobWith, TypeOK,
         JobStates
  <2>2. CASE job'[n].at \in {"ack", "error"}
    BY <1>d, <2>1, <2>2
  <2>3. CASE job'[n].at \in {"agents", "llm"}
    BY <1>0, <2>1, <2>3, BoundsAssumption DEF CallsLeft, PostsLeft, Allowed
  <2> QED
    BY <2>1, <2>2, <2>3
<1>4. CASE LlmCall(n)
  <2>1. /\ sent'[n] = sent[n] /\ job[n].at = "llm" /\ job'[n].at = "llm"
        /\ job'[n].calls = job[n].calls + 1 /\ job[n].calls \in Nat
    BY <1>4, <1>b DEF LlmCall, TypeOK, JobStates
  <2> QED
    BY <1>0, <2>1, BoundsAssumption DEF CallsLeft, PostsLeft, Allowed
<1>5. CASE Decide(n) \/ StoreReply(n)
  <2>1. /\ sent'[n] = sent[n] /\ job[n].at \in {"llm", "store"}
        /\ job'[n].at \in {"store", "send"}
    BY <1>5, <1>b DEF Decide, StoreReply, Goto, TypeOK, JobStates
  <2>2. PostsLeft(n) = Posts(n) /\ PostsLeft(n)' <= Posts(n) /\ PostsLeft(n)' \in Int
    BY <1>0, <1>a, <2>1 DEF PostsLeft
  <2>3. CallsLeft(n)' = 0
    BY <2>1 DEF CallsLeft
  <2> QED
    BY <1>0, <2>1, <2>2, <2>3
<1>6. CASE SendReply(n) \/ SendAgain(n) \/ SendFails(n)
  <2>1. job[n].at = "send" /\ Sends(n) /\ sent'[n] \in {sent[n], sent[n] + 1}
    BY <1>0, <1>6, <1>b DEF SendReply, SendAgain, SendFails, TypeOK
  <2>2. IsComment(n) \/ job[n].texts <= 1
    BY <1>b, <2>1 DEF OneText
  <2>3. May(n) >= 1 /\ PostsLeft(n) = May(n) /\ May(n) \in Nat
    BY <1>0, <1>b, <2>1, <2>2, MayBounds DEF PostsLeft
  <2>4. /\ CallsLeft(n)' = 0
        /\ PostsLeft(n)' <= May(n) - 1 /\ PostsLeft(n)' \in Int
    <3>1. CASE job'[n].at \in {"ack", "error"}
      BY <2>3, <3>1 DEF CallsLeft, PostsLeft, May
    <3>2. CASE job'[n].at = "send" /\ May(n)' \in 0..May(n) - 1
      BY <2>3, <3>2 DEF CallsLeft, PostsLeft
    <3> QED
      BY <1>6, <1>b, <2>2, <3>1, <3>2, UsesOneUp
  <2> QED
    BY <1>0, <2>1, <2>3, <2>4
<1>7. CASE Restart
  <2>1. sent'[n] = sent[n] /\ (job'[n] = job[n] \/ job'[n].at = "queued")
    BY <1>7 DEF Restart, NewJob, JobWith
  <2> QED
    BY <1>c, <1>d, <2>1
<1>8. CASE SwitchTenant \/ UNCHANGED vars
  BY <1>8, <1>c DEF SwitchTenant, vars
<1> QED
  BY <1>1, <1>2, <1>3, <1>4, <1>5, <1>6, <1>7, <1>8, <1>c DEF Next, Step

(* _process looks at the tenant's row once, before it closes the session   *)
(* it was read in: a kill switch thrown later lets that run go on, but it  *)
(* never gives any run more calls or posts than it had left at that moment.*)
THEOREM PauseDrains == Spec => PauseRunsDry
<1>1. Init => OneCall
  BY DEF Init, OneCall, NewJob, JobWith
<1>2. IInv /\ OneCall => DryInv
  BY DEF IInv, DryInv
<1>3. DryInv /\ DryInv' /\ [Next]_vars
        => [Paused => \A m \in Msgs : /\ CallsLeft(m)' <= CallsLeft(m)
                                     /\ sent'[m] + PostsLeft(m)' <= sent[m] + PostsLeft(m)]_vars
  BY PauseStep
<1>4. IInv => TypeOK
  BY DEF IInv
<1> QED
  BY <1>1, <1>2, <1>3, <1>4, OneCallStep, InvInit, InvStep, PTL DEF Spec, PauseRunsDry

-----------------------------------------------------------------------------
(* The part of a message that keeps a draft at home. *)
Draft(m) ==
  ~IsComment(m) /\ job[m].at \in {"store", "send"} /\ job[m].level = "draft" /\ job[m].texts > 0
    => job[m].escalate

DraftInv == TypeOK /\ \A m \in Msgs : Draft(m)

(* Only Decide makes an answer; the steps after it keep its flag.          *)
LEMMA DraftStep == DraftInv /\ [Next]_vars => DraftInv'
<1> SUFFICES ASSUME TypeOK, \A m \in Msgs : Draft(m), [Next]_vars, NEW n \in Msgs
             PROVE  Draft(n)'
  BY TypeStep DEF DraftInv
<1>0. job[n] \in JobStates /\ IsComment(n)' = IsComment(n)
  BY DEF TypeOK, IsComment
<1>1. CASE job'[n] = job[n]
  BY <1>0, <1>1 DEF Draft
<1>2. CASE job'[n].at \notin {"store", "send"}
  BY <1>2 DEF Draft
<1>3. ASSUME NEW m \in Msgs, Step(m) \/ Receive(m) \/ Timeout(m), m # n PROVE job'[n] = job[n]
  BY <1>3 DEF Step, Receive, Timeout, Enqueue, Start, ReadTenant, CheckTenant, LoadAgents,
         LlmCall, LlmFails, Decide, StoreReply, SendReply, SendAgain, SendFails, NextPost, SkipSend,
       QueryFails, WriteErrorAudit, Acknowledge, Goto, Return, Raise, TypeOK
<1>4. CASE Decide(n)
  <2>1. /\ job'[n].level = job[n].level
        /\ ~IsComment(n) => (job[n].level = "draft" /\ job'[n].texts > 0 => job'[n].escalate)
    BY <1>0, <1>4 DEF Decide, TypeOK, JobStates
  <2> QED
    BY <1>0, <2>1 DEF Draft
<1>5. CASE StoreReply(n) \/ SendReply(n) \/ SendAgain(n) \/ SendFails(n)
  <2>1. CASE job'[n].at = "send"
    <3>1. /\ job[n].at \in {"store", "send"} /\ job'[n].level = job[n].level
          /\ job'[n].escalate = job[n].escalate /\ (job'[n].texts > 0 => job[n].texts > 0)
      BY <1>0, <1>5, <2>1 DEF StoreReply, SendReply, SendAgain, SendFails, NextPost, Sends, Goto,
           Return, Raise, NewJob, JobWith, TypeOK, JobStates
    <3> QED
      BY <1>0, <3>1 DEF Draft
  <2>2. CASE job'[n].at # "send"
    <3>1. job'[n].at # "store"
      BY <1>0, <1>5, <2>2 DEF StoreReply, SendReply, SendAgain, SendFails, NextPost, Goto,
           Return, Raise, NewJob, JobWith, TypeOK, JobStates
    <3> QED
      BY <1>2, <2>2, <3>1
  <2> QED
    BY <2>1, <2>2
<1>6. CASE Receive(n) \/ Enqueue(n) \/ Start(n) \/ ReadTenant(n) \/ CheckTenant(n)
           \/ LoadAgents(n) \/ LlmCall(n)
  <2>1. job'[n].at \in {"stored", "queued", "lost", "tenant", "pass", "drop", "agents", "llm",
                         "ack", "error"}
    BY <1>0, <1>6 DEF Receive, Enqueue, Start, ReadTenant, CheckTenant, LoadAgents, LlmCall,
         Goto, Return, Raise, NewJob, JobWith, TypeOK, JobStates
  <2> QED
    BY <1>2, <2>1
<1>7. CASE LlmFails(n) \/ SkipSend(n) \/ QueryFails(n) \/ WriteErrorAudit(n)
           \/ Acknowledge(n) \/ Timeout(n)
  <2>1. job'[n].at \in {"error", "ack", "done"}
    BY <1>0, <1>7 DEF LlmFails, SkipSend, QueryFails, WriteErrorAudit, Acknowledge, Timeout,
         Goto, Return, Raise, NewJob, JobWith, TypeOK, JobStates
  <2> QED
    BY <1>2, <2>1
<1>8. CASE Restart
  <2>1. job'[n] = job[n] \/ job'[n].at = "queued"
    BY <1>8 DEF Restart, NewJob, JobWith
  <2> QED
    BY <1>1, <1>2, <2>1
<1>9. CASE SwitchTenant \/ UNCHANGED vars
  BY <1>1, <1>9 DEF SwitchTenant, vars
<1> QED
  BY <1>1, <1>3, <1>4, <1>5, <1>6, <1>7, <1>8, <1>9 DEF Next, Step

(* What posts has looked at the flag. *)
LEMMA SentAuto ==
  ASSUME DraftInv, [Next]_vars, NEW n \in Msgs, ~IsComment(n), sent'[n] > sent[n]
  PROVE  job[n].level # "draft"
<1>0. job[n] \in JobStates /\ Draft(n) /\ sent[n] \in Nat /\ TypeOK
  BY DEF DraftInv, TypeOK
<1>1. PICK m \in Msgs : SendReply(m) \/ SendAgain(m) \/ SendFails(m)
  BY <1>0 DEF Next, Step, Receive, Timeout, Enqueue, Start, ReadTenant, CheckTenant, LoadAgents,
         LlmCall, LlmFails, Decide, StoreReply, SkipSend, QueryFails, WriteErrorAudit, Acknowledge,
       Restart, SwitchTenant, vars
<1>2. m = n
  BY <1>0, <1>1 DEF SendReply, SendAgain, SendFails, TypeOK
<1>3. job[n].at = "send" /\ Sends(n)
  BY <1>1, <1>2 DEF SendReply, SendAgain, SendFails
<1> QED
  BY <1>0, <1>3 DEF Draft, Sends

(* BaseAgent's approval gate and the escalation flag _process looks at:    *)
(* nothing a draft agent wrote reaches a private conversation, whatever    *)
(* its owner, retries and restarts do.                                     *)
THEOREM DraftsStay == Spec => DraftsStayHome
<1>1. Init => DraftInv
  BY TypeInit DEF Init, DraftInv, Draft, NewJob, JobWith
<1>2. DraftInv /\ [Next]_vars
        => [\A m \in Msgs : ~IsComment(m) /\ sent'[m] > sent[m] => job[m].level # "draft"]_vars
  BY SentAuto
<1> QED
  BY <1>1, <1>2, DraftStep, PTL DEF Spec, DraftsStayHome

-----------------------------------------------------------------------------
(* The refinement of Answers.  Only a private answer is ever stored.       *)
StoresPrivate == \A m \in Msgs : job[m].at = "store" => ~IsComment(m)

LEMMA PrivateStep == TypeOK /\ StoresPrivate /\ [Next]_vars => StoresPrivate'
<1> SUFFICES ASSUME TypeOK, StoresPrivate, [Next]_vars, NEW n \in Msgs, job'[n].at = "store"
             PROVE  ~IsComment(n)
  BY DEF StoresPrivate, IsComment
<1>0. \A m \in Msgs : job[m] \in JobStates
  BY DEF TypeOK
<1>1. CASE job[n].at = "store"
  BY <1>1 DEF StoresPrivate
<1>2. CASE job[n].at # "store"
  <2>1. ASSUME NEW m \in Msgs, Step(m) \/ Receive(m) \/ Timeout(m), ~Decide(m) PROVE FALSE
    BY <1>0, <1>2, <2>1 DEF Step, Receive, Timeout, Enqueue, Start, ReadTenant, CheckTenant,
         LoadAgents, LlmCall, LlmFails, StoreReply, SendReply, SendAgain, SendFails, NextPost, SkipSend,
         QueryFails, WriteErrorAudit, Acknowledge, Goto, Return, Raise, NewJob, JobWith,
         TypeOK, JobStates
  <2>2. ASSUME NEW m \in Msgs, Decide(m) PROVE ~IsComment(n)
    BY <1>0, <1>2, <2>2 DEF Decide, TypeOK, JobStates
  <2>3. CASE Restart
    BY <1>2, <2>3 DEF Restart, NewJob, JobWith
  <2>4. CASE SwitchTenant \/ UNCHANGED vars
    BY <1>2, <2>4 DEF SwitchTenant, vars
  <2> QED
    BY <2>1, <2>2, <2>3, <2>4 DEF Next
<1> QED
  BY <1>1, <1>2

StageBar == [m \in Msgs |-> Stage(m)]
MayBar == [m \in Msgs |-> May(m)]

(* A step of one message shows in Answers as that of its stage and posts.  *)
LEMMA View ==
  ASSUME NEW m \in Msgs, \A k \in Msgs \ {m} : job'[k] = job[k]
  PROVE  /\ StageBar' = [StageBar EXCEPT ![m] = Stage(m)']
         /\ MayBar' = [MayBar EXCEPT ![m] = May(m)']
<1>1. \A k \in Msgs \ {m} : Stage(k)' = Stage(k) /\ May(k)' = May(k)
  BY DEF Stage, May, Sends, Left, IsComment
<1> QED
  BY <1>1 DEF StageBar, MayBar

(* What one step of message m leaves alone. *)
Only(m) ==
  /\ \A k \in Msgs \ {m} : job'[k] = job[k]
  /\ tenant' = tenant /\ restarts' = restarts

LEMMA Hidden ==
  ASSUME NEW m \in Msgs, Only(m), reply' = reply, sent' = sent,
         Stage(m)' = Stage(m), May(m)' = May(m)
  PROVE  UNCHANGED Promise!vars
<1>1. StageBar' = StageBar /\ MayBar' = MayBar
  BY View DEF Only, StageBar, MayBar
<1> QED
  BY <1>1 DEF Only, StageBar, MayBar, Promise!vars, Paused

LEMMA Closes ==
  ASSUME NEW m \in Msgs, Only(m), reply' = reply, sent' = sent,
         job[m].at \in {"tenant", "pass", "drop", "agents", "llm", "store", "send"},
         job'[m].at \in {"error", "ack"}
  PROVE  Promise!Close(m)
<1>1. Stage(m) \in {"waiting", "working", "answering"} /\ Stage(m)' = "closing" /\ May(m)' = 0
  BY DEF Stage, May
<1>2. /\ StageBar' = [StageBar EXCEPT ![m] = "closing"] /\ MayBar' = [MayBar EXCEPT ![m] = 0]
      /\ StageBar[m] \in {"waiting", "working", "answering"}
  BY <1>1, View DEF Only, StageBar
<1> QED
  BY <1>2 DEF Only, StageBar, MayBar, Promise!Close, Promise!GoesTo, Paused

LEMMA GivesAnswer ==
  ASSUME NEW m \in Msgs, Only(m), sent' = sent,
         job[m].at \in {"llm", "store"}, job'[m].at = "send", May(m)' \in 0..Posts(m),
         \/ ~IsComment(m) /\ reply' = [reply EXCEPT ![m] = @ + 1]
         \/ (IsComment(m) \/ May(m)' = 0) /\ reply' = reply
  PROVE  Promise!Answer(m)
<1>1. StageBar[m] = "working" /\ Stage(m)' = "answering"
  BY DEF StageBar, Stage
<1>2. /\ StageBar' = [StageBar EXCEPT ![m] = "answering"]
      /\ MayBar' = [MayBar EXCEPT ![m] = May(m)']
  BY <1>1, View DEF Only
<1> QED
  BY <1>1, <1>2 DEF Only, StageBar, MayBar, Promise!Answer, Promise!GoesTo, Paused

(* An attempt at a post uses one up, and ends the run or leaves it to post. *)
LEMMA PostsOne ==
  ASSUME TypeOK, TypeOK', NEW m \in Msgs, IsComment(m) \/ job[m].texts <= 1,
         job[m].at = "send", Sends(m), Only(m), reply' = reply,
         sent' \in {sent, [sent EXCEPT ![m] = @ + 1]},
         \/ job'[m].at \in {"ack", "error"}
         \/ job'[m].at = "send" /\ May(m)' \in 0..May(m) - 1
  PROVE  Promise!Post(m)
<1>1. May(m) \in Nat /\ May(m) >= 1
  BY MayBounds, PostsType
<1>2. StageBar[m] = "answering" /\ MayBar[m] = May(m)
  BY DEF StageBar, MayBar, Stage
<1>3. /\ StageBar' = [StageBar EXCEPT ![m] = Stage(m)']
      /\ MayBar' = [MayBar EXCEPT ![m] = May(m)']
  BY View DEF Only
<1>4. May(m)' \in 0..May(m) - 1
  BY <1>1 DEF May
<1>5. StageBar' = StageBar \/ (May(m)' = 0 /\ StageBar' = [StageBar EXCEPT ![m] = "closing"])
  <2>1. CASE job'[m].at = "send"
    <3>1. Stage(m)' = "answering"
      BY <2>1 DEF Stage
    <3>2. StageBar = [StageBar EXCEPT ![m] = "answering"]
      BY <1>2 DEF StageBar
    <3> QED
      BY <1>3, <3>1, <3>2
  <2>2. CASE job'[m].at \in {"ack", "error"}
    BY <1>3, <2>2 DEF Stage, May
  <2> QED
    BY <2>1, <2>2
<1> QED
  BY <1>2, <1>3, <1>4, <1>5 DEF Only, StageBar, MayBar, Promise!Post, Promise!GoesTo, Paused

LEMMA PromiseStep ==
  TypeOK /\ OneText /\ StoresPrivate /\ [Next]_vars => [Promise!Next]_(Promise!vars)
<1> SUFFICES ASSUME TypeOK, OneText, StoresPrivate, [Next]_vars
             PROVE  Promise!Next \/ UNCHANGED Promise!vars
  OBVIOUS
<1>0. TypeOK' /\ \A m \in Msgs : job[m] \in JobStates
  BY TypeStep DEF TypeOK
<1>a. ASSUME NEW m \in Msgs, Step(m) \/ Receive(m) \/ Timeout(m) PROVE Only(m)
  BY <1>a DEF Only, Step, Receive, Timeout, Enqueue, Start, ReadTenant, CheckTenant, LoadAgents,
         LlmCall, LlmFails, Decide, StoreReply, SendReply, SendAgain, SendFails, NextPost, SkipSend,
       QueryFails, WriteErrorAudit, Acknowledge, Goto, Return, Raise, TypeOK
<1>1. ASSUME NEW m \in Msgs, Receive(m) \/ Enqueue(m) \/ Start(m) \/ LlmCall(m)
      PROVE  UNCHANGED Promise!vars
  <2>1. /\ \/ job[m].at \in {"none", "stored", "queued"}
              /\ job'[m].at \in {"stored", "queued", "lost", "tenant"}
           \/ job[m].at = "llm" /\ job'[m].at = "llm"
        /\ reply' = reply /\ sent' = sent
    BY <1>0, <1>1 DEF Receive, Enqueue, Start, LlmCall, Goto, TypeOK, JobStates
  <2>2. Stage(m)' = Stage(m) /\ May(m)' = May(m)
    BY <2>1 DEF Stage, May
  <2> QED
    BY <1>1, <1>a, <2>1, <2>2, Hidden DEF Step
<1>2. ASSUME NEW m \in Msgs, ReadTenant(m) PROVE Promise!Admit(m) \/ UNCHANGED Promise!vars
  <2>1. job[m].at = "tenant" /\ reply' = reply /\ sent' = sent /\ Only(m)
    BY <1>2, <1>a DEF ReadTenant, Step
  <2>2. CASE Paused
    <3>1. job'[m].at = "drop"
      BY <1>0, <1>2, <2>2 DEF ReadTenant, Goto, TypeOK, JobStates
    <3>2. Stage(m)' = Stage(m) /\ May(m)' = May(m)
      BY <2>1, <3>1 DEF Stage, May
    <3> QED
      BY <2>1, <3>2, Hidden
  <2>3. CASE ~Paused
    <3>1. job'[m].at = "pass"
      BY <1>0, <1>2, <2>3 DEF ReadTenant, Goto, TypeOK, JobStates
    <3>2. StageBar[m] = "waiting" /\ Stage(m)' = "working" /\ May(m)' = May(m)
      BY <2>1, <3>1 DEF StageBar, Stage, May
    <3>3. StageBar' = [StageBar EXCEPT ![m] = "working"] /\ MayBar' = MayBar
      BY <2>1, <3>2, View DEF Only, MayBar
    <3> QED
      BY <2>1, <2>3, <3>2, <3>3
         DEF Only, StageBar, MayBar, Promise!Admit, Promise!GoesTo, Paused
  <2> QED
    BY <2>2, <2>3
<1>13. ASSUME NEW m \in Msgs, CheckTenant(m) PROVE Promise!Close(m) \/ UNCHANGED Promise!vars
  <2>1. reply' = reply /\ sent' = sent /\ Only(m)
    BY <1>13, <1>a DEF CheckTenant, Step
  <2>2. \/ job[m].at = "pass" /\ job'[m].at = "agents"
        \/ job[m].at = "drop" /\ job'[m].at = "ack"
    BY <1>0, <1>13 DEF CheckTenant, Goto, Return, NewJob, JobWith, TypeOK, JobStates
  <2>3. CASE job[m].at = "pass" /\ job'[m].at = "agents"
    <3>1. Stage(m)' = Stage(m) /\ May(m)' = May(m)
      BY <2>3 DEF Stage, May
    <3> QED
      BY <2>1, <3>1, Hidden
  <2> QED
    BY <2>1, <2>2, <2>3, Closes
<1>3. ASSUME NEW m \in Msgs, LoadAgents(m) PROVE Promise!Close(m) \/ UNCHANGED Promise!vars
  <2>1. job[m].at = "agents" /\ reply' = reply /\ sent' = sent /\ Only(m)
    BY <1>3, <1>a DEF LoadAgents, Step
  <2>2. job'[m].at \in {"ack", "error", "llm"}
    BY <1>0, <1>3 DEF LoadAgents, Return, Raise, NewJob, JobWith, TypeOK
  <2>3. CASE job'[m].at = "llm"
    <3>1. Stage(m)' = Stage(m) /\ May(m)' = May(m)
      BY <2>1, <2>3 DEF Stage, May
    <3> QED
      BY <2>1, <3>1, Hidden
  <2> QED
    BY <2>1, <2>2, <2>3, Closes
<1>4. ASSUME NEW m \in Msgs, LlmFails(m) \/ SkipSend(m) \/ QueryFails(m)
      PROVE  Promise!Close(m)
  <2>1. /\ job[m].at \in {"tenant", "pass", "drop", "agents", "llm", "store", "send"}
        /\ job'[m].at \in {"error", "ack"} /\ reply' = reply /\ sent' = sent
    BY <1>0, <1>4 DEF LlmFails, SkipSend, QueryFails, Return, Raise, NewJob, JobWith, TypeOK
  <2> QED
    BY <1>4, <1>a, <2>1, Closes DEF Step
<1>5. ASSUME NEW m \in Msgs, WriteErrorAudit(m) \/ Timeout(m)
      PROVE  Promise!Close(m) \/ UNCHANGED Promise!vars
  <2>1. /\ job[m].at \in {"tenant", "pass", "drop", "agents", "llm", "store", "send", "error"}
        /\ job'[m].at = "ack" /\ reply' = reply /\ sent' = sent
    BY <1>0, <1>5 DEF WriteErrorAudit, Timeout, Running, Return, NewJob, JobWith, TypeOK
  <2>2. CASE job[m].at = "error"
    <3>1. Stage(m)' = Stage(m) /\ May(m)' = May(m)
      BY <2>1, <2>2 DEF Stage, May
    <3> QED
      BY <1>5, <1>a, <2>1, <3>1, Hidden DEF Step
  <2> QED
    BY <1>5, <1>a, <2>1, <2>2, Closes DEF Step
<1>6. ASSUME NEW m \in Msgs, Acknowledge(m) PROVE Promise!Finish(m)
  <2>0. Only(m)
    BY <1>6, <1>a DEF Step
  <2>1. job[m].at = "ack" /\ job'[m].at = "done" /\ reply' = reply /\ sent' = sent /\ Only(m)
    BY <1>0, <1>6, <2>0 DEF Acknowledge, Goto, TypeOK
  <2>2. StageBar[m] = "closing" /\ Stage(m)' = "over" /\ May(m)' = May(m)
    BY <2>1 DEF StageBar, Stage, May
  <2>3. StageBar' = [StageBar EXCEPT ![m] = "over"] /\ MayBar' = MayBar
    BY <2>1, <2>2, View DEF Only, MayBar
  <2> QED
    BY <2>1, <2>2, <2>3 DEF Only, StageBar, MayBar, Promise!Finish, Promise!GoesTo, Paused
<1>7. ASSUME NEW m \in Msgs, Decide(m) PROVE Promise!Answer(m) \/ UNCHANGED Promise!vars
  <2>1. /\ job[m].at = "llm" /\ reply' = reply /\ sent' = sent /\ Only(m)
        /\ job'[m].at = IF IsComment(m) THEN "send" ELSE "store"
    <3>1. Only(m)
      BY <1>7, <1>a DEF Step
    <3> QED
      BY <1>7, <3>1 DEF Decide, TypeOK
  <2>2. CASE IsComment(m)
    <3>1. May(m)' \in 0..Posts(m)
      <4>1. IsComment(m)' /\ Posts(m)' = Posts(m)
        BY <2>2 DEF IsComment, Posts
      <4>2. TypeOK' /\ (IsComment(m) \/ job[m].texts <= 1)' => (May(m) \in 0..Posts(m))'
        BY MayBounds, PTL
      <4> QED
        BY <1>0, <4>1, <4>2
    <3> QED
      BY <2>1, <2>2, <3>1, GivesAnswer
  <2>3. CASE ~IsComment(m)
    <3>1. Stage(m)' = Stage(m) /\ May(m)' = May(m)
      BY <2>1, <2>3 DEF Stage, May
    <3> QED
      BY <2>1, <3>1, Hidden
  <2> QED
    BY <2>2, <2>3
<1>8. ASSUME NEW m \in Msgs, StoreReply(m) PROVE Promise!Answer(m)
  <2>0. Only(m)
    BY <1>8, <1>a DEF Step
  <2>1. /\ job[m].at = "store" /\ job'[m].at = "send" /\ sent' = sent /\ Only(m)
        /\ job'[m].texts = job[m].texts /\ job[m].texts \in 0..2
        /\ reply' = IF job[m].texts > 0 THEN [reply EXCEPT ![m] = @ + 1] ELSE reply
    BY <1>0, <1>8, <2>0 DEF StoreReply, Goto, TypeOK, JobStates
  <2>2. ~IsComment(m) /\ job[m].texts <= 1
    BY <2>1 DEF StoresPrivate, OneText
  <2>3. May(m)' \in 0..Posts(m)
    <3>1. Posts(m)' = Posts(m)
      BY DEF Posts
    <3>2. TypeOK' /\ (IsComment(m) \/ job[m].texts <= 1)' => (May(m) \in 0..Posts(m))'
      BY MayBounds, PTL
    <3> QED
      BY <1>0, <2>1, <2>2, <3>1, <3>2
  <2>4. CASE job[m].texts > 0
    BY <2>1, <2>2, <2>3, <2>4, GivesAnswer
  <2>5. CASE job[m].texts = 0
    <3>1. May(m)' = 0
      BY <2>1, <2>5 DEF May, Sends
    <3> QED
      BY <2>1, <2>2, <2>3, <2>5, <3>1, GivesAnswer
  <2> QED
    BY <2>1, <2>4, <2>5
<1>9. ASSUME NEW m \in Msgs, SendReply(m) \/ SendAgain(m) \/ SendFails(m)
      PROVE  Promise!Post(m)
  <2>1. /\ job[m].at = "send" /\ Sends(m) /\ reply' = reply /\ Only(m)
        /\ sent' \in {sent, [sent EXCEPT ![m] = @ + 1]}
    BY <1>9, <1>a DEF SendReply, SendAgain, SendFails, Step
  <2>2. IsComment(m) \/ job[m].texts <= 1
    BY <2>1 DEF OneText
  <2>3. \/ job'[m].at \in {"ack", "error"}
        \/ job'[m].at = "send" /\ May(m)' \in 0..May(m) - 1
    BY <1>9, <2>2, UsesOneUp
  <2> QED
    BY <1>0, <2>1, <2>2, <2>3, PostsOne
<1>10. CASE Restart
  <2>1. \A k \in Msgs : job'[k] = IF k \in Running THEN NewJob("queued") ELSE job[k]
    BY <1>10 DEF Restart
  <2>2. \A k \in Msgs : /\ Stage(k)' = IF Stage(k) = "over" THEN "over" ELSE "waiting"
                        /\ May(k)' = 0
    <3> TAKE k \in Msgs
    <3>1. CASE k \in Running
      BY <2>1, <3>1 DEF Running, NewJob, JobWith, Stage, May
    <3>2. CASE k \notin Running
      <4>1. job'[k] = job[k] /\ job[k].at \in {"none", "stored", "lost", "queued", "done"}
        BY <1>0, <2>1, <3>2 DEF Running, JobStates
      <4> QED
        BY <4>1 DEF Stage, May
    <3> QED
      BY <3>1, <3>2
  <2>3. /\ StageBar' = [k \in Msgs |-> IF StageBar[k] = "over" THEN "over" ELSE "waiting"]
        /\ MayBar' = [k \in Msgs |-> 0]
    BY <2>2 DEF StageBar, MayBar
  <2> QED
    BY <1>10, <2>3 DEF Restart, StageBar, MayBar, Promise!Next, Promise!Rerun, Paused
<1>11. CASE SwitchTenant
  <2>1. StageBar' = StageBar /\ MayBar' = MayBar
    BY <1>11 DEF SwitchTenant, StageBar, MayBar, Stage, May, Sends, Left, IsComment
  <2>2. Paused' \in BOOLEAN
    BY DEF Paused
  <2> QED
    BY <1>11, <2>1, <2>2 DEF SwitchTenant, StageBar, MayBar, Promise!Next, Promise!Switch
<1>12. CASE UNCHANGED vars
  <2>1. StageBar' = StageBar /\ MayBar' = MayBar
    BY <1>12 DEF vars, StageBar, MayBar, Stage, May, Sends, Left, IsComment
  <2> QED
    BY <1>12, <2>1 DEF vars, StageBar, MayBar, Promise!vars, Paused
<1> QED
  BY <1>1, <1>2, <1>3, <1>4, <1>5, <1>6, <1>7, <1>8, <1>9, <1>10, <1>11, <1>12, <1>13
     DEF Next, Step, Promise!Next

LEMMA PromiseInit == Init => Promise!Init
<1> SUFFICES ASSUME Init PROVE Promise!Init
  OBVIOUS
<1>1. \A k \in Msgs : Stage(k) = "waiting" /\ May(k) = 0
  BY DEF Init, NewJob, JobWith, Stage, May
<1>2. ~Paused
  BY DEF Init, Paused
<1> QED
  BY <1>1, <1>2 DEF Init, Promise!Init

(* The worker implements Answers: whatever fails, stops or is switched, a  *)
(* run that is admitted gives one answer at most, a private one with its   *)
(* row first, and posts no more of it than one answer's posts; only the    *)
(* runs that arq had not recorded come again.                              *)
THEOREM WorkerKeepsPromise == Spec => KeepsPromise
<1>1. Init => StoresPrivate
  BY DEF Init, StoresPrivate, NewJob, JobWith
<1>2. IInv => TypeOK /\ OneText
  BY DEF IInv
<1> QED
  BY <1>1, <1>2, PrivateStep, PromiseInit, PromiseStep, InvInit, InvStep, PTL
     DEF Spec, KeepsPromise, Promise!Spec
=============================================================================

--------------------------- MODULE WorkerAnswers ---------------------------
(* The worker's jobs as the runs of Answers: what a job goes through       *)
(* between two of that module's steps is hidden.                           *)
EXTENDS MessageWorker

(* "error" is behind everything a run can still do for the customer.       *)
Stage(m) ==
  CASE job[m].at \in {"none", "stored", "lost", "queued", "tenant", "drop"} -> "waiting"
    [] job[m].at \in {"pass", "agents", "llm", "store"} -> "working"
    [] job[m].at = "send"                       -> "answering"
    [] job[m].at \in {"error", "ack"}           -> "closing"
    [] job[m].at = "done"                       -> "over"

Promise == INSTANCE Answers WITH
  Private  <- {m \in Msgs : ~IsComment(m)},
  MaxPosts <- [m \in Msgs |-> Posts(m)],
  paused   <- Paused,
  stage    <- [m \in Msgs |-> Stage(m)],
  may      <- [m \in Msgs |-> May(m)],
  rows     <- reply,
  posts    <- sent,
  reruns   <- restarts

(* The worker keeps what Answers promises: through failures, timeouts,     *)
(* repeated posts and restarts, each run gives one answer at most, stores  *)
(* a private one before it posts it, and posts no more than it then may.   *)
KeepsPromise == Promise!Spec
=============================================================================

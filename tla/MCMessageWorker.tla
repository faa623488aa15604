-------------------------- MODULE MCMessageWorker --------------------------
(* One private message whose send errors are raised, and one comment: the  *)
(* two ways through the worker, side by side.                              *)
EXTENDS WorkerAnswers, TLC

CONSTANTS m1, m2

MCChannel == m1 :> "telegram" @@ m2 :> "instagram_comment"
=============================================================================

------------------------------ MODULE Answers ------------------------------
(***************************************************************************)
(* What the worker promises about the answers to messages, whatever        *)
(* happens inside of its jobs.  Each run of a job is admitted while the    *)
(* tenant is not paused, comes once to an answer, and then posts it: not   *)
(* more often than the channel's posts of one answer, and a private answer *)
(* only with its row in the history.  What is closed is run again only     *)
(* when the worker stops before arq has recorded it, what is over never.   *)
(***************************************************************************)
EXTENDS Integers

CONSTANTS
  Msgs,       \* messages, each with its job
  Private,    \* those whose answers are stored
  MaxPosts    \* per message: posts of one answer

VARIABLES
  paused,     \* the tenant's kill switch is thrown
  stage,      \* per message: how far the run of its job is
  may,        \* per message: posts this run may still make
  rows,       \* per message: answers stored
  posts,      \* per message: posts carried out
  reruns      \* how often the worker has stopped

vars == <<paused, stage, may, rows, posts, reruns>>

Stages == {"waiting", "working", "answering", "closing", "over"}

Init ==
  /\ paused = FALSE
  /\ stage = [m \in Msgs |-> "waiting"]
  /\ may = [m \in Msgs |-> 0]
  /\ rows = [m \in Msgs |-> 0] /\ posts = [m \in Msgs |-> 0]
  /\ reruns = 0

-----------------------------------------------------------------------------
GoesTo(m, s) == stage' = [stage EXCEPT ![m] = s]

(* The run finds the kill switch not thrown, the only time it looks.       *)
Admit(m) ==
  /\ stage[m] = "waiting" /\ ~paused
  /\ GoesTo(m, "working")
  /\ UNCHANGED <<paused, may, rows, posts, reruns>>

(* The run's only answer: a private one that is to be posted has its row.  *)
Answer(m) ==
  /\ stage[m] = "working"
  /\ GoesTo(m, "answering")
  /\ \E n \in 0..MaxPosts[m] :
       /\ may' = [may EXCEPT ![m] = n]
       /\ \/ m \in Private /\ rows' = [rows EXCEPT ![m] = @ + 1]
          \/ (m \in Private => n = 0) /\ UNCHANGED rows
  /\ UNCHANGED <<paused, posts, reruns>>

(* One of the posts is used up, carried out or not. *)
Post(m) ==
  /\ stage[m] = "answering"
  /\ \E n \in 0..may[m] - 1 :
       /\ may' = [may EXCEPT ![m] = n]
       /\ stage' = stage \/ (n = 0 /\ GoesTo(m, "closing"))
  /\ posts' = posts \/ posts' = [posts EXCEPT ![m] = @ + 1]
  /\ UNCHANGED <<paused, rows, reruns>>

(* The run ends, without an answer or without the rest of its posts. *)
Close(m) ==
  /\ stage[m] \in {"waiting", "working", "answering"}
  /\ GoesTo(m, "closing")
  /\ may' = [may EXCEPT ![m] = 0]
  /\ UNCHANGED <<paused, rows, posts, reruns>>

Finish(m) ==
  /\ stage[m] = "closing"
  /\ GoesTo(m, "over")
  /\ UNCHANGED <<paused, may, rows, posts, reruns>>

(* The worker stops: what was not over begins again. *)
Rerun ==
  /\ reruns' = reruns + 1
  /\ stage' = [m \in Msgs |-> IF stage[m] = "over" THEN "over" ELSE "waiting"]
  /\ may' = [m \in Msgs |-> 0]
  /\ UNCHANGED <<paused, rows, posts>>

Switch ==
  /\ paused' \in BOOLEAN
  /\ UNCHANGED <<stage, may, rows, posts, reruns>>

Next ==
  \/ Switch \/ Rerun
  \/ \E m \in Msgs : Admit(m) \/ Answer(m) \/ Post(m) \/ Close(m) \/ Finish(m)

Spec == Init /\ [][Next]_vars
=============================================================================

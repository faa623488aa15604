--------------------------- MODULE TenantControl ---------------------------
(***************************************************************************)
(* The control columns of one tenant's row and the programs that write     *)
(* them: the kill switch and the BYOK endpoints of                         *)
(* src/app/api/v1/tenants.py, and the auto-pause of the safety job.        *)
(*                                                                         *)
(* Each writer loads the row in an admin session, assigns to attributes    *)
(* and commits.  The session's unit of work sends an UPDATE with the       *)
(* columns whose value differs from the one loaded, without a row lock or  *)
(* a version check; the audit entry follows in another transaction, which  *)
(* may never commit.                                                       *)
(***************************************************************************)
EXTENDS Integers, FiniteSets

CONSTANTS
  Writers,   \* requests in progress at once, and the safety job
  NoKey      \* NULL in anthropic_key_encrypted

ASSUME NoKeyAssumption == NoKey \notin Writers

VARIABLES
  tenant,    \* the row: status, enabled (autonomous_actions_enabled),
             \* billing (billing_mode), key (anthropic_key_encrypted)
  writer     \* per writer: its operation, where it stands, the row it loaded

vars == <<tenant, writer>>

Ops == {"pause", "resume", "set_key", "delete_key", "auto_pause"}

Statuses == {"trial", "active", "paused", "suspended", "cancelled"}

(* A stored key is named by the writer that encrypted it: two ciphertexts  *)
(* never agree, whatever the keys.                                         *)
Rows == [status : Statuses, enabled : BOOLEAN, billing : {"managed", "byok"},
         key : Writers \cup {NoKey}]

(* at "idle"; "admitted": past get_current_tenant, or listed by the job;   *)
(* "loaded": the handler has its own copy of the row; "committed": the row *)
(* is written, the audit entry is not.                                     *)
WriterStates == [at : {"idle", "admitted", "loaded", "committed"}, op : Ops, row : Rows]

(* Registration creates the tenant on trial, enabled, with a managed key.  *)
NewTenant == [status |-> "trial", enabled |-> TRUE, billing |-> "managed", key |-> NoKey]

Idle == [at |-> "idle", op |-> "pause", row |-> NewTenant]

Init ==
  /\ tenant = NewTenant
  /\ writer = [w \in Writers |-> Idle]

-----------------------------------------------------------------------------
(* Mutant: a status no reader compares with; the column is free text. *)
MutAssigned(w, op) ==
  CASE op \in {"pause", "auto_pause"} -> [status |-> "pause", enabled |-> FALSE]
    [] op = "resume"                  -> [status |-> "active", enabled |-> TRUE]
    [] op = "set_key"                 -> [key |-> w, billing |-> "byok"]
    [] op = "delete_key"              -> [key |-> NoKey, billing |-> "managed"]

(* The attributes an operation assigns. *)
Assigned(w, op) ==
  CASE op \in {"pause", "auto_pause"} -> [status |-> "paused", enabled |-> FALSE]
    [] op = "resume"                  -> [status |-> "active", enabled |-> TRUE]
    [] op = "set_key"                 -> [key |-> w, billing |-> "byok"]
    [] op = "delete_key"              -> [key |-> NoKey, billing |-> "managed"]

(* Mutant: an UPDATE statement that names every assigned column. *)
MutDirty(w) == DOMAIN Assigned(w, writer[w].op)

(* The UPDATE of w: the assigned columns that differ from the loaded row.  *)
Dirty(w) ==
  LET new == Assigned(w, writer[w].op)
  IN  {col \in DOMAIN new : new[col] # writer[w].row[col]}

(* get_current_tenant answers 403 for a suspended or cancelled tenant; the *)
(* safety job lists the tenants whose status is active.                    *)
Admit(w, op) ==
  /\ writer[w].at = "idle"
  /\ IF op = "auto_pause" THEN tenant.status = "active"
                          ELSE tenant.status \notin {"suspended", "cancelled"}
  /\ writer' = [writer EXCEPT ![w] = [at |-> "admitted", op |-> op, row |-> NewTenant]]
  /\ UNCHANGED tenant

(* The provider refuses the submitted key (422) or cannot be asked (502);  *)
(* or the job finds the tenant within its limits.                          *)
Refuse(w) ==
  /\ writer[w].at = "admitted" /\ writer[w].op \in {"set_key", "auto_pause"}
  /\ writer' = [writer EXCEPT ![w] = Idle]
  /\ UNCHANGED tenant

Load(w) ==
  /\ writer[w].at = "admitted"
  /\ writer' = [writer EXCEPT ![w] = [at |-> "loaded", op |-> @.op, row |-> tenant]]
  /\ UNCHANGED tenant

Commit(w) ==
  /\ writer[w].at = "loaded"
  /\ tenant' = [col \in DOMAIN tenant |->
       IF col \in Dirty(w) THEN Assigned(w, writer[w].op)[col] ELSE tenant[col]]
  /\ writer' = [writer EXCEPT ![w] = [at |-> "committed", op |-> @.op, row |-> NewTenant]]

(* The audit transaction commits. *)
Audit(w) ==
  /\ writer[w].at = "committed"
  /\ writer' = [writer EXCEPT ![w] = Idle]
  /\ UNCHANGED tenant

(* The process stops, or a transaction fails, before the writer is done.   *)
Crash(w) ==
  /\ writer[w].at # "idle"
  /\ writer' = [writer EXCEPT ![w] = Idle]
  /\ UNCHANGED tenant

(* The platform's operators suspend or cancel the account in the database. *)
Suspend ==
  /\ \E s \in {"suspended", "cancelled"} : tenant' = [tenant EXCEPT !.status = s]
  /\ UNCHANGED writer

Next ==
  \/ \E w \in Writers :
       \/ \E op \in Ops : Admit(w, op)
       \/ Refuse(w) \/ Load(w) \/ Commit(w) \/ Audit(w) \/ Crash(w)
  \/ Suspend

Spec == Init /\ [][Next]_vars

-----------------------------------------------------------------------------
TypeOK ==
  /\ tenant \in Rows
  /\ writer \in [Writers -> WriterStates]

Committing(w) == writer[w].at = "loaded" /\ writer'[w].at = "committed"

(* The kill switch is released only by a resume that had itself seen it    *)
(* thrown: a resume already under way when a pause commits is too late,    *)
(* since its UPDATE leaves out the column it found already set.            *)
KillSwitchSticks ==
  [][~tenant.enabled /\ tenant'.enabled =>
       \E w \in Writers :
         Committing(w) /\ writer[w].op = "resume" /\ ~writer[w].row.enabled]_vars

(* src/app/db/models/tenant.py:25: "Fernet-encrypted Anthropic key; NULL   *)
(* when billing_mode='managed'".                                           *)
KeyNullWhenManaged == tenant.billing = "managed" => tenant.key = NoKey
=============================================================================

------------------------ MODULE TenantControlProofs ------------------------
(***************************************************************************)
(* Proofs about TenantControl for every number of concurrent writers: the  *)
(* types, and that no late or concurrent request releases the kill switch. *)
(***************************************************************************)
EXTENDS TenantControl, TLAPS

Columns == {"status", "enabled", "billing", "key"}

(* The row of a new tenant, and the writer that has nothing to do. *)
LEMMA NewTenantType == NewTenant \in Rows
  BY DEF NewTenant, Rows, Statuses

LEMMA IdleType == Idle \in WriterStates
  BY NewTenantType DEF Idle, WriterStates, Ops

(* What an operation assigns to a column is a value of that column.        *)
LEMMA AssignedType ==
  ASSUME NEW w \in Writers, NEW op \in Ops, NEW col \in DOMAIN Assigned(w, op)
  PROVE  /\ col \in Columns
         /\ col = "status"  => Assigned(w, op)[col] \in Statuses
         /\ col = "enabled" => Assigned(w, op)[col] \in BOOLEAN
         /\ col = "billing" => Assigned(w, op)[col] \in {"managed", "byok"}
         /\ col = "key"     => Assigned(w, op)[col] \in Writers \cup {NoKey}
<1>1. CASE op \in {"pause", "auto_pause"}
  <2>1. Assigned(w, op) = [status |-> "paused", enabled |-> FALSE]
    BY <1>1 DEF Assigned
  <2>2. /\ DOMAIN Assigned(w, op) = {"status", "enabled"}
        /\ Assigned(w, op)["status"] = "paused" /\ Assigned(w, op)["enabled"] = FALSE
    BY <2>1
  <2> QED BY <2>2 DEF Columns, Statuses
<1>2. CASE op = "resume"
  <2>1. Assigned(w, op) = [status |-> "active", enabled |-> TRUE]
    BY <1>2 DEF Assigned
  <2>2. /\ DOMAIN Assigned(w, op) = {"status", "enabled"}
        /\ Assigned(w, op)["status"] = "active" /\ Assigned(w, op)["enabled"] = TRUE
    BY <2>1
  <2> QED BY <2>2 DEF Columns, Statuses
<1>3. CASE op = "set_key"
  <2>1. Assigned(w, op) = [key |-> w, billing |-> "byok"]
    BY <1>3 DEF Assigned
  <2>2. /\ DOMAIN Assigned(w, op) = {"key", "billing"}
        /\ Assigned(w, op)["key"] = w /\ Assigned(w, op)["billing"] = "byok"
    BY <2>1
  <2> QED BY <2>2 DEF Columns
<1>4. CASE op = "delete_key"
  <2>1. Assigned(w, op) = [key |-> NoKey, billing |-> "managed"]
    BY <1>4 DEF Assigned
  <2>2. /\ DOMAIN Assigned(w, op) = {"key", "billing"}
        /\ Assigned(w, op)["key"] = NoKey /\ Assigned(w, op)["billing"] = "managed"
    BY <2>1
  <2> QED BY <2>2 DEF Columns
<1> QED
  BY <1>1, <1>2, <1>3, <1>4 DEF Ops

(* Only a resume assigns TRUE to enabled. *)
LEMMA OnlyResumeEnables ==
  ASSUME NEW w \in Writers, NEW op \in Ops,
         "enabled" \in DOMAIN Assigned(w, op), Assigned(w, op)["enabled"]
  PROVE  op = "resume"
<1>1. CASE op \in {"pause", "auto_pause"}
  <2>1. Assigned(w, op) = [status |-> "paused", enabled |-> FALSE]
    BY <1>1 DEF Assigned
  <2> QED BY <2>1
<1>2. CASE op = "set_key"
  <2>1. Assigned(w, op) = [key |-> w, billing |-> "byok"]
    BY <1>2 DEF Assigned
  <2> QED BY <2>1
<1>3. CASE op = "delete_key"
  <2>1. Assigned(w, op) = [key |-> NoKey, billing |-> "managed"]
    BY <1>3 DEF Assigned
  <2> QED BY <2>1
<1> QED
  BY <1>1, <1>2, <1>3 DEF Ops

-----------------------------------------------------------------------------
(* The UPDATE of a writer leaves a row of the table. *)
LEMMA CommitRow ==
  ASSUME TypeOK, NEW w \in Writers, Commit(w)
  PROVE  tenant' \in Rows
<1> DEFINE new == Assigned(w, writer[w].op)
           value(col) == IF col \in Dirty(w) THEN new[col] ELSE tenant[col]
<1>1. DOMAIN tenant = Columns /\ tenant \in Rows
  BY DEF TypeOK, Rows, Columns
<1>2. tenant' = [col \in Columns |-> value(col)]
  BY <1>1 DEF Commit
<1>3. writer[w].op \in Ops
  BY DEF TypeOK, WriterStates
<1>4. Dirty(w) \subseteq DOMAIN new
  BY DEF Dirty
<1> HIDE DEF new
<1>5. value("status") \in Statuses /\ value("enabled") \in BOOLEAN
  BY <1>1, <1>3, <1>4, AssignedType DEF Rows, new
<1>6. value("billing") \in {"managed", "byok"} /\ value("key") \in Writers \cup {NoKey}
  BY <1>1, <1>3, <1>4, AssignedType DEF Rows, new
<1> HIDE DEF value
<1>7. tenant' = [status |-> value("status"), enabled |-> value("enabled"),
                 billing |-> value("billing"), key |-> value("key")]
  BY <1>2 DEF Columns
<1> QED
  BY <1>5, <1>6, <1>7 DEF Rows

LEMMA TypeStep == TypeOK /\ [Next]_vars => TypeOK'
<1> SUFFICES ASSUME TypeOK, [Next]_vars PROVE TypeOK'
  OBVIOUS
<1>1. ASSUME NEW w \in Writers, NEW op \in Ops, Admit(w, op) PROVE TypeOK'
  <2>1. [at |-> "admitted", op |-> op, row |-> NewTenant] \in WriterStates
    BY NewTenantType DEF WriterStates
  <2> QED
    BY <1>1, <2>1 DEF Admit, TypeOK
<1>2. ASSUME NEW w \in Writers, Refuse(w) \/ Audit(w) \/ Crash(w) PROVE TypeOK'
  BY <1>2, IdleType DEF Refuse, Audit, Crash, TypeOK
<1>3. ASSUME NEW w \in Writers, Load(w) PROVE TypeOK'
  <2>1. writer[w] \in WriterStates
    BY DEF TypeOK
  <2>2. [at |-> "loaded", op |-> writer[w].op, row |-> tenant] \in WriterStates
    BY <2>1 DEF TypeOK, WriterStates
  <2>3. writer' = [writer EXCEPT ![w] = [at |-> "loaded", op |-> writer[w].op, row |-> tenant]]
    BY <1>3, <2>1 DEF Load, TypeOK, WriterStates
  <2> QED
    BY <1>3, <2>2, <2>3 DEF Load, TypeOK
<1>4. ASSUME NEW w \in Writers, Commit(w) PROVE TypeOK'
  <2>1. writer[w] \in WriterStates
    BY DEF TypeOK
  <2>2. [at |-> "committed", op |-> writer[w].op, row |-> NewTenant] \in WriterStates
    BY <2>1, NewTenantType DEF WriterStates
  <2>3. writer' = [writer EXCEPT ![w] = [at |-> "committed", op |-> writer[w].op, row |-> NewTenant]]
    BY <1>4, <2>1 DEF Commit, TypeOK, WriterStates
  <2>4. tenant' \in Rows
    BY <1>4, CommitRow
  <2> QED
    BY <2>2, <2>3, <2>4 DEF TypeOK
<1>5. CASE Suspend
  BY <1>5 DEF Suspend, TypeOK, Rows, Statuses
<1>6. CASE UNCHANGED vars
  BY <1>6 DEF vars, TypeOK
<1> QED
  BY <1>1, <1>2, <1>3, <1>4, <1>5, <1>6 DEF Next

LEMMA TypeInit == Init => TypeOK
  BY NewTenantType, IdleType DEF Init, TypeOK

(* The row keeps its columns and their types, whatever columns concurrent  *)
(* UPDATEs of src/app/api/v1/tenants.py name.                              *)
THEOREM TypeCorrect == Spec => []TypeOK
  BY TypeInit, TypeStep, PTL DEF Spec

-----------------------------------------------------------------------------
(* One step releases the switch only if it commits a resume that saw it.   *)
LEMMA ReleaseStep ==
  ASSUME TypeOK, [Next]_vars, ~tenant.enabled, tenant'.enabled
  PROVE  \E w \in Writers : Committing(w) /\ writer[w].op = "resume" /\ ~writer[w].row.enabled
<1>1. ASSUME NEW w \in Writers, Commit(w)
      PROVE  Committing(w) /\ writer[w].op = "resume" /\ ~writer[w].row.enabled
  <2>1. writer[w] \in WriterStates /\ tenant \in Rows
    BY DEF TypeOK
  <2>2. "enabled" \in DOMAIN tenant
    BY <2>1 DEF Rows
  <2>3. "enabled" \in Dirty(w) /\ Assigned(w, writer[w].op)["enabled"]
    BY <1>1, <2>2 DEF Commit
  <2>4. /\ "enabled" \in DOMAIN Assigned(w, writer[w].op)
        /\ Assigned(w, writer[w].op)["enabled"] # writer[w].row["enabled"]
    BY <2>3 DEF Dirty
  <2>5. writer[w].op = "resume"
    BY <2>1, <2>3, <2>4, OnlyResumeEnables DEF WriterStates
  <2>6. writer[w].row.enabled \in BOOLEAN
    BY <2>1 DEF WriterStates, Rows
  <2>7. Assigned(w, writer[w].op)["enabled"] = TRUE
    BY <2>5 DEF Assigned
  <2>8. ~writer[w].row.enabled
    BY <2>4, <2>6, <2>7
  <2>9. Committing(w)
    BY <1>1 DEF Commit, Committing, TypeOK, WriterStates
  <2> QED
    BY <2>5, <2>8, <2>9
<1>2. CASE Suspend
  BY <1>2 DEF Suspend, TypeOK, Rows
<1>3. CASE UNCHANGED tenant
  BY <1>3
<1> QED
  BY <1>1, <1>2, <1>3 DEF Next, vars, Admit, Refuse, Load, Audit, Crash

(* However many requests and safety jobs write the row at once, the kill   *)
(* switch is released only by a resume that loaded it thrown.              *)
THEOREM SwitchSticks == Spec => KillSwitchSticks
<1>1. TypeOK /\ [Next]_vars =>
        [~tenant.enabled /\ tenant'.enabled =>
           \E w \in Writers :
             Committing(w) /\ writer[w].op = "resume" /\ ~writer[w].row.enabled]_vars
  BY ReleaseStep
<1> QED
  BY <1>1, TypeCorrect, PTL DEF Spec, KillSwitchSticks
=============================================================================

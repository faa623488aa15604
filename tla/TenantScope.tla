---------------------------- MODULE TenantScope ----------------------------
(***************************************************************************)
(* How the program keeps tenants apart: the ContextVar of                  *)
(* src/app/core/tenant_context.py, the sessions of src/app/db/session.py,  *)
(* which pass it on to PostgreSQL as the setting app.tenant_id, and the    *)
(* policies of the initial migration, by which a transaction sees and      *)
(* writes the rows of that tenant only.                                    *)
(*                                                                         *)
(* A task is a request or a job: an asyncio task, with a context of its    *)
(* own, that runs one of the programs of Program.  A program is a sequence *)
(* of steps, each reaching to the next await; what it has entered and not  *)
(* left is on the task's stack of blocks.  Tasks share the connections of  *)
(* one pool.  TenantPrograms writes the program's endpoints and jobs down. *)
(***************************************************************************)
EXTENDS Integers, Sequences, FiniteSets

CONSTANTS
  Tenants, Tasks,
  Conns,        \* the connections of the engine's pool
  NoTenant, NoConn,
  Work,         \* the kinds of requests and jobs
  Program,      \* the steps of each
  May           \* bound: the kinds a task is taken from

(* What a commit makes durable: columns of the tenants table, which has no *)
(* policy, a row of a table that has one, an entry of the audit log, which *)
(* has one too.                                                            *)
Rows == {"tenant", "row", "log"}

Ops == [do : {"authenticate", "context", "tenant", "admin", "try", "end", "root", "load", "look",
              "set_config", "commit", "rollback", "refresh", "call", "may_return", "return", "turn"},
        rows : SUBSET Rows]

ASSUME NamesAssumption == NoTenant \notin Tenants /\ NoConn \notin Conns
ASSUME ProgramAssumption == Program \in [Work -> Seq(Ops)] /\ May \in [Tasks -> SUBSET Work]

VARIABLES
  policed,   \* the policies apply to the program's database role
  work,      \* per task: what it is
  subject,   \*   the tenant it works for
  steps,     \*   the steps it has still to take
  blocks,    \*   the with and try blocks it is in, innermost last
  ctx,       \*   its ContextVar _tenant_id
  failed,    \*   an exception has left it
  durable,   \*   what it has committed for its subject
  guc        \* app.tenant_id in the open transaction of each connection

vars == <<policed, work, subject, steps, blocks, ctx, failed, durable, guc>>

TenantOrNone == Tenants \cup {NoTenant}

(* A context or try block holds no connection; saved is what the context   *)
(* goes back to when the block is left.                                    *)
Blocks == [kind : {"context", "session", "try"}, saved : TenantOrNone, conn : Conns \cup {NoConn}]

Init ==
  /\ policed \in BOOLEAN
  /\ work \in [Tasks -> Work] /\ \A t \in Tasks : work[t] \in May[t]
  /\ subject \in [Tasks -> Tenants]
  /\ steps = [t \in Tasks |-> Program[work[t]]]
  /\ blocks = [t \in Tasks |-> <<>>]
  /\ ctx = [t \in Tasks |-> NoTenant]
  /\ failed = [t \in Tasks |-> FALSE]
  /\ durable = [t \in Tasks |-> {}]
  /\ guc = [c \in Conns |-> NoTenant]

-----------------------------------------------------------------------------
At(t, op) == steps[t] # <<>> /\ Head(steps[t]).do = op
Goes(t) == steps' = [steps EXCEPT ![t] = Tail(@)]

Top(t) == blocks[t][Len(blocks[t])]
InSession(t) == blocks[t] # <<>> /\ Top(t).kind = "session"
Push(t, b) == blocks' = [blocks EXCEPT ![t] = Append(@, b)]
SetConn(t, c) == blocks' = [blocks EXCEPT ![t] = [@ EXCEPT ![Len(@)].conn = c]]
Block(kind, saved, conn) == [kind |-> kind, saved |-> saved, conn |-> conn]

ConnsOf(s) == {s[i].conn : i \in DOMAIN s} \ {NoConn}
Held(t) == ConnsOf(blocks[t])
Free == Conns \ UNION {Held(t) : t \in Tasks}

(* The connection the session's next statement runs on: the one of its     *)
(* transaction, or one of the pool for a new transaction.                  *)
Usable(t) == IF Top(t).conn # NoConn THEN {Top(t).conn} ELSE Free

(* Mutant: the setting is made for the connection, not its transaction. *)
MutEndTransaction(c) == UNCHANGED guc

(* What set_config made with is_local ends with the transaction.           *)
EndTransaction(c) == guc' = [d \in Conns |-> IF d = c THEN NoTenant ELSE guc[d]]

(* Rows of the subject are seen and can be written.                        *)
Sees(t, c) == policed => guc[c] = subject[t]

-----------------------------------------------------------------------------
Ends(n) == [i \in 1..n |-> [do |-> "end", rows |-> {}]]

(* What follows in p the end of the n blocks that are left in it and were  *)
(* entered before.                                                         *)
Opens == {"authenticate", "context", "tenant", "admin", "try"}
Left(p, k) == Cardinality({i \in 1..k : p[i].do = "end"}) - Cardinality({i \in 1..k : p[i].do \in Opens})
After(p, n) ==
  LET inside == {k \in 1..Len(p) : \A j \in 1..k : Left(p, j) # n}
  IN  SubSeq(p, Cardinality(inside) + 2, Len(p))

Return(t) == steps' = [steps EXCEPT ![t] = Ends(Len(blocks[t]))]

(* An exception leaves the blocks up to the innermost try, and the task    *)
(* goes on behind that; without one it leaves the task.                    *)
Raise(t) ==
  LET tries == {i \in DOMAIN blocks[t] : blocks[t][i].kind = "try"}
      above == {i \in DOMAIN blocks[t] : \A j \in tries : j < i}
      n     == Cardinality(above) + 1
  IN  IF tries = {}
      THEN Return(t) /\ failed' = [failed EXCEPT ![t] = TRUE]
      ELSE steps' = [steps EXCEPT ![t] = Ends(n) \o After(@, n)] /\ UNCHANGED failed

-----------------------------------------------------------------------------
(* get_current_user sets the context for the request and clears it.        *)
Authenticate(t) ==
  /\ At(t, "authenticate")
  /\ Push(t, Block("context", NoTenant, NoConn))
  /\ ctx' = [ctx EXCEPT ![t] = subject[t]]
  /\ Goes(t)
  /\ UNCHANGED <<policed, work, subject, failed, durable, guc>>

EnterContext(t) ==
  /\ At(t, "context")
  /\ Push(t, Block("context", ctx[t], NoConn))
  /\ ctx' = [ctx EXCEPT ![t] = subject[t]]
  /\ Goes(t)
  /\ UNCHANGED <<policed, work, subject, failed, durable, guc>>

(* get_tenant_session: begins a transaction with the tenant of the context *)
(* and without one raises before any connection is used.                   *)
OpenTenantSession(t) ==
  /\ At(t, "tenant")
  /\ IF ctx[t] = NoTenant
     THEN Raise(t) /\ UNCHANGED <<blocks, guc>>
     ELSE \E c \in Free :
            /\ Push(t, Block("session", ctx[t], c))
            /\ guc' = [guc EXCEPT ![c] = ctx[t]]
            /\ Goes(t) /\ UNCHANGED failed
  /\ UNCHANGED <<policed, work, subject, ctx, durable>>

(* get_admin_session: no statement and no connection yet. *)
OpenAdminSession(t) ==
  /\ At(t, "admin")
  /\ Push(t, Block("session", ctx[t], NoConn))
  /\ Goes(t)
  /\ UNCHANGED <<policed, work, subject, ctx, failed, durable, guc>>

Try(t) ==
  /\ At(t, "try")
  /\ Push(t, Block("try", ctx[t], NoConn))
  /\ Goes(t)
  /\ UNCHANGED <<policed, work, subject, ctx, failed, durable, guc>>

(* Mutant: a session is not closed behind the response. *)
MutLeave(t) ==
  /\ At(t, "end") /\ blocks[t] # <<>>
  /\ ctx' = [ctx EXCEPT ![t] = Top(t).saved]
  /\ blocks' = IF failed[t] /\ InSession(t) THEN blocks
               ELSE [blocks EXCEPT ![t] = SubSeq(@, 1, Len(@) - 1)]
  /\ IF failed[t] /\ InSession(t) THEN UNCHANGED guc ELSE EndTransaction(Top(t).conn)
  /\ Goes(t)
  /\ UNCHANGED <<policed, work, subject, failed, durable>>

(* The end of a block.  Closing a session rolls back and gives the         *)
(* connection to the pool.                                                 *)
Leave(t) ==
  /\ At(t, "end") /\ blocks[t] # <<>>
  /\ ctx' = [ctx EXCEPT ![t] = Top(t).saved]
  /\ blocks' = [blocks EXCEPT ![t] = SubSeq(@, 1, Len(@) - 1)]
  /\ EndTransaction(Top(t).conn)
  /\ Goes(t)
  /\ UNCHANGED <<policed, work, subject, failed, durable>>

(* A query of the tenants table, or of rows that need not be there. *)
Look(t) ==
  /\ At(t, "root") \/ At(t, "look")
  /\ InSession(t)
  /\ \E c \in Usable(t) : SetConn(t, c)
  /\ Goes(t)
  /\ UNCHANGED <<policed, work, subject, ctx, failed, durable, guc>>

(* A query of a row that has to be there: 401, 404, or what a refresh      *)
(* raises.                                                                 *)
Load(t) ==
  /\ At(t, "load") \/ At(t, "refresh")
  /\ InSession(t)
  /\ \E c \in Usable(t) :
       /\ SetConn(t, c)
       /\ \/ Sees(t, c) /\ Goes(t) /\ UNCHANGED failed
          \/ (~Sees(t, c) \/ At(t, "load")) /\ Raise(t)
  /\ UNCHANGED <<policed, work, subject, ctx, durable, guc>>

(* register_tenant sets the tenant of its admin session itself. *)
SetConfig(t) ==
  /\ At(t, "set_config") /\ InSession(t)
  /\ \E c \in Usable(t) : SetConn(t, c) /\ guc' = [guc EXCEPT ![c] = subject[t]]
  /\ Goes(t)
  /\ UNCHANGED <<policed, work, subject, ctx, failed, durable>>

(* The session writes what was added to it since its transaction began and *)
(* commits; the next statement will begin another transaction.  A row that *)
(* its policy does not let in fails it all.                                *)
Commit(t) ==
  /\ At(t, "commit") /\ InSession(t)
  /\ LET rows == Head(steps[t]).rows IN
     \E c \in Usable(t) :
       IF rows \subseteq {"tenant"} \/ Sees(t, c)
       THEN /\ durable' = [durable EXCEPT ![t] = @ \cup rows]
            /\ SetConn(t, NoConn) /\ EndTransaction(c)
            /\ Goes(t) /\ UNCHANGED failed
       ELSE SetConn(t, c) /\ Raise(t) /\ UNCHANGED <<durable, guc>>
  /\ UNCHANGED <<policed, work, subject, ctx>>

Rollback(t) ==
  /\ At(t, "rollback") /\ InSession(t)
  /\ SetConn(t, NoConn) /\ EndTransaction(Top(t).conn)
  /\ Goes(t)
  /\ UNCHANGED <<policed, work, subject, ctx, failed, durable>>

(* A call of another service, with everything held that is held. *)
Call(t) ==
  /\ At(t, "call")
  /\ Goes(t)
  /\ UNCHANGED <<policed, work, subject, blocks, ctx, failed, durable, guc>>

(* An early return, and one at the end of a try. *)
LeaveEarly(t) ==
  /\ At(t, "may_return") \/ At(t, "return")
  /\ Return(t) \/ (At(t, "may_return") /\ Goes(t))
  /\ UNCHANGED <<policed, work, subject, blocks, ctx, failed, durable, guc>>

(* Mutant: the loop is left with no tenant at all. *)
MutTurn(t) ==
  /\ At(t, "turn") /\ blocks[t] = <<>>
  /\ \E n \in TenantOrNone : n # subject[t] /\ subject' = [subject EXCEPT ![t] = n]
  /\ durable' = [durable EXCEPT ![t] = {}]
  /\ Goes(t)
  /\ UNCHANGED <<policed, work, blocks, ctx, failed, guc>>

(* The safety job goes on with another tenant. *)
Turn(t) ==
  /\ At(t, "turn") /\ blocks[t] = <<>>
  /\ \E n \in Tenants : n # subject[t] /\ subject' = [subject EXCEPT ![t] = n]
  /\ durable' = [durable EXCEPT ![t] = {}]
  /\ Goes(t)
  /\ UNCHANGED <<policed, work, blocks, ctx, failed, guc>>

(* What needs a connection has none: the step of a session that is not in  *)
(* a transaction, or the opening of a tenant's.                            *)
Waits(t) ==
  \/ At(t, "tenant") /\ ctx[t] # NoTenant
  \/ /\ InSession(t) /\ Top(t).conn = NoConn
     /\ \E op \in {"root", "look", "load", "refresh", "set_config", "commit"} : At(t, op)

(* Mutant: a task waits for a connection as long as it takes. *)
MutPoolTimeout(t) == FALSE

(* The pool's timeout raises. *)
PoolTimeout(t) ==
  /\ Waits(t) /\ Free = {}
  /\ Raise(t)
  /\ UNCHANGED <<policed, work, subject, blocks, ctx, durable, guc>>

(* A statement or a call fails. *)
Fails(t) ==
  /\ \E op \in {"tenant", "root", "load", "look", "set_config", "commit", "refresh", "call"} : At(t, op)
  /\ Raise(t)
  /\ UNCHANGED <<policed, work, subject, blocks, ctx, durable, guc>>

Step(t) ==
  \/ Authenticate(t) \/ EnterContext(t) \/ OpenTenantSession(t) \/ OpenAdminSession(t) \/ Try(t)
  \/ Leave(t) \/ Look(t) \/ Load(t) \/ SetConfig(t) \/ Commit(t) \/ Rollback(t) \/ Call(t)
  \/ LeaveEarly(t) \/ Turn(t) \/ PoolTimeout(t)

Next == \E t \in Tasks : Step(t) \/ Fails(t)

Spec == Init /\ [][Next]_vars

(* Every await ends, that for a connection at the latest with its timeout. *)
FairSpec == Spec /\ \A t \in Tasks : WF_vars(Step(t))

-----------------------------------------------------------------------------
TypeOK ==
  /\ policed \in BOOLEAN
  /\ work \in [Tasks -> Work] /\ subject \in [Tasks -> Tenants]
  /\ steps \in [Tasks -> Seq(Ops)] /\ blocks \in [Tasks -> Seq(Blocks)]
  /\ ctx \in [Tasks -> TenantOrNone] /\ failed \in [Tasks -> BOOLEAN]
  /\ durable \in [Tasks -> SUBSET Rows]
  /\ guc \in [Conns -> TenantOrNone]

(* No transaction is another tenant's than the one its task works for, and *)
(* a connection of the pool is nobody's: whatever a task left on it is     *)
(* gone when the next one takes it.                                        *)
Isolated ==
  /\ \A t \in Tasks : \A c \in Held(t) : guc[c] \in {NoTenant, subject[t]}
  /\ \A c \in Free : guc[c] = NoTenant
=============================================================================

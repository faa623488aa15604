------------------------- MODULE TenantScopeProofs -------------------------
(***************************************************************************)
(* Proofs about TenantScope for every set of tenants, tasks and            *)
(* connections and whatever the programs are: the types, and that no task  *)
(* ever has a transaction of another tenant, nor finds what one left.      *)
(***************************************************************************)
EXTENDS TenantScope, TLAPS, SequenceTheorems, FiniteSetTheorems

(* No connection is two tasks'. *)
Disjoint == \A t, u \in Tasks : t # u => Held(t) \cap Held(u) = {}

(* A context is the task's own tenant's or empty, and so is what each of   *)
(* its blocks goes back to; outside of all blocks it is empty.             *)
InScope(s, c, n) ==
  /\ c \in {NoTenant, n}
  /\ \A i \in 1..Len(s) : s[i].saved \in {NoTenant, n}
  /\ s = <<>> => c = NoTenant
  /\ s # <<>> => s[1].saved = NoTenant

Scoped == \A t \in Tasks : InScope(blocks[t], ctx[t], subject[t])

IInv == TypeOK /\ Isolated /\ Disjoint /\ Scoped

(* Stacks after the steps of TenantScope. *)
Pop(s) == SubSeq(s, 1, Len(s) - 1)
WithConn(s, c) == [s EXCEPT ![Len(s)].conn = c]

-----------------------------------------------------------------------------
(* What a stack of blocks holds when one is pushed, popped, or the         *)
(* innermost gets or loses its connection.                                 *)
LEMMA PushConns ==
  ASSUME NEW s \in Seq(Blocks), NEW b \in Blocks
  PROVE  /\ Append(s, b) \in Seq(Blocks)
         /\ ConnsOf(Append(s, b)) = ConnsOf(s) \cup ({b.conn} \ {NoConn})
<1> DEFINE r == Append(s, b)
<1>1. r \in Seq(Blocks) /\ Len(r) = Len(s) + 1 /\ r[Len(s) + 1] = b
      /\ \A i \in 1..Len(s) : r[i] = s[i]
  BY AppendProperties
<1>2. DOMAIN r = 1..Len(s) + 1 /\ DOMAIN s = 1..Len(s) /\ Len(s) \in Nat
  BY <1>1, LenProperties
<1> QED
  BY <1>1, <1>2 DEF ConnsOf

LEMMA PopConns ==
  ASSUME NEW s \in Seq(Blocks), s # <<>>
  PROVE  /\ Pop(s) \in Seq(Blocks) /\ Len(Pop(s)) = Len(s) - 1
         /\ \A i \in 1..Len(s) - 1 : Pop(s)[i] = s[i]
         /\ ConnsOf(Pop(s)) \subseteq ConnsOf(s)
         /\ ConnsOf(s) \subseteq ConnsOf(Pop(s)) \cup {s[Len(s)].conn}
<1>1. Len(s) \in Nat \ {0} /\ DOMAIN s = 1..Len(s) /\ s \in [1..Len(s) -> Blocks]
  BY LenProperties, EmptySeq
<1>2. \A i \in 1..Len(s) - 1 : s[i] \in Blocks
  BY <1>1
<1>3. /\ Pop(s) \in Seq(Blocks) /\ Len(Pop(s)) = Len(s) - 1
      /\ \A i \in 1..Len(s) - 1 : Pop(s)[i] = s[i]
  BY <1>1, <1>2, SubSeqProperties DEF Pop
<1>4. DOMAIN Pop(s) = 1..Len(s) - 1
  BY <1>3, LenProperties
<1> QED
  BY <1>1, <1>3, <1>4 DEF ConnsOf

LEMMA SetConns ==
  ASSUME NEW s \in Seq(Blocks), s # <<>>, NEW c \in Conns \cup {NoConn}
  PROVE  /\ WithConn(s, c) \in Seq(Blocks) /\ Len(WithConn(s, c)) = Len(s)
         /\ \A i \in 1..Len(s) : WithConn(s, c)[i].saved = s[i].saved
         /\ ConnsOf(WithConn(s, c)) \subseteq ConnsOf(s) \cup ({c} \ {NoConn})
         /\ ConnsOf(s) \subseteq ConnsOf(WithConn(s, c)) \cup {s[Len(s)].conn}
         /\ c # NoConn => c \in ConnsOf(WithConn(s, c))
<1> DEFINE n == Len(s)
           b == [s[n] EXCEPT !.conn = c]
<1>1. n \in Nat \ {0} /\ DOMAIN s = 1..n /\ s[n] \in Blocks
  BY LenProperties, EmptySeq, ElementOfSeq
<1>2. b \in Blocks /\ b.conn = c /\ b.saved = s[n].saved
  BY <1>1 DEF Blocks
<1>3. WithConn(s, c) = [s EXCEPT ![n] = b]
  BY DEF WithConn
<1> HIDE DEF b
<1>4. /\ WithConn(s, c) \in Seq(Blocks) /\ Len(WithConn(s, c)) = n
      /\ \A i \in 1..n : WithConn(s, c)[i] = IF i = n THEN b ELSE s[i]
  BY <1>1, <1>2, <1>3, ExceptSeq
<1>5. DOMAIN WithConn(s, c) = 1..n
  BY <1>4, LenProperties
<1>6. \A i \in 1..n : WithConn(s, c)[i].saved = s[i].saved
  BY <1>1, <1>2, <1>4
<1>7. \A i \in 1..n : WithConn(s, c)[i].conn = IF i = n THEN c ELSE s[i].conn
  BY <1>1, <1>2, <1>4
<1> DEFINE r == WithConn(s, c)
<1> HIDE DEF r
<1>8. ConnsOf(r) = {r[i].conn : i \in 1..n} \ {NoConn}
  BY <1>5 DEF ConnsOf, r
<1>9. ConnsOf(s) = {s[i].conn : i \in 1..n} \ {NoConn}
  BY <1>1 DEF ConnsOf
<1>10. ConnsOf(r) \subseteq ConnsOf(s) \cup ({c} \ {NoConn})
  BY <1>7, <1>8, <1>9 DEF r
<1>11. ConnsOf(s) \subseteq ConnsOf(r) \cup {s[n].conn}
  BY <1>7, <1>8, <1>9 DEF r
<1>12. c # NoConn => c \in ConnsOf(r)
  <2>1. n \in 1..n
    BY <1>1
  <2>2. r[n] = b
    BY <2>1, <1>4 DEF r
  <2>3. r[n].conn = c
    BY <2>2, <1>2
  <2> QED
    BY <2>1, <2>3, <1>8
<1> QED
  BY <1>4, <1>6, <1>10, <1>11, <1>12 DEF r

LEMMA ConnsType ==
  ASSUME NEW s \in Seq(Blocks)
  PROVE  ConnsOf(s) \subseteq Conns
<1>1. DOMAIN s = 1..Len(s)
  BY LenProperties
<1>2. \A i \in 1..Len(s) : s[i] \in Blocks
  BY ElementOfSeq
<1>3. \A b \in Blocks : b.conn \in Conns \cup {NoConn}
  BY DEF Blocks
<1> QED
  BY <1>1, <1>2, <1>3 DEF ConnsOf

(* A step that changes t's stack alone keeps the tenants apart, if t only  *)
(* takes free connections, sets what it has to its own tenant, and clears  *)
(* what it gives back.                                                     *)
LEMMA OneStack ==
  ASSUME TypeOK, Isolated, Disjoint,
         NEW t \in Tasks, NEW s, blocks' = [blocks EXCEPT ![t] = s], subject' = subject,
         ConnsOf(s) \subseteq Held(t) \cup Free,
         \A c \in Conns : guc'[c] \in {guc[c], NoTenant} \/ (guc'[c] = subject[t] /\ c \in ConnsOf(s)),
         \A c \in Held(t) \ ConnsOf(s) : guc'[c] = NoTenant
  PROVE  Isolated' /\ Disjoint'
<1>1. \A u \in Tasks : Held(u)' = IF u = t THEN ConnsOf(s) ELSE Held(u)
  BY DEF Held, ConnsOf, TypeOK
<1>2. \A u \in Tasks : u # t => Held(u) \cap ConnsOf(s) = {}
  BY DEF Disjoint, Free
<1>3. Disjoint'
  BY <1>1, <1>2 DEF Disjoint
<1>4. \A u \in Tasks : Held(u) \subseteq Conns
  BY ConnsType DEF TypeOK, Held
<1>5. ConnsOf(s) \subseteq Conns
  BY <1>4 DEF Free
<1>6. ASSUME NEW u \in Tasks, NEW c \in Held(u)' PROVE guc'[c] \in {NoTenant, subject[u]}
  <2>1. CASE u = t
    <3>1. c \in ConnsOf(s) /\ c \in Conns
      BY <1>1, <1>5, <1>6, <2>1
    <3>2. guc[c] \in {NoTenant, subject[t]}
      BY <3>1 DEF Isolated
    <3> QED
      BY <2>1, <3>1, <3>2
  <2>2. CASE u # t
    <3>1. c \in Held(u) /\ c \in Conns /\ c \notin ConnsOf(s)
      BY <1>1, <1>2, <1>4, <1>6, <2>2
    <3> QED
      BY <3>1 DEF Isolated
  <2> QED
    BY <2>1, <2>2
<1>7. ASSUME NEW c \in Conns, \A u \in Tasks : c \notin Held(u)' PROVE guc'[c] = NoTenant
  <2>1. c \notin ConnsOf(s) /\ \A u \in Tasks : u # t => c \notin Held(u)
    BY <1>1, <1>7
  <2>2. CASE c \in Held(t)
    BY <2>1, <2>2
  <2>3. CASE c \notin Held(t)
    <3>1. c \in Free
      BY <1>7, <2>1, <2>3 DEF Free
    <3> QED
      BY <1>7, <2>1, <3>1 DEF Isolated
  <2> QED
    BY <2>2, <2>3
<1> QED
  BY <1>3, <1>6, <1>7 DEF Isolated, Free

(* What enters and leaves blocks keeps contexts in scope. *)
LEMMA PushScope ==
  ASSUME NEW s \in Seq(Blocks), NEW b \in Blocks, NEW c, NEW d, NEW n,
         InScope(s, c, n), b.saved \in {c, NoTenant}, d \in {NoTenant, n}
  PROVE  InScope(Append(s, b), d, n)
<1> DEFINE r == Append(s, b)
<1>1. /\ Len(s) \in Nat /\ Len(r) = Len(s) + 1 /\ r # <<>> /\ r[Len(s) + 1] = b
      /\ \A i \in 1..Len(s) : r[i] = s[i]
  BY AppendProperties, LenProperties
<1>2. s # <<>> => Len(s) > 0
  BY EmptySeq
<1>3. s = <<>> => Len(s) = 0
  BY EmptySeq
<1>4. \A i \in 1..Len(r) : r[i].saved \in {NoTenant, n}
  BY <1>1 DEF InScope
<1>5. r[1].saved = NoTenant
  BY <1>1, <1>2, <1>3 DEF InScope
<1> QED
  BY <1>1, <1>4, <1>5 DEF InScope

LEMMA PopScope ==
  ASSUME NEW s \in Seq(Blocks), s # <<>>, NEW c, NEW n, InScope(s, c, n)
  PROVE  InScope(Pop(s), s[Len(s)].saved, n)
<1>1. Len(s) \in Nat \ {0}
  BY EmptySeq
<1>2. /\ Pop(s) \in Seq(Blocks) /\ Len(Pop(s)) = Len(s) - 1
      /\ \A i \in 1..Len(s) - 1 : Pop(s)[i] = s[i]
  BY PopConns
<1>3. Pop(s) = <<>> => Len(s) = 1
  BY <1>1, <1>2, EmptySeq
<1>4. Pop(s) # <<>> => Len(s) - 1 \in Nat \ {0}
  BY <1>1, <1>2, EmptySeq
<1>5. s[Len(s)].saved \in {NoTenant, n}
  BY <1>1 DEF InScope
<1>6. \A i \in 1..Len(Pop(s)) : Pop(s)[i].saved \in {NoTenant, n}
  BY <1>1, <1>2 DEF InScope
<1>7. Pop(s) # <<>> => Pop(s)[1].saved = NoTenant
  BY <1>1, <1>2, <1>4 DEF InScope
<1>8. Pop(s) = <<>> => s[Len(s)].saved = NoTenant
  BY <1>3 DEF InScope
<1> QED
  BY <1>5, <1>6, <1>7, <1>8 DEF InScope

LEMMA SetScope ==
  ASSUME NEW s \in Seq(Blocks), s # <<>>, NEW x \in Conns \cup {NoConn}, NEW c, NEW n,
         InScope(s, c, n)
  PROVE  InScope(WithConn(s, x), c, n)
<1>1. Len(s) \in Nat \ {0}
  BY EmptySeq
<1>2. /\ WithConn(s, x) \in Seq(Blocks) /\ Len(WithConn(s, x)) = Len(s)
      /\ \A i \in 1..Len(s) : WithConn(s, x)[i].saved = s[i].saved
  BY SetConns
<1>3. WithConn(s, x) # <<>>
  BY <1>1, <1>2, EmptySeq
<1> QED
  BY <1>1, <1>2, <1>3 DEF InScope

-----------------------------------------------------------------------------
(* Whatever is raised or returned, what is left to do are steps. *)
LEMMA EndsType ==
  ASSUME NEW n \in Nat
  PROVE  Ends(n) \in Seq(Ops)
<1>1. Ends(n) \in [1..n -> Ops]
  BY DEF Ends, Ops
<1> QED
  BY <1>1, SMT DEF Ends

LEMMA AfterType ==
  ASSUME NEW p \in Seq(Ops), NEW n
  PROVE  After(p, n) \in Seq(Ops)
<1> DEFINE inside == {k \in 1..Len(p) : \A j \in 1..k : Left(p, j) # n}
<1>1. Len(p) \in Nat /\ \A i \in 1..Len(p) : p[i] \in Ops
  BY LenProperties, ElementOfSeq
<1>2. IsFiniteSet(inside)
  <2>1. IsFiniteSet(1..Len(p))
    BY <1>1, FS_Interval
  <2>2. inside \in SUBSET (1..Len(p))
    OBVIOUS
  <2> HIDE DEF inside
  <2> QED
    BY <2>1, <2>2, FS_Subset
<1>3. Cardinality(inside) \in Nat
  BY <1>2, FS_CardinalityType
<1> HIDE DEF inside
<1>4. SubSeq(p, Cardinality(inside) + 2, Len(p)) \in Seq(Ops)
  BY <1>1, <1>3, SubSeqProperties
<1> QED
  BY <1>4 DEF After, inside

LEMMA RaiseType ==
  ASSUME TypeOK, NEW t \in Tasks, Raise(t) \/ (Return(t) /\ UNCHANGED failed)
  PROVE  steps' \in [Tasks -> Seq(Ops)] /\ failed' \in [Tasks -> BOOLEAN]
<1>1. Len(blocks[t]) \in Nat /\ DOMAIN blocks[t] = 1..Len(blocks[t])
  BY LenProperties DEF TypeOK
<1>2. Ends(Len(blocks[t])) \in Seq(Ops)
  BY <1>1, EndsType
<1>3. CASE Return(t) /\ failed' \in {failed, [failed EXCEPT ![t] = TRUE]}
  BY <1>2, <1>3 DEF Return, TypeOK
<1> DEFINE tries == {i \in DOMAIN blocks[t] : blocks[t][i].kind = "try"}
           above == {i \in DOMAIN blocks[t] : \A j \in tries : j < i}
           n     == Cardinality(above) + 1
<1>4. CASE steps' = [steps EXCEPT ![t] = Ends(n) \o After(@, n)] /\ UNCHANGED failed
  <2>1. IsFiniteSet(1..Len(blocks[t])) /\ above \in SUBSET (1..Len(blocks[t]))
    BY <1>1, FS_Interval
  <2> HIDE DEF tries, above
  <2>2. n \in Nat
    <3>1. IsFiniteSet(above)
      BY <2>1, FS_Subset
    <3>2. Cardinality(above) \in Nat
      BY <3>1, FS_CardinalityType
    <3> QED
      BY <3>2
  <2>3. Ends(n) \in Seq(Ops) /\ After(steps[t], n) \in Seq(Ops)
    BY <2>2, EndsType, AfterType DEF TypeOK
  <2>4. Ends(n) \o After(steps[t], n) \in Seq(Ops)
    BY <2>3, ConcatProperties
  <2> QED
    BY <1>4, <2>4 DEF TypeOK
<1> QED
  BY <1>3, <1>4 DEF Raise

LEMMA GoesType ==
  ASSUME TypeOK, NEW t \in Tasks, Goes(t), steps[t] # <<>>
  PROVE  steps' \in [Tasks -> Seq(Ops)]
BY HeadTailProperties DEF TypeOK, Goes

(* A step that touches neither stacks nor settings. *)
LEMMA Elsewhere ==
  ASSUME IInv, UNCHANGED <<policed, work, subject, blocks, ctx, durable, guc>>,
         steps' \in [Tasks -> Seq(Ops)], failed' \in [Tasks -> BOOLEAN]
  PROVE  IInv'
BY DEF IInv, TypeOK, Isolated, Disjoint, Scoped, Held, Free

(* The step of a task on its own stack and context. *)
LEMMA StackStep ==
  ASSUME IInv, NEW t \in Tasks, NEW s \in Seq(Blocks), NEW d,
         blocks' = [blocks EXCEPT ![t] = s], ctx' = [ctx EXCEPT ![t] = d],
         UNCHANGED <<policed, work, subject>>, InScope(s, d, subject[t]),
         steps' \in [Tasks -> Seq(Ops)], failed' \in [Tasks -> BOOLEAN],
         durable' \in [Tasks -> SUBSET Rows],
         ConnsOf(s) \subseteq Held(t) \cup Free,
         \/ guc' = guc
         \/ \E c : EndTransaction(c)
         \/ \E c \in ConnsOf(s) : guc' = [guc EXCEPT ![c] = subject[t]],
         \A c \in Held(t) \ ConnsOf(s) : guc'[c] = NoTenant
  PROVE  IInv'
<1>1. Scoped' /\ blocks' \in [Tasks -> Seq(Blocks)] /\ ctx' \in [Tasks -> TenantOrNone]
  BY DEF IInv, TypeOK, Scoped, InScope, TenantOrNone
<1>2. /\ guc' \in [Conns -> TenantOrNone]
      /\ \A c \in Conns : guc'[c] \in {guc[c], NoTenant} \/ (guc'[c] = subject[t] /\ c \in ConnsOf(s))
  BY DEF IInv, TypeOK, EndTransaction, TenantOrNone
<1>3. TypeOK'
  BY <1>1, <1>2 DEF IInv, TypeOK
<1>4. Isolated' /\ Disjoint'
  BY <1>2, OneStack DEF IInv
<1> QED
  BY <1>1, <1>3, <1>4 DEF IInv

-----------------------------------------------------------------------------
(* Every step keeps the invariant.  First those that push a block.         *)
LEMMA PushStep ==
  ASSUME IInv, NEW t \in Tasks,
         Authenticate(t) \/ EnterContext(t) \/ OpenAdminSession(t) \/ Try(t)
  PROVE  IInv'
<1> PICK k \in {"context", "session", "try"}, v \in {ctx[t], NoTenant}, d \in {ctx[t], subject[t]} :
      /\ blocks' = [blocks EXCEPT ![t] = Append(@, Block(k, v, NoConn))]
      /\ ctx' = [ctx EXCEPT ![t] = d]
      /\ Goes(t) /\ steps[t] # <<>>
      /\ UNCHANGED <<policed, work, subject, failed, durable, guc>>
  BY DEF IInv, TypeOK, Authenticate, EnterContext, OpenAdminSession, Try, Push, At
<1> DEFINE b == Block(k, v, NoConn)
<1>1. ctx[t] \in TenantOrNone /\ blocks[t] \in Seq(Blocks)
  BY DEF IInv, TypeOK
<1>2. b \in Blocks /\ b.saved = v /\ b.conn = NoConn
  BY <1>1 DEF Block, Blocks, TenantOrNone
<1>3. InScope(blocks[t], ctx[t], subject[t]) /\ ctx[t] \in {NoTenant, subject[t]}
  BY DEF IInv, Scoped, InScope
<1> HIDE DEF b
<1>4. InScope(Append(blocks[t], b), d, subject[t])
  BY <1>1, <1>2, <1>3, PushScope
<1>5. Append(blocks[t], b) \in Seq(Blocks) /\ ConnsOf(Append(blocks[t], b)) = Held(t)
  <2>1. /\ Append(blocks[t], b) \in Seq(Blocks)
        /\ ConnsOf(Append(blocks[t], b)) = ConnsOf(blocks[t]) \cup ({b.conn} \ {NoConn})
    BY <1>1, <1>2, PushConns
  <2> QED
    BY <1>2, <2>1 DEF Held
<1>6. steps' \in [Tasks -> Seq(Ops)]
  BY GoesType DEF IInv
<1> QED
  BY <1>4, <1>5, <1>6, StackStep DEF b, IInv, TypeOK

LEMMA OpenTenantSessionStep ==
  ASSUME IInv, NEW t \in Tasks, OpenTenantSession(t)
  PROVE  IInv'
<1>1. CASE Raise(t) /\ UNCHANGED <<blocks, guc>>
  BY <1>1, RaiseType, Elsewhere DEF OpenTenantSession, IInv
<1>2. CASE ctx[t] # NoTenant
  <2> PICK c \in Free : /\ blocks' = [blocks EXCEPT ![t] = Append(@, Block("session", ctx[t], c))]
                        /\ guc' = [guc EXCEPT ![c] = ctx[t]]
                        /\ Goes(t) /\ UNCHANGED failed
    BY <1>2 DEF OpenTenantSession, Push
  <2> DEFINE b == Block("session", ctx[t], c)
  <2>1. ctx[t] \in TenantOrNone /\ blocks[t] \in Seq(Blocks) /\ c \in Conns /\ c # NoConn
    BY NamesAssumption DEF IInv, TypeOK, Free
  <2>2. b \in Blocks /\ b.saved = ctx[t] /\ b.conn = c
    BY <2>1 DEF Block, Blocks, TenantOrNone
  <2>3. InScope(blocks[t], ctx[t], subject[t]) /\ ctx[t] = subject[t]
    BY <1>2 DEF IInv, Scoped, InScope
  <2> HIDE DEF b
  <2>4. InScope(Append(blocks[t], b), ctx[t], subject[t])
    BY <2>1, <2>2, <2>3, PushScope
  <2>5. Append(blocks[t], b) \in Seq(Blocks) /\ ConnsOf(Append(blocks[t], b)) = Held(t) \cup {c}
    BY <2>1, <2>2, PushConns DEF Held
  <2>6. steps' \in [Tasks -> Seq(Ops)]
    BY GoesType DEF IInv, OpenTenantSession, At
  <2>7. ctx' = [ctx EXCEPT ![t] = ctx[t]]
    BY DEF IInv, TypeOK, OpenTenantSession
  <2> QED
    BY <2>3, <2>4, <2>5, <2>6, <2>7, StackStep, ZenonT(30) DEF b, IInv, TypeOK, OpenTenantSession
<1> QED
  BY <1>1, <1>2 DEF OpenTenantSession

(* A step of a session that puts connection c in its place on the stack.   *)
LEMMA SetConnStep ==
  ASSUME IInv, NEW t \in Tasks, blocks[t] # <<>>,
         NEW c \in Conns \cup {NoConn}, SetConn(t, c), c \in Held(t) \cup Free \cup {NoConn},
         UNCHANGED <<policed, work, subject, ctx>>,
         steps' \in [Tasks -> Seq(Ops)], failed' \in [Tasks -> BOOLEAN],
         durable' \in [Tasks -> SUBSET Rows],
         \/ guc' = guc
         \/ \E d : EndTransaction(d)
         \/ c # NoConn /\ guc' = [guc EXCEPT ![c] = subject[t]],
         \/ Top(t).conn \in {NoConn, c}
         \/ guc'[Top(t).conn] = NoTenant
  PROVE  IInv'
<1> DEFINE s == WithConn(blocks[t], c)
<1>1. blocks[t] \in Seq(Blocks) /\ InScope(blocks[t], ctx[t], subject[t])
  BY DEF IInv, TypeOK, Scoped
<1>2. /\ s \in Seq(Blocks) /\ ConnsOf(s) \subseteq Held(t) \cup ({c} \ {NoConn})
      /\ Held(t) \subseteq ConnsOf(s) \cup {Top(t).conn} /\ (c # NoConn => c \in ConnsOf(s))
  BY <1>1, SetConns DEF Held, Top
<1>3. InScope(s, ctx[t], subject[t])
  BY <1>1, SetScope
<1>4. blocks' = [blocks EXCEPT ![t] = s] /\ ctx' = [ctx EXCEPT ![t] = ctx[t]]
  BY DEF SetConn, WithConn, IInv, TypeOK
<1> HIDE DEF s
<1>5. NoConn \notin Held(t)
  BY DEF Held, ConnsOf
<1>6. \A d \in Held(t) \ ConnsOf(s) : guc'[d] = NoTenant
  BY <1>2, <1>5
<1> QED
  BY <1>2, <1>3, <1>4, <1>6, StackStep

LEMMA UsableConn ==
  ASSUME IInv, NEW t \in Tasks, InSession(t)
  PROVE  /\ blocks[t] # <<>> /\ Top(t).conn \in Conns \cup {NoConn}
         /\ Top(t).conn # NoConn => Top(t).conn \in Held(t)
         /\ \A c \in Usable(t) : /\ c \in Conns /\ c # NoConn /\ c \in Held(t) \cup Free
                                  /\ Top(t).conn \in {NoConn, c}
<1>1. blocks[t] \in Seq(Blocks) /\ blocks[t] # <<>>
  BY DEF IInv, TypeOK, InSession
<1>2. Len(blocks[t]) \in 1..Len(blocks[t]) /\ DOMAIN blocks[t] = 1..Len(blocks[t])
  BY <1>1, EmptySeq, LenProperties
<1>3. Top(t) \in Blocks
  BY <1>1, <1>2, ElementOfSeq DEF Top
<1>4. Top(t).conn \in Conns \cup {NoConn}
  BY <1>3 DEF Blocks
<1>5. Top(t).conn # NoConn => Top(t).conn \in Held(t)
  BY <1>2 DEF Top, Held, ConnsOf
<1> QED
  BY <1>1, <1>4, <1>5, NamesAssumption DEF Usable, Free

LEMMA QueryStep ==
  ASSUME IInv, NEW t \in Tasks, Look(t) \/ Load(t) \/ SetConfig(t)
  PROVE  IInv'
<1>1. InSession(t) /\ steps[t] # <<>> /\ UNCHANGED <<policed, work, subject, ctx, durable>>
  BY DEF Look, Load, SetConfig, At
<1>2. steps' \in [Tasks -> Seq(Ops)] /\ failed' \in [Tasks -> BOOLEAN]
  <2>1. CASE Goes(t) /\ UNCHANGED failed
    BY <1>1, <2>1, GoesType DEF IInv, TypeOK
  <2>2. CASE Raise(t)
    BY <2>2, RaiseType DEF IInv
  <2> QED
    BY <2>1, <2>2 DEF Look, Load, SetConfig
<1> PICK c \in Usable(t) : SetConn(t, c) /\ guc' \in {guc, [guc EXCEPT ![c] = subject[t]]}
  BY DEF Look, Load, SetConfig
<1>3. /\ blocks[t] # <<>> /\ Top(t).conn \in {NoConn, c}
      /\ c \in Conns /\ c # NoConn /\ c \in Held(t) \cup Free
  BY <1>1, UsableConn
<1>4. durable' \in [Tasks -> SUBSET Rows]
  BY <1>1 DEF IInv, TypeOK
<1> QED
  BY <1>1, <1>2, <1>3, <1>4, SetConnStep

LEMMA CommitStep ==
  ASSUME IInv, NEW t \in Tasks, Commit(t)
  PROVE  IInv'
<1>1. InSession(t) /\ steps[t] # <<>> /\ UNCHANGED <<policed, work, subject, ctx>>
  BY DEF Commit, At
<1> PICK c \in Usable(t) :
      \/ /\ durable' = [durable EXCEPT ![t] = @ \cup Head(steps[t]).rows]
         /\ SetConn(t, NoConn) /\ EndTransaction(c) /\ Goes(t) /\ UNCHANGED failed
      \/ SetConn(t, c) /\ Raise(t) /\ UNCHANGED <<durable, guc>>
  BY DEF Commit
<1>2. /\ blocks[t] # <<>> /\ Top(t).conn \in {NoConn, c}
      /\ c \in Conns /\ c # NoConn /\ c \in Held(t) \cup Free
  BY <1>1, UsableConn
<1>3. CASE /\ durable' = [durable EXCEPT ![t] = @ \cup Head(steps[t]).rows]
           /\ SetConn(t, NoConn) /\ EndTransaction(c) /\ Goes(t) /\ UNCHANGED failed
  <2>1. Head(steps[t]).rows \in SUBSET Rows
    <3>1. Head(steps[t]) \in Ops
      BY <1>1, HeadTailProperties DEF IInv, TypeOK
    <3> QED
      BY <3>1 DEF Ops
  <2>2. durable' \in [Tasks -> SUBSET Rows] /\ failed' \in [Tasks -> BOOLEAN]
    BY <1>3, <2>1 DEF IInv, TypeOK
  <2>3. steps' \in [Tasks -> Seq(Ops)]
    BY <1>1, <1>3, GoesType DEF IInv
  <2>4. guc'[c] = NoTenant
    BY <1>2, <1>3 DEF EndTransaction
  <2> QED
    BY <1>1, <1>2, <1>3, <2>2, <2>3, <2>4, SetConnStep
<1>4. CASE SetConn(t, c) /\ Raise(t) /\ UNCHANGED <<durable, guc>>
  <2>1. steps' \in [Tasks -> Seq(Ops)] /\ failed' \in [Tasks -> BOOLEAN]
    BY <1>4, RaiseType DEF IInv
  <2>2. durable' \in [Tasks -> SUBSET Rows]
    BY <1>4 DEF IInv, TypeOK
  <2> QED
    BY <1>1, <1>2, <1>4, <2>1, <2>2, SetConnStep
<1> QED
  BY <1>3, <1>4

LEMMA RollbackStep ==
  ASSUME IInv, NEW t \in Tasks, Rollback(t)
  PROVE  IInv'
<1>1. /\ InSession(t) /\ steps[t] # <<>> /\ Goes(t) /\ SetConn(t, NoConn)
      /\ EndTransaction(Top(t).conn) /\ UNCHANGED <<policed, work, subject, ctx, failed, durable>>
  BY DEF Rollback, At
<1>2. blocks[t] # <<>> /\ Top(t).conn \in Conns \cup {NoConn}
  BY <1>1, UsableConn
<1>3. Top(t).conn = NoConn \/ guc'[Top(t).conn] = NoTenant
  BY <1>1, <1>2 DEF EndTransaction
<1>4. steps' \in [Tasks -> Seq(Ops)]
  BY <1>1, GoesType DEF IInv
<1>5. failed' \in [Tasks -> BOOLEAN] /\ durable' \in [Tasks -> SUBSET Rows]
  BY <1>1 DEF IInv, TypeOK
<1> QED
  BY <1>1, <1>2, <1>3, <1>4, <1>5, SetConnStep

LEMMA LeaveStep ==
  ASSUME IInv, NEW t \in Tasks, Leave(t)
  PROVE  IInv'
<1> DEFINE s == Pop(blocks[t])
           d == Top(t).saved
<1>1. /\ blocks[t] # <<>> /\ steps[t] # <<>> /\ Goes(t) /\ EndTransaction(Top(t).conn)
      /\ UNCHANGED <<policed, work, subject, failed, durable>>
      /\ blocks' = [blocks EXCEPT ![t] = s] /\ ctx' = [ctx EXCEPT ![t] = d]
  BY DEF Leave, At, Pop
<1>2. blocks[t] \in Seq(Blocks) /\ InScope(blocks[t], ctx[t], subject[t])
  BY DEF IInv, TypeOK, Scoped
<1>3. s \in Seq(Blocks) /\ ConnsOf(s) \subseteq Held(t) /\ Held(t) \subseteq ConnsOf(s) \cup {Top(t).conn}
  BY <1>1, <1>2, PopConns DEF Held, Top
<1>4. InScope(s, d, subject[t])
  BY <1>1, <1>2, PopScope DEF Top
<1>5. Held(t) \subseteq Conns
  BY <1>2, ConnsType DEF Held
<1>6. \A c \in Held(t) \ ConnsOf(s) : guc'[c] = NoTenant
  BY <1>1, <1>3, <1>5 DEF EndTransaction
<1>7. steps' \in [Tasks -> Seq(Ops)]
  BY <1>1, GoesType DEF IInv
<1>8. failed' \in [Tasks -> BOOLEAN] /\ durable' \in [Tasks -> SUBSET Rows]
  BY <1>1 DEF IInv, TypeOK
<1> HIDE DEF s, d
<1> QED
  BY <1>1, <1>3, <1>4, <1>6, <1>7, <1>8, StackStep

(* The safety job takes up another tenant outside of every block, where    *)
(* neither a context nor a connection is left of the one before.           *)
LEMMA TurnStep ==
  ASSUME IInv, NEW t \in Tasks, Turn(t)
  PROVE  IInv'
<1>1. /\ blocks[t] = <<>> /\ UNCHANGED <<policed, work, blocks, ctx, failed, guc>>
      /\ durable' = [durable EXCEPT ![t] = {}]
      /\ \E n \in Tenants : subject' = [subject EXCEPT ![t] = n]
  BY DEF Turn
<1>2. steps' \in [Tasks -> Seq(Ops)]
  BY GoesType DEF Turn, At, IInv
<1>3. TypeOK'
  BY <1>1, <1>2 DEF IInv, TypeOK
<1>4. Held(t) = {}
  BY <1>1 DEF Held, ConnsOf
<1>5. Isolated' /\ Disjoint'
  BY <1>1, <1>4 DEF IInv, TypeOK, Isolated, Disjoint, Held, Free
<1>6. Scoped'
  <2>1. ASSUME NEW u \in Tasks, u # t PROVE InScope(blocks[u], ctx[u], subject[u])'
    BY <1>1, <2>1 DEF IInv, TypeOK, Scoped, InScope
  <2>2. InScope(blocks[t], ctx[t], subject[t])'
    BY <1>1, EmptySeq DEF IInv, TypeOK, Scoped, InScope
  <2> QED
    BY <2>1, <2>2 DEF Scoped
<1> QED
  BY <1>3, <1>5, <1>6 DEF IInv

LEMMA OtherStep ==
  ASSUME IInv, NEW t \in Tasks, Call(t) \/ LeaveEarly(t) \/ PoolTimeout(t) \/ Fails(t)
  PROVE  IInv'
<1>1. steps[t] # <<>> /\ UNCHANGED <<policed, work, subject, blocks, ctx, durable, guc>>
  BY DEF Call, LeaveEarly, PoolTimeout, Waits, Fails, At
<1>2. CASE Goes(t) /\ UNCHANGED failed
  BY <1>1, <1>2, GoesType, Elsewhere DEF IInv, TypeOK
<1>3. CASE Raise(t) \/ (Return(t) /\ UNCHANGED failed)
  BY <1>1, <1>3, RaiseType, Elsewhere DEF IInv
<1> QED
  BY <1>2, <1>3 DEF Call, LeaveEarly, PoolTimeout, Fails

LEMMA Inductive == IInv /\ [Next]_vars => IInv'
<1> SUFFICES ASSUME IInv, [Next]_vars PROVE IInv'
  OBVIOUS
<1>1. ASSUME NEW t \in Tasks, Step(t) \/ Fails(t) PROVE IInv'
  BY <1>1, PushStep, OpenTenantSessionStep, QueryStep, CommitStep, RollbackStep, LeaveStep,
     TurnStep, OtherStep DEF Step
<1>2. CASE UNCHANGED vars
  BY <1>2, Elsewhere DEF vars, IInv, TypeOK
<1> QED
  BY <1>1, <1>2 DEF Next

LEMMA Initial == Init => IInv
<1> SUFFICES ASSUME Init PROVE IInv
  OBVIOUS
<1>1. \A t \in Tasks : blocks[t] = <<>> /\ Held(t) = {}
  BY DEF Init, Held, ConnsOf
<1>2. TypeOK
  BY ProgramAssumption, EmptySeq DEF Init, TypeOK, TenantOrNone
<1>3. Isolated /\ Disjoint
  BY <1>1 DEF Init, Isolated, Disjoint, Free
<1>4. Scoped
  BY <1>1, EmptySeq DEF Init, Scoped, InScope
<1> QED
  BY <1>2, <1>3, <1>4 DEF IInv

-----------------------------------------------------------------------------
(* Tasks, contexts, stacks and settings keep their types, whatever the     *)
(* programs are.                                                           *)
THEOREM TypeCorrect == Spec => []TypeOK
<1>1. IInv => TypeOK
  BY DEF IInv
<1> QED
  BY <1>1, Initial, Inductive, PTL DEF Spec

(* However many tasks share however many connections, and however their    *)
(* sessions and contexts are nested, committed, raised through or left: no *)
(* transaction is another tenant's, and a connection goes back to the pool *)
(* without one.                                                            *)
THEOREM TenantsIsolated == Spec => []Isolated
<1>1. IInv => Isolated
  BY DEF IInv
<1> QED
  BY <1>1, Initial, Inductive, PTL DEF Spec
=============================================================================

------------------------ MODULE TenantProgramsProofs ------------------------
(***************************************************************************)
(* Proofs about the endpoints and jobs of TenantPrograms, for every set of *)
(* tenants, tasks and connections, however many requests and jobs run.     *)
(*                                                                         *)
(* Runs(strict, p, s, e) types a program: with blocks s entered it ends    *)
(* with blocks e, and every statement on the way is in a session that      *)
(* suits it.  Typed programs behave (the first part), also behind          *)
(* exceptions, which leave blocks wherever they are raised; the programs   *)
(* of the code are typed (the second).                                     *)
(***************************************************************************)
EXTENDS TenantPrograms, TenantScopeProofs, WellFoundedInduction

(* What is known of a block: a context, a try, a session in the            *)
(* transaction that has the tenant set, any session.                       *)
Frames == {"context", "try", "tenant", "session"}
Stacks == Seq(Frames)

Front(s) == SubSeq(s, 1, Len(s) - 1)
HasContext(s, n) == \E i \in 1..n : s[i] = "context"
Sessions == {"tenant", "session"}
IsSession(s) == s # <<>> /\ s[Len(s)] \in Sessions
InTenant(s) == s # <<>> /\ s[Len(s)] = "tenant"

(* The blocks after step o, entered in blocks s.  strict: statements on    *)
(* scoped rows must be in a transaction with the tenant.                   *)
Effect(strict, o, s, e) ==
  CASE o.do = "authenticate" -> s = <<>> /\ e = Append(s, "context")
    [] o.do = "context" -> e = Append(s, "context")
    [] o.do = "tenant" -> HasContext(s, Len(s)) /\ e = Append(s, "tenant")
    [] o.do = "admin" -> e = Append(s, "session")
    [] o.do = "try" -> e = Append(s, "try")
    [] o.do = "end" -> s # <<>> /\ e = Front(s)
    [] o.do \in {"look", "load"} -> IsSession(s) /\ (strict => InTenant(s)) /\ e = s
    [] o.do \in {"root", "refresh", "set_config"} -> IsSession(s) /\ e = s
    [] o.do = "commit" -> /\ IsSession(s) /\ (strict /\ ~o.rows \subseteq {"tenant"} => InTenant(s))
                          /\ e = Append(Front(s), "session")
    [] o.do = "rollback" -> IsSession(s) /\ e = Append(Front(s), "session")
    [] o.do \in {"call", "may_return", "return"} -> e = s
    [] o.do = "turn" -> s = <<>> /\ e = s

Path(strict, p, st) == \A i \in 1..Len(p) : Effect(strict, p[i], st[i], st[i + 1])

Runs(strict, p, s, e) ==
  /\ p \in Seq(Ops) /\ s \in Stacks /\ e \in Stacks
  /\ \E st \in [1..Len(p) + 1 -> Stacks] :
       st[1] = s /\ st[Len(p) + 1] = e /\ Path(strict, p, st)

-----------------------------------------------------------------------------
LEMMA Least ==
  ASSUME NEW T \in SUBSET Nat, T # {}
  PROVE  \E m \in T : \A n \in T : m <= n
<1> DEFINE R == OpToRel(<, Nat)
<1>1. IsWellFoundedOn(R, Nat)
  BY NatLessThanWellFounded
<1>2. \A x, y \in Nat : <<y, x>> \in R <=> y < x
  BY DEF OpToRel
<1> HIDE DEF R
<1>3. PICK m \in T : \A n \in T : <<n, m>> \notin R
  BY <1>1, WFMin
<1>4. m \in Nat /\ \A n \in T : n \in Nat
  OBVIOUS
<1>5. \A n \in T : ~(n < m)
  BY <1>2, <1>3, <1>4
<1> QED
  BY <1>3, <1>4, <1>5

LEMMA PushStack ==
  ASSUME NEW s \in Stacks, NEW f \in Frames
  PROVE  /\ Append(s, f) \in Stacks /\ Append(s, f) # <<>>
         /\ Len(Append(s, f)) = Len(s) + 1 /\ Len(s) \in Nat
         /\ Append(s, f)[Len(s) + 1] = f
         /\ \A i \in 1..Len(s) : Append(s, f)[i] = s[i]
         /\ Front(Append(s, f)) = s
<1>1. /\ Append(s, f) \in Stacks /\ Append(s, f) # <<>>
      /\ Len(Append(s, f)) = Len(s) + 1 /\ Len(s) \in Nat
      /\ Append(s, f)[Len(s) + 1] = f
      /\ \A i \in 1..Len(s) : Append(s, f)[i] = s[i]
  BY AppendProperties, LenProperties DEF Stacks
<1>2. \A i \in 1..Len(s) : Append(s, f)[i] \in Frames
  BY <1>1, ElementOfSeq DEF Stacks
<1>3. /\ Front(Append(s, f)) \in Stacks /\ Len(Front(Append(s, f))) = Len(s)
      /\ \A i \in 1..Len(s) : Front(Append(s, f))[i] = s[i]
  BY <1>1, <1>2, SubSeqProperties DEF Front, Stacks
<1>4. Front(Append(s, f)) = s
  BY <1>3, SeqEqual DEF Stacks
<1> QED
  BY <1>1, <1>4

LEMMA PrefixStack ==
  ASSUME NEW s \in Stacks, NEW n \in 0..Len(s)
  PROVE  /\ SubSeq(s, 1, n) \in Stacks /\ Len(SubSeq(s, 1, n)) = n
         /\ \A i \in 1..n : SubSeq(s, 1, n)[i] = s[i]
<1>1. Len(s) \in Nat /\ n \in Nat /\ n \in Int /\ 1 \in Int
  BY LenProperties DEF Stacks
<1>2. \A i \in 1..n : s[i] \in Frames
  BY <1>1, ElementOfSeq DEF Stacks
<1>3. /\ SubSeq(s, 1, n) \in Seq(Frames)
      /\ Len(SubSeq(s, 1, n)) = IF 1 <= n THEN n - 1 + 1 ELSE 0
      /\ \A i \in 1..n - 1 + 1 : SubSeq(s, 1, n)[i] = s[1 + i - 1]
  BY <1>1, <1>2, SubSeqProperties
<1>4. \A i \in 1..n : i \in 1..n - 1 + 1 /\ 1 + i - 1 = i
  BY <1>1
<1> QED
  BY <1>1, <1>3, <1>4 DEF Stacks

LEMMA PopStack ==
  ASSUME NEW s \in Stacks, s # <<>>
  PROVE  /\ Len(s) \in Nat \ {0} /\ s[Len(s)] \in Frames
         /\ Front(s) \in Stacks /\ Len(Front(s)) = Len(s) - 1
         /\ \A i \in 1..Len(s) - 1 : Front(s)[i] = s[i]
<1>1. Len(s) \in Nat \ {0}
  BY EmptySeq DEF Stacks
<1>2. \A i \in 1..Len(s) : s[i] \in Frames
  BY ElementOfSeq DEF Stacks
<1>3. Len(s) - 1 \in 0..Len(s)
  BY <1>1
<1>4. /\ Front(s) \in Stacks /\ Len(Front(s)) = Len(s) - 1
      /\ \A i \in 1..Len(s) - 1 : Front(s)[i] = s[i]
  BY <1>1, <1>2, <1>3, PrefixStack DEF Front
<1> QED
  BY <1>1, <1>2, <1>4

(* A step changes the depth by one at most, and the innermost block only.  *)
LEMMA EffectShape ==
  ASSUME NEW strict \in BOOLEAN, NEW o \in Ops, NEW s \in Stacks, NEW e, Effect(strict, o, s, e)
  PROVE  /\ e \in Stacks
         /\ Len(e) = Len(s) + (IF o.do \in Opens THEN 1 ELSE IF o.do = "end" THEN -1 ELSE 0)
         /\ \A i \in 1..Len(s) - 1 : i <= Len(e) /\ e[i] = s[i]
<1>0. Len(s) \in Nat
  BY LenProperties DEF Stacks
<1>1. CASE o.do \in {"authenticate", "context", "tenant", "admin", "try"}
  <2>1. PICK f \in Frames : e = Append(s, f)
    BY <1>1 DEF Effect, Frames
  <2> QED
    BY <1>0, <1>1, <2>1, PushStack DEF Opens
<1>2. CASE o.do = "end"
  <2>1. s # <<>> /\ e = Front(s)
    BY <1>2 DEF Effect
  <2> QED
    BY <1>2, <2>1, PopStack DEF Opens
<1>3. CASE o.do \in {"commit", "rollback"}
  <2>1. s # <<>> /\ e = Append(Front(s), "session")
    BY <1>3 DEF Effect, IsSession
  <2>2. /\ Front(s) \in Stacks /\ Len(Front(s)) = Len(s) - 1 /\ Len(s) \in Nat \ {0}
        /\ \A i \in 1..Len(s) - 1 : Front(s)[i] = s[i]
    BY <2>1, PopStack
  <2>3. /\ e \in Stacks /\ Len(e) = Len(s) /\ \A i \in 1..Len(s) - 1 : e[i] = s[i]
    BY <2>1, <2>2, PushStack DEF Frames
  <2> QED
    BY <1>3, <2>2, <2>3 DEF Opens
<1>4. CASE o.do \in {"look", "load", "root", "refresh", "set_config", "call",
                   "may_return", "return", "turn"}
  <2>1. e = s
    BY <1>4 DEF Effect
  <2> QED
    BY <1>0, <1>4, <2>1 DEF Opens
<1> QED
  BY <1>1, <1>2, <1>3, <1>4 DEF Ops

-----------------------------------------------------------------------------
(* Programs in sequence, and their single steps.                           *)
LEMMA RunsTail ==
  ASSUME NEW strict, NEW p, p # <<>>, NEW s, NEW e, Runs(strict, p, s, e)
  PROVE  \E m \in Stacks : Effect(strict, Head(p), s, m) /\ Runs(strict, Tail(p), m, e)
<1>1. p \in Seq(Ops) /\ s \in Stacks /\ e \in Stacks
  BY DEF Runs
<1>2. PICK st \in [1..Len(p) + 1 -> Stacks] : st[1] = s /\ st[Len(p) + 1] = e /\ Path(strict, p, st)
  BY DEF Runs
<1>3. Len(p) \in Nat \ {0} /\ Head(p) = p[1]
  BY <1>1, EmptySeq
<1>4. /\ Tail(p) \in Seq(Ops) /\ Len(Tail(p)) = Len(p) - 1
      /\ \A i \in 1..Len(Tail(p)) : Tail(p)[i] = p[i + 1]
  BY <1>1, HeadTailProperties
<1> DEFINE su == [i \in 1..Len(p) |-> st[i + 1]]
<1>5. st[2] \in Stacks /\ Effect(strict, Head(p), s, st[2])
  <2>1. 1 \in 1..Len(p) /\ 2 \in 1..Len(p) + 1 /\ 1 + 1 = 2
    BY <1>3
  <2> QED
    BY <1>2, <1>3, <2>1 DEF Path
<1>6. su \in [1..Len(Tail(p)) + 1 -> Stacks] /\ su[1] = st[2] /\ su[Len(Tail(p)) + 1] = e
  BY <1>2, <1>3, <1>4
<1>7. Path(strict, Tail(p), su)
  <2> SUFFICES ASSUME NEW i \in 1..Len(Tail(p)) PROVE Effect(strict, Tail(p)[i], su[i], su[i + 1])
    BY DEF Path
  <2>1. i + 1 \in 1..Len(p) /\ Tail(p)[i] = p[i + 1] /\ su[i] = st[i + 1]
        /\ su[i + 1] = st[(i + 1) + 1]
    BY <1>3, <1>4
  <2> QED
    BY <1>2, <2>1 DEF Path
<1> HIDE DEF su
<1>8. Runs(strict, Tail(p), st[2], e)
  BY <1>1, <1>4, <1>5, <1>6, <1>7 DEF Runs
<1> QED
  BY <1>5, <1>8

LEMMA RunsNothing ==
  ASSUME NEW strict, NEW s, NEW e, Runs(strict, <<>>, s, e)
  PROVE  s = e
BY EmptySeq DEF Runs

LEMMA RunsNone ==
  ASSUME NEW strict, NEW s \in Stacks
  PROVE  Runs(strict, <<>>, s, s)
<1> DEFINE st == [i \in 1..1 |-> s]
<1>1. <<>> \in Seq(Ops) /\ Len(<<>>) = 0
  BY EmptySeq
<1>2. st \in [1..Len(<<>>) + 1 -> Stacks] /\ st[1] = s /\ st[Len(<<>>) + 1] = s
  BY <1>1
<1>3. Path(strict, <<>>, st)
  BY <1>1 DEF Path
<1> QED
  BY <1>1, <1>2, <1>3 DEF Runs

LEMMA SeqRuns ==
  ASSUME NEW strict, NEW p, NEW q, NEW s, NEW m, NEW e,
         Runs(strict, p, s, m), Runs(strict, q, m, e)
  PROVE  Runs(strict, p \o q, s, e)
<1>1. p \in Seq(Ops) /\ q \in Seq(Ops) /\ s \in Stacks /\ m \in Stacks /\ e \in Stacks
  BY DEF Runs
<1>2. PICK st \in [1..Len(p) + 1 -> Stacks] : st[1] = s /\ st[Len(p) + 1] = m /\ Path(strict, p, st)
  BY DEF Runs
<1>3. PICK su \in [1..Len(q) + 1 -> Stacks] : su[1] = m /\ su[Len(q) + 1] = e /\ Path(strict, q, su)
  BY DEF Runs
<1>4. /\ p \o q \in Seq(Ops) /\ Len(p \o q) = Len(p) + Len(q)
      /\ \A i \in 1..Len(p) + Len(q) : (p \o q)[i] = IF i <= Len(p) THEN p[i] ELSE q[i - Len(p)]
  BY <1>1, ConcatProperties
<1>5. Len(p) \in Nat /\ Len(q) \in Nat
  BY <1>1, LenProperties
<1> DEFINE n == Len(p)
           sv == [i \in 1..Len(p \o q) + 1 |-> IF i <= n THEN st[i] ELSE su[i - n]]
<1>6. \A i \in 1..Len(p \o q) + 1 : IF i <= n THEN i \in 1..n + 1 ELSE i - n \in 1..Len(q) + 1
  BY <1>4, <1>5
<1>7. sv \in [1..Len(p \o q) + 1 -> Stacks]
  BY <1>2, <1>3, <1>6
<1>8. sv[1] = s /\ sv[Len(p \o q) + 1] = e
  BY <1>2, <1>3, <1>4, <1>5
<1>9. Path(strict, p \o q, sv)
  <2> SUFFICES ASSUME NEW i \in 1..Len(p \o q) PROVE Effect(strict, (p \o q)[i], sv[i], sv[i + 1])
    BY DEF Path
  <2>1. CASE i <= n
    <3>1. i \in 1..n /\ (p \o q)[i] = p[i] /\ sv[i] = st[i]
      BY <1>4, <1>5, <2>1
    <3>2. sv[i + 1] = st[i + 1]
      <4>1. CASE i = n
        <5>1. sv[i + 1] = su[1]
          BY <1>4, <1>5, <4>1
        <5> QED
          BY <1>2, <1>3, <4>1, <5>1
      <4>2. CASE i < n
        BY <1>4, <1>5, <4>2
      <4> QED
        BY <1>5, <2>1, <4>1, <4>2
    <3> QED
      BY <1>2, <3>1, <3>2 DEF Path
  <2>2. CASE i > n
    <3>1. /\ i - n \in 1..Len(q) /\ (p \o q)[i] = q[i - n] /\ sv[i] = su[i - n]
          /\ sv[i + 1] = su[(i - n) + 1]
      BY <1>4, <1>5, <2>2
    <3> QED
      BY <1>3, <3>1 DEF Path
  <2> QED
    BY <1>5, <2>1, <2>2
<1> HIDE DEF sv
<1> QED
  BY <1>1, <1>4, <1>7, <1>8, <1>9 DEF Runs

LEMMA StepRuns ==
  ASSUME NEW strict, NEW o \in Ops, NEW s \in Stacks, NEW e \in Stacks, Effect(strict, o, s, e)
  PROVE  Runs(strict, <<o>>, s, e)
<1> DEFINE st == [i \in 1..2 |-> IF i = 1 THEN s ELSE e]
<1>1. <<o>> \in Seq(Ops) /\ Len(<<o>>) = 1 /\ <<o>>[1] = o
  OBVIOUS
<1>2. st \in [1..Len(<<o>>) + 1 -> Stacks] /\ st[1] = s /\ st[Len(<<o>>) + 1] = e
  BY <1>1
<1>3. Path(strict, <<o>>, st)
  <2> SUFFICES Effect(strict, <<o>>[1], st[1], st[1 + 1])
    BY <1>1 DEF Path
  <2> QED
    BY <1>1
<1> HIDE DEF st
<1> QED
  BY <1>1, <1>2, <1>3 DEF Runs

-----------------------------------------------------------------------------
(* What an exception or a return leaves to be done: the ends of blocks,    *)
(* and what follows the try.                                               *)
LEMMA RunsEnds ==
  ASSUME NEW strict, NEW a \in Stacks, NEW k \in 0..Len(a)
  PROVE  Runs(strict, Ends(k), a, SubSeq(a, 1, Len(a) - k))
<1>1. Len(a) \in Nat /\ k \in Nat /\ k <= Len(a)
  BY LenProperties DEF Stacks
<1>2. Ends(k) \in Seq(Ops) /\ Len(Ends(k)) = k /\ \A i \in 1..k : Ends(k)[i].do = "end"
  BY <1>1, EndsType DEF Ends
<1> DEFINE st == [i \in 1..k + 1 |-> SubSeq(a, 1, Len(a) - (i - 1))]
<1>3. ASSUME NEW i \in 1..k + 1
      PROVE  /\ st[i] \in Stacks /\ Len(st[i]) = Len(a) - (i - 1)
             /\ \A j \in 1..Len(a) - (i - 1) : st[i][j] = a[j]
  <2>1. Len(a) - (i - 1) \in 0..Len(a) /\ st[i] = SubSeq(a, 1, Len(a) - (i - 1))
    BY <1>1
  <2> HIDE DEF st
  <2> QED
    BY <2>1, PrefixStack
<1>4. st[1] = a
  <2>1. st[1] = SubSeq(a, 1, Len(a))
    BY <1>1
  <2> QED
    BY <2>1, SubSeqFull DEF Stacks
<1>5. st \in [1..Len(Ends(k)) + 1 -> Stacks] /\ st[Len(Ends(k)) + 1] = SubSeq(a, 1, Len(a) - k)
  <2>1. k + 1 \in 1..k + 1 /\ (k + 1) - 1 = k
    BY <1>1
  <2>2. st[k + 1] = SubSeq(a, 1, Len(a) - k)
    BY <2>1
  <2>3. st = [i \in 1..k + 1 |-> st[i]]
    OBVIOUS
  <2> HIDE DEF st
  <2> QED
    BY <1>2, <1>3, <2>2, <2>3
<1> HIDE DEF st
<1>6. Path(strict, Ends(k), st)
  <2> SUFFICES ASSUME NEW i \in 1..k PROVE Effect(strict, Ends(k)[i], st[i], st[i + 1])
    BY <1>2 DEF Path
  <2>1. i \in 1..k + 1 /\ i + 1 \in 1..k + 1 /\ (i + 1) - 1 = i
    BY <1>1
  <2>2. st[i] \in Stacks /\ Len(st[i]) = Len(a) - (i - 1)
        /\ \A j \in 1..Len(a) - (i - 1) : st[i][j] = a[j]
    BY <1>3, <2>1
  <2>3. st[i + 1] \in Stacks /\ Len(st[i + 1]) = Len(a) - i
        /\ \A j \in 1..Len(a) - i : st[i + 1][j] = a[j]
    BY <1>3, <2>1
  <2>4. st[i] # <<>>
    BY <1>1, <2>2, EmptySeq
  <2>5. /\ Front(st[i]) \in Stacks /\ Len(Front(st[i])) = Len(st[i]) - 1
        /\ \A j \in 1..Len(st[i]) - 1 : Front(st[i])[j] = st[i][j]
    BY <2>2, <2>4, PopStack
  <2>6. Len(Front(st[i])) = Len(st[i + 1])
        /\ \A j \in 1..Len(st[i + 1]) : st[i + 1][j] = Front(st[i])[j]
    BY <1>1, <2>2, <2>3, <2>5
  <2>7. st[i + 1] = Front(st[i])
    BY <2>3, <2>5, <2>6, SeqEqual DEF Stacks
  <2> QED
    BY <1>2, <2>4, <2>7 DEF Effect
<1>7. SubSeq(a, 1, Len(a) - k) \in Stacks
  BY <1>1, PrefixStack
<1> QED
  BY <1>2, <1>4, <1>5, <1>6, <1>7 DEF Runs

(* What is open on the way is what After counts. *)
Ending == {"end"}
Count(p, k, S) == Cardinality({i \in 1..k : p[i].do \in S})

LEMMA CountStep ==
  ASSUME NEW p, NEW k \in Nat, NEW S
  PROVE  /\ Count(p, 0, S) = 0 /\ Count(p, k, S) \in Nat
         /\ Count(p, k + 1, S) = Count(p, k, S) + (IF p[k + 1].do \in S THEN 1 ELSE 0)
<1> DEFINE C(n) == {i \in 1..n : p[i].do \in S}
<1>1. C(0) = {}
  OBVIOUS
<1>2. IsFiniteSet(C(k))
  <2>1. IsFiniteSet(1..k) /\ C(k) \in SUBSET (1..k)
    BY FS_Interval
  <2> HIDE DEF C
  <2> QED
    BY <2>1, FS_Subset
<1>3. C(k + 1) = IF p[k + 1].do \in S THEN C(k) \cup {k + 1} ELSE C(k)
  OBVIOUS
<1>4. k + 1 \notin C(k)
  OBVIOUS
<1>5. \A n : Count(p, n, S) = Cardinality(C(n))
  BY DEF Count
<1> HIDE DEF C
<1>6. Cardinality(C(k)) \in Nat /\ Cardinality(C(k) \cup {k + 1}) = Cardinality(C(k)) + 1
  BY <1>2, <1>4, FS_AddElement, FS_CardinalityType
<1>7. Cardinality(C(0)) = 0
  BY <1>1, FS_EmptySet
<1>8. Cardinality(C(k + 1)) = Cardinality(C(k)) + (IF p[k + 1].do \in S THEN 1 ELSE 0)
  BY <1>3, <1>6
<1> QED
  BY <1>5, <1>6, <1>7, <1>8

LEMMA LeftCount ==
  ASSUME NEW p, NEW k
  PROVE  Left(p, k) = Count(p, k, Ending) - Count(p, k, Opens)
<1>1. {i \in 1..k : p[i].do \in Ending} = {i \in 1..k : p[i].do = "end"}
  BY DEF Ending
<1> QED
  BY <1>1 DEF Left, Count

LEMMA LeftDepth ==
  ASSUME NEW strict \in BOOLEAN, NEW p \in Seq(Ops), NEW st \in [1..Len(p) + 1 -> Stacks],
         Path(strict, p, st), NEW k \in 0..Len(p)
  PROVE  Left(p, k) = Len(st[1]) - Len(st[k + 1])
<1>1. Len(p) \in Nat /\ \A i \in 1..Len(p) : p[i] \in Ops
  BY LenProperties, ElementOfSeq
<1>2. \A i \in 1..Len(p) + 1 : st[i] \in Stacks /\ Len(st[i]) \in Nat
  BY LenProperties DEF Stacks
<1> DEFINE good(j) == Left(p, j) = Len(st[1]) - Len(st[j + 1])
           bad == {j \in 0..Len(p) : ~good(j)}
<1>3. good(0)
  <2>1. Count(p, 0, Ending) = 0 /\ Count(p, 0, Opens) = 0
        /\ Left(p, 0) = Count(p, 0, Ending) - Count(p, 0, Opens)
    BY CountStep, LeftCount
  <2>2. Len(st[1]) \in Nat /\ 0 + 1 = 1
    BY <1>1, <1>2
  <2> QED
    BY <2>1, <2>2
<1>4. ASSUME NEW j \in 0..Len(p) - 1, good(j) PROVE good(j + 1)
  <2>1. j \in Nat /\ j + 1 \in 1..Len(p) /\ j + 1 \in 1..Len(p) + 1 /\ (j + 1) + 1 \in 1..Len(p) + 1
    BY <1>1
  <2>2. Effect(strict, p[j + 1], st[j + 1], st[(j + 1) + 1])
    BY <2>1 DEF Path
  <2>3. /\ Count(p, j, Ending) \in Nat /\ Count(p, j, Opens) \in Nat
        /\ Count(p, j + 1, Ending) = Count(p, j, Ending) + (IF p[j + 1].do \in Ending THEN 1 ELSE 0)
        /\ Count(p, j + 1, Opens) = Count(p, j, Opens) + (IF p[j + 1].do \in Opens THEN 1 ELSE 0)
    <3>1. \A S : /\ Count(p, j, S) \in Nat
                 /\ Count(p, j + 1, S) = Count(p, j, S) + (IF p[j + 1].do \in S THEN 1 ELSE 0)
      BY <2>1, CountStep
    <3> QED
      BY <3>1
  <2>4. Len(st[(j + 1) + 1]) = Len(st[j + 1])
          + (IF p[j + 1].do \in Opens THEN 1 ELSE IF p[j + 1].do \in Ending THEN -1 ELSE 0)
    BY <1>1, <1>2, <2>1, <2>2, EffectShape, SMTT(20) DEF Ending
  <2>5. ~(p[j + 1].do \in Ending /\ p[j + 1].do \in Opens)
    BY DEF Opens, Ending
  <2>6. Len(st[1]) \in Nat /\ Len(st[j + 1]) \in Nat
    BY <1>1, <1>2, <2>1
  <2>7. /\ Left(p, j) = Count(p, j, Ending) - Count(p, j, Opens)
        /\ Left(p, j + 1) = Count(p, j + 1, Ending) - Count(p, j + 1, Opens)
    BY LeftCount
  <2>8. Left(p, j) = Len(st[1]) - Len(st[j + 1])
    BY <1>4
  <2>9. Left(p, j + 1) = Len(st[1]) - Len(st[(j + 1) + 1])
    <3> DEFINE E == Count(p, j, Ending)     E1 == Count(p, j + 1, Ending)
               O == Count(p, j, Opens)      O1 == Count(p, j + 1, Opens)
               a == Len(st[1])   b == Len(st[j + 1])   b1 == Len(st[(j + 1) + 1])
               L == Left(p, j)   L1 == Left(p, j + 1)
               ends == p[j + 1].do \in Ending   opens == p[j + 1].do \in Opens
    <3>1. /\ E \in Nat /\ O \in Nat /\ a \in Nat /\ b \in Nat
          /\ E1 = E + (IF ends THEN 1 ELSE 0) /\ O1 = O + (IF opens THEN 1 ELSE 0)
          /\ b1 = b + (IF opens THEN 1 ELSE IF ends THEN -1 ELSE 0) /\ ~(ends /\ opens)
          /\ L = E - O /\ L1 = E1 - O1 /\ L = a - b
      BY <2>3, <2>4, <2>5, <2>6, <2>7, <2>8
    <3> HIDE DEF E, E1, O, O1, a, b, b1, L, L1, ends, opens
    <3>2. L1 = a - b1
      BY <3>1
    <3> QED
      BY <3>2 DEF L1, a, b1
  <2> QED
    BY <2>9
<1>5. bad = {}
  <2> SUFFICES ASSUME bad # {} PROVE FALSE
    OBVIOUS
  <2> HIDE DEF good
  <2>1. bad \in SUBSET Nat
    BY <1>1
  <2>2. PICK m \in bad : \A n \in bad : m <= n
    <3> HIDE DEF bad
    <3> QED
      BY <2>1, Least
  <2>3. m \in Nat /\ m # 0 /\ m \in 0..Len(p) /\ ~good(m)
    BY <1>3, <2>1
  <2>4. m - 1 \in 0..Len(p) - 1 /\ m - 1 \in 0..Len(p) /\ ~(m <= m - 1) /\ (m - 1) + 1 = m
    BY <1>1, <2>3
  <2>5. good(m - 1)
    BY <2>2, <2>4
  <2> QED
    BY <1>4, <2>3, <2>4, <2>5
<1> QED
  BY <1>5

LEMMA RunsFrom ==
  ASSUME NEW strict, NEW p \in Seq(Ops), NEW st \in [1..Len(p) + 1 -> Stacks], Path(strict, p, st),
         NEW k \in 0..Len(p)
  PROVE  Runs(strict, SubSeq(p, k + 1, Len(p)), st[k + 1], st[Len(p) + 1])
<1> DEFINE n == Len(p)
           r == SubSeq(p, k + 1, n)
           su == [i \in 1..n - k + 1 |-> st[k + i]]
<1>1. n \in Nat /\ k \in Nat /\ k <= n /\ k + 1 \in Int /\ n \in Int
  BY LenProperties
<1>2. \A i \in k + 1..n : p[i] \in Ops
  BY <1>1, ElementOfSeq
<1>3. /\ r \in Seq(Ops) /\ Len(r) = IF k + 1 <= n THEN n - (k + 1) + 1 ELSE 0
      /\ \A i \in 1..n - (k + 1) + 1 : r[i] = p[k + 1 + i - 1]
  BY <1>1, <1>2, SubSeqProperties
<1> HIDE DEF r, n
<1>4. Len(r) = n - k
  BY <1>1, <1>3
<1>5. \A i \in 1..n - k : r[i] = p[k + i]
  <2> TAKE i \in 1..n - k
  <2>1. i \in 1..n - (k + 1) + 1 /\ k + 1 + i - 1 = k + i
    BY <1>1
  <2> QED
    BY <1>3, <2>1
<1>6. \A i \in 1..n - k + 1 : k + i \in 1..n + 1
  BY <1>1
<1>7. su \in [1..Len(r) + 1 -> Stacks]
  BY <1>4, <1>6 DEF n
<1>8. su[1] = st[k + 1] /\ su[Len(r) + 1] = st[n + 1]
  <2>1. 1 \in 1..n - k + 1 /\ Len(r) + 1 \in 1..n - k + 1 /\ k + (Len(r) + 1) = n + 1
    BY <1>1, <1>4
  <2> QED
    BY <2>1
<1>9. Path(strict, r, su)
  <2> SUFFICES ASSUME NEW i \in 1..n - k PROVE Effect(strict, r[i], su[i], su[i + 1])
    BY <1>4 DEF Path
  <2>1. k + i \in 1..Len(p) /\ su[i] = st[k + i] /\ su[i + 1] = st[(k + i) + 1]
    BY <1>1 DEF n
  <2> QED
    BY <1>5, <2>1 DEF Path
<1>10. st[k + 1] \in Stacks /\ st[n + 1] \in Stacks
  BY <1>1 DEF n
<1> HIDE DEF su
<1> QED
  BY <1>3, <1>7, <1>8, <1>9, <1>10 DEF Runs, r, n

(* Until block number n from the inside is left, those outside of it are   *)
(* as they were.                                                           *)
LEMMA OuterKept ==
  ASSUME NEW strict \in BOOLEAN, NEW p \in Seq(Ops), NEW st \in [1..Len(p) + 1 -> Stacks],
         Path(strict, p, st), NEW m \in Nat, NEW k \in 0..Len(p),
         \A j \in 1..k : Len(st[j]) > m
  PROVE  \A i \in 1..m : st[k + 1][i] = st[1][i]
<1>1. Len(p) \in Nat /\ \A i \in 1..Len(p) : p[i] \in Ops
  BY LenProperties, ElementOfSeq
<1>2. \A i \in 1..Len(p) + 1 : st[i] \in Stacks /\ Len(st[i]) \in Nat
  BY LenProperties DEF Stacks
<1> DEFINE good(j) == \A i \in 1..m : st[j + 1][i] = st[1][i]
           bad == {j \in 0..k : ~good(j)}
<1>3. good(0)
  OBVIOUS
<1>4. ASSUME NEW j \in 0..k - 1, good(j) PROVE good(j + 1)
  <2>1. /\ j + 1 \in 1..Len(p) /\ j + 1 \in 1..k /\ j + 1 \in 1..Len(p) + 1
        /\ (j + 1) + 1 \in 1..Len(p) + 1
    BY <1>1
  <2>2. Effect(strict, p[j + 1], st[j + 1], st[(j + 1) + 1])
    BY <2>1 DEF Path
  <2>3. \A i \in 1..Len(st[j + 1]) - 1 : st[(j + 1) + 1][i] = st[j + 1][i]
    BY <1>1, <1>2, <2>1, <2>2, EffectShape
  <2>4. Len(st[j + 1]) > m /\ Len(st[j + 1]) \in Nat
    BY <1>2, <2>1
  <2>5. \A i \in 1..m : i \in 1..Len(st[j + 1]) - 1
    BY <2>4
  <2> QED
    BY <1>4, <2>3, <2>5
<1>5. bad = {}
  <2> SUFFICES ASSUME bad # {} PROVE FALSE
    OBVIOUS
  <2> HIDE DEF good
  <2>1. bad \in SUBSET Nat
    BY <1>1
  <2>2. PICK b \in bad : \A n \in bad : b <= n
    <3> HIDE DEF bad
    <3> QED
      BY <2>1, Least
  <2>3. b \in Nat /\ b # 0 /\ b \in 0..k /\ ~good(b)
    BY <1>3, <2>1
  <2>4. b - 1 \in 0..k - 1 /\ b - 1 \in 0..k /\ ~(b <= b - 1) /\ (b - 1) + 1 = b
    BY <1>1, <2>3
  <2>5. good(b - 1)
    BY <2>2, <2>4
  <2> QED
    BY <1>4, <2>3, <2>4, <2>5
<1>6. good(k)
  <2>1. k \in 0..k
    BY <1>1
  <2> HIDE DEF good
  <2> QED
    BY <1>5, <2>1
<1> QED
  BY <1>6

LEMMA RunsAfter ==
  ASSUME NEW strict \in BOOLEAN, NEW p, NEW a, Runs(strict, p, a, <<>>), NEW n \in 1..Len(a)
  PROVE  Runs(strict, After(p, n), SubSeq(a, 1, Len(a) - n), <<>>)
<1>1. p \in Seq(Ops) /\ a \in Stacks
  BY DEF Runs
<1>2. PICK st \in [1..Len(p) + 1 -> Stacks] : st[1] = a /\ st[Len(p) + 1] = <<>>
      /\ Path(strict, p, st)
  BY DEF Runs
<1>3. Len(p) \in Nat /\ Len(a) \in Nat /\ \A i \in 1..Len(p) + 1 : Len(st[i]) \in Nat
      /\ st[i] \in Stacks
  BY <1>1, LenProperties DEF Stacks
<1>4. \A i \in 1..Len(p) : p[i] \in Ops
  BY <1>1, ElementOfSeq
<1>5. \A k \in 0..Len(p) : Left(p, k) = Len(a) - Len(st[k + 1])
  BY <1>1, <1>2, LeftDepth
<1> DEFINE m == Len(a) - n
           out == {k \in 0..Len(p) : Len(st[k + 1]) <= m}
<1>6. m \in Nat /\ m < Len(a) /\ Len(a) - m = n
  BY <1>3
<1>7. PICK k \in out : \A j \in out : k <= j
  <2>1. Len(p) \in out
    <3>1. Len(st[Len(p) + 1]) = 0
      BY <1>2, EmptySeq
    <3> QED
      BY <1>3, <1>6, <3>1
  <2>2. out \in SUBSET (0..Len(p)) /\ 0..Len(p) \in SUBSET Nat
    BY <1>3
  <2> HIDE DEF out
  <2>3. out \in SUBSET Nat /\ out # {}
    BY <2>1, <2>2
  <2> QED
    BY <2>3, Least
<1>8. k \in 1..Len(p) /\ k \in 0..Len(p) /\ Len(st[k + 1]) <= m
  <2>1. 0 \notin out
    <3>1. Len(st[0 + 1]) = Len(a)
      BY <1>2
    <3> QED
      BY <1>3, <1>6, <3>1
  <2> QED
    BY <1>3, <1>7, <2>1
<1>9. \A j \in 1..k : Len(st[j]) > m
  <2> TAKE j \in 1..k
  <2>1. j - 1 \in 0..Len(p) /\ ~(k <= j - 1) /\ (j - 1) + 1 = j /\ j \in 1..Len(p) + 1
    BY <1>3, <1>8
  <2>2. j - 1 \notin out
    BY <1>7, <2>1
  <2>3. ~(Len(st[j]) <= m)
    BY <2>1, <2>2
  <2> QED
    BY <1>3, <1>6, <2>1, <2>3
<1> HIDE DEF out, m
<1>10. Len(st[k + 1]) = m
  <2>1. Effect(strict, p[k], st[k], st[k + 1])
    BY <1>2, <1>8 DEF Path
  <2>2. k \in 1..Len(p) + 1 /\ k + 1 \in 1..Len(p) + 1 /\ k \in 1..k
    BY <1>3, <1>8
  <2>3. Len(st[k + 1]) = Len(st[k])
          + (IF p[k].do \in Opens THEN 1 ELSE IF p[k].do = "end" THEN -1 ELSE 0)
    BY <1>3, <1>4, <1>8, <2>1, <2>2, EffectShape
  <2>4. Len(st[k + 1]) >= Len(st[k]) - 1
    BY <1>3, <2>2, <2>3
  <2>5. Len(st[k]) > m
    BY <1>9, <2>2
  <2> QED
    BY <1>3, <1>6, <1>8, <2>2, <2>4, <2>5
<1>11. st[k + 1] = SubSeq(a, 1, m)
  <2>1. m \in 0..Len(a)
    BY <1>3, <1>6
  <2>2. SubSeq(a, 1, m) \in Stacks /\ Len(SubSeq(a, 1, m)) = m
        /\ \A i \in 1..m : SubSeq(a, 1, m)[i] = a[i]
    BY <1>1, <2>1, PrefixStack
  <2>3. \A i \in 1..m : st[k + 1][i] = a[i]
    BY <1>1, <1>2, <1>6, <1>8, <1>9, OuterKept
  <2>4. st[k + 1] \in Stacks
    BY <1>3, <1>8
  <2> QED
    BY <1>10, <2>2, <2>3, <2>4, SeqEqual DEF Stacks
<1> DEFINE inside == {i \in 1..Len(p) : \A j \in 1..i : Left(p, j) # n}
<1>12. inside = 1..k - 1
  <2>1. Left(p, k) = n
    BY <1>5, <1>6, <1>8, <1>10
  <2>2. ASSUME NEW j \in 1..k - 1 PROVE Left(p, j) # n /\ j \in 1..Len(p)
    <3>1. j + 1 \in 1..k /\ j \in 0..Len(p) /\ j \in 1..Len(p) /\ j + 1 \in 1..Len(p) + 1
      BY <1>3, <1>8
    <3>2. Left(p, j) = Len(a) - Len(st[j + 1]) /\ Len(st[j + 1]) > m
      BY <1>5, <1>9, <3>1
    <3> QED
      BY <1>3, <1>6, <3>1, <3>2
  <2>3. ASSUME NEW i \in 1..Len(p), i \notin 1..k - 1 PROVE k \in 1..i
    BY <1>3, <1>8, <2>3
  <2>4. \A i \in 1..k - 1 : \A j \in 1..i : j \in 1..k - 1
    BY <1>8
  <2>5. \A i \in 1..k - 1 : i \in inside
    BY <2>2, <2>4
  <2>6. \A i \in inside : i \in 1..k - 1
    BY <2>1, <2>3
  <2> HIDE DEF inside
  <2> QED
    BY <2>5, <2>6
<1>13. Cardinality(inside) + 2 = k + 1
  <2>1. Cardinality(1..k - 1) = k - 1
    <3>1. 1 \in Int /\ k \in Nat /\ k - 1 \in Int /\ 1 <= k
      BY <1>8
    <3>2. Cardinality(1..k - 1) = IF 1 > k - 1 THEN 0 ELSE k - 1 - 1 + 1
      BY <3>1, FS_Interval
    <3> DEFINE c == Cardinality(1..k - 1)
    <3> HIDE DEF c
    <3>3. c = IF 1 > k - 1 THEN 0 ELSE k - 1 - 1 + 1
      BY <3>2 DEF c
    <3>4. c = k - 1
      BY <3>1, <3>3
    <3> QED
      BY <3>4 DEF c
  <2>2. Cardinality(inside) = k - 1
    BY <1>12, <2>1
  <2> HIDE DEF inside
  <2> QED
    BY <1>8, <2>2
<1>14. After(p, n) = SubSeq(p, k + 1, Len(p))
  BY <1>13 DEF After
<1>15. Runs(strict, SubSeq(p, k + 1, Len(p)), st[k + 1], <<>>)
  BY <1>1, <1>2, <1>8, RunsFrom
<1> QED
  BY <1>11, <1>14, <1>15 DEF m

LEMMA RaiseRuns ==
  ASSUME TypeOK, NEW strict \in BOOLEAN, NEW t \in Tasks, NEW a \in Stacks, Len(a) = Len(blocks[t]),
         Runs(strict, steps[t], a, <<>>), Raise(t) \/ Return(t)
  PROVE  Runs(strict, steps'[t], a, <<>>)
<1>1. DOMAIN steps = Tasks /\ DOMAIN blocks[t] = 1..Len(a) /\ Len(a) \in Nat
  BY LenProperties DEF TypeOK, Stacks
<1>2. CASE Return(t)
  <2>1. steps'[t] = Ends(Len(a))
    BY <1>1, <1>2 DEF Return
  <2>2. Len(a) \in 0..Len(a) /\ SubSeq(a, 1, Len(a) - Len(a)) = <<>>
    BY <1>1, SubSeqEmpty
  <2>3. Runs(strict, Ends(Len(a)), a, SubSeq(a, 1, Len(a) - Len(a)))
    BY <2>2, RunsEnds
  <2> QED
    BY <2>1, <2>2, <2>3
<1> DEFINE tries == {i \in DOMAIN blocks[t] : blocks[t][i].kind = "try"}
           above == {i \in DOMAIN blocks[t] : \A j \in tries : j < i}
           n     == Cardinality(above) + 1
<1>3. CASE tries # {} /\ steps' = [steps EXCEPT ![t] = Ends(n) \o After(@, n)]
  <2>1. PICK j \in tries : TRUE
    BY <1>3
  <2>2. j \in 1..Len(a) /\ above \in SUBSET ((1..Len(a)) \ {j})
    BY <1>1
  <2> HIDE DEF tries, above
  <2>3. IsFiniteSet(1..Len(a)) /\ Cardinality(1..Len(a)) = Len(a)
    <3>1. Len(a) > 0 /\ 1 \in Int /\ Len(a) \in Int
      BY <1>1, <2>2
    <3>2. /\ IsFiniteSet(1..Len(a))
          /\ Cardinality(1..Len(a)) = IF 1 > Len(a) THEN 0 ELSE Len(a) - 1 + 1
      BY <3>1, FS_Interval
    <3> DEFINE c == Cardinality(1..Len(a))
    <3> HIDE DEF c
    <3>3. c = IF 1 > Len(a) THEN 0 ELSE Len(a) - 1 + 1
      BY <3>2 DEF c
    <3>4. c = Len(a)
      BY <3>1, <3>3
    <3> QED
      BY <3>2, <3>4 DEF c
  <2>4. /\ IsFiniteSet((1..Len(a)) \ {j})
        /\ Cardinality((1..Len(a)) \ {j}) = Len(a) - 1
    BY <2>2, <2>3, FS_RemoveElement
  <2>5. Cardinality(above) \in Nat /\ Cardinality(above) <= Len(a) - 1
    <3>1. IsFiniteSet(above) /\ Cardinality(above) <= Cardinality((1..Len(a)) \ {j})
      BY <2>2, <2>4, FS_Subset
    <3> QED
      BY <2>4, <3>1, FS_CardinalityType
  <2>6. n \in 1..Len(a) /\ n \in 0..Len(a)
    BY <1>1, <2>5
  <2> HIDE DEF n
  <2>7. Runs(strict, Ends(n), a, SubSeq(a, 1, Len(a) - n))
    BY <2>6, RunsEnds
  <2>8. Runs(strict, After(steps[t], n), SubSeq(a, 1, Len(a) - n), <<>>)
    BY <2>6, RunsAfter
  <2>9. steps'[t] = Ends(n) \o After(steps[t], n)
    BY <1>1, <1>3
  <2> QED
    BY <2>7, <2>8, <2>9, SeqRuns
<1> QED
  BY <1>2, <1>3 DEF Raise

-----------------------------------------------------------------------------
(* A task's blocks fit a stack of frames: a context is set exactly inside  *)
(* of a context block, and a "tenant" frame is a session whose transaction *)
(* has the tenant.  No two of its sessions share a connection.             *)
Kind(f) == IF f \in Sessions THEN "session" ELSE f
Scope(a, i, n) == IF HasContext(a, i) THEN n ELSE NoTenant

FitsIn(s, c, n, g, a) ==
  /\ Len(a) = Len(s)
  /\ \A i \in 1..Len(s) : Kind(a[i]) = s[i].kind
  /\ \A i \in 1..Len(s) : s[i].saved = Scope(a, i - 1, n)
  /\ \A i \in 1..Len(s) : a[i] = "tenant" => s[i].conn # NoConn /\ g[s[i].conn] = n
  /\ \A i, j \in 1..Len(s) : i # j /\ s[i].conn = s[j].conn => s[i].conn = NoConn
  /\ c = Scope(a, Len(s), n)

Fits(t, a) == FitsIn(blocks[t], ctx[t], subject[t], guc, a)
Typed(t) == \E a \in Stacks : Fits(t, a) /\ Runs(work[t] \notin Unscoped, steps[t], a, <<>>)

WellTyped == \A t \in Tasks : Typed(t)

LEMMA ScopeSame ==
  ASSUME NEW a, NEW b, NEW i \in Nat, NEW n, \A j \in 1..i : a[j] = b[j]
  PROVE  Scope(a, i, n) = Scope(b, i, n)
BY DEF Scope, HasContext

LEMMA FitSettings ==
  ASSUME NEW s, NEW c, NEW n, NEW g, NEW h, NEW a, FitsIn(s, c, n, g, a),
         \A i \in 1..Len(s) : s[i].conn # NoConn => h[s[i].conn] = g[s[i].conn]
  PROVE  FitsIn(s, c, n, h, a)
BY DEF FitsIn

LEMMA FitPush ==
  ASSUME NEW s \in Seq(Blocks), NEW c, NEW n, NEW g, NEW a \in Stacks, FitsIn(s, c, n, g, a),
         NEW b \in Blocks, NEW f \in Frames, Kind(f) = b.kind, b.saved = c,
         f = "tenant" => b.conn # NoConn /\ g[b.conn] = n,
         b.conn # NoConn => \A i \in 1..Len(s) : s[i].conn # b.conn
  PROVE  FitsIn(Append(s, b), IF f = "context" THEN n ELSE c, n, g, Append(a, f))
<1> DEFINE r == Append(s, b)
           z == Append(a, f)
           d == IF f = "context" THEN n ELSE c
<1>1. /\ Len(s) \in Nat /\ Len(r) = Len(s) + 1 /\ r[Len(s) + 1] = b
      /\ \A i \in 1..Len(s) : r[i] = s[i]
  BY AppendProperties, LenProperties
<1>2. Len(a) = Len(s)
  BY DEF FitsIn
<1>3. /\ Len(z) = Len(s) + 1 /\ z[Len(s) + 1] = f
      /\ \A i \in 1..Len(s) : z[i] = a[i]
  BY <1>2, PushStack
<1> HIDE DEF r, z, d
<1>4. \A i \in 1..Len(s) + 1 : i = Len(s) + 1 \/ i \in 1..Len(s)
  BY <1>1
<1>5. \A i \in 1..Len(s) + 1 : Kind(z[i]) = r[i].kind
  BY <1>1, <1>3, <1>4 DEF FitsIn
<1>6. \A i \in 1..Len(s) + 1 : z[i] = "tenant" => r[i].conn # NoConn /\ g[r[i].conn] = n
  BY <1>1, <1>3, <1>4 DEF FitsIn
<1>7. \A i, j \in 1..Len(s) + 1 : i # j /\ r[i].conn = r[j].conn => r[i].conn = NoConn
  BY <1>1, <1>3, <1>4 DEF FitsIn
<1>8. \A i \in 1..Len(s) + 1 : r[i].saved = Scope(z, i - 1, n)
  <2> TAKE i \in 1..Len(s) + 1
  <2>1. i - 1 \in Nat /\ \A j \in 1..i - 1 : a[j] = z[j]
    BY <1>1, <1>3
  <2>2. Scope(a, i - 1, n) = Scope(z, i - 1, n)
    BY <2>1, ScopeSame
  <2>3. r[i].saved = Scope(a, i - 1, n)
    <3>1. CASE i = Len(s) + 1
      BY <1>1, <3>1 DEF FitsIn
    <3>2. CASE i \in 1..Len(s)
      BY <1>1, <3>2 DEF FitsIn
    <3> QED
      BY <1>4, <3>1, <3>2
  <2> QED
    BY <2>2, <2>3
<1>9. d = Scope(z, Len(s) + 1, n)
  <2>1. HasContext(z, Len(s) + 1) <=> HasContext(a, Len(s)) \/ f = "context"
    BY <1>1, <1>3, <1>4 DEF HasContext
  <2> QED
    BY <2>1 DEF FitsIn, Scope, d
<1>10. Len(z) = Len(r) /\ Len(r) = Len(s) + 1
  BY <1>1, <1>3
<1>11. FitsIn(r, d, n, g, z)
  BY <1>5, <1>6, <1>7, <1>8, <1>9, <1>10 DEF FitsIn
<1> QED
  BY <1>11 DEF r, z, d

LEMMA FitPop ==
  ASSUME NEW s \in Seq(Blocks), NEW c, NEW n, NEW g, NEW a \in Stacks, FitsIn(s, c, n, g, a),
         s # <<>>
  PROVE  FitsIn(Pop(s), s[Len(s)].saved, n, g, Front(a))
<1>1. /\ Len(s) \in Nat \ {0} /\ Len(Pop(s)) = Len(s) - 1
      /\ \A i \in 1..Len(s) - 1 : Pop(s)[i] = s[i]
  BY PopConns, EmptySeq
<1>2. Len(a) = Len(s) /\ a # <<>>
  BY <1>1, EmptySeq DEF FitsIn
<1>3. /\ Len(Front(a)) = Len(s) - 1
      /\ \A i \in 1..Len(s) - 1 : Front(a)[i] = a[i]
  BY <1>2, PopStack
<1> DEFINE m == Len(s) - 1
<1>4. m \in Nat /\ Len(s) \in 1..Len(s) /\ \A i \in 1..m : i \in 1..Len(s)
  BY <1>1
<1>5. \A i \in 1..m : Scope(a, i - 1, n) = Scope(Front(a), i - 1, n)
  <2> TAKE i \in 1..m
  <2>1. i - 1 \in Nat /\ \A j \in 1..i - 1 : a[j] = Front(a)[j]
    BY <1>1, <1>3
  <2> QED
    BY ZenonT(30), <2>1, ScopeSame
<1>6. Scope(a, m, n) = Scope(Front(a), m, n)
  BY <1>3, <1>4, ScopeSame
<1>7. s[Len(s)].saved = Scope(a, m, n)
  BY <1>4 DEF FitsIn
<1> DEFINE r == Pop(s)
           z == Front(a)
<1>8. Len(r) = m /\ Len(z) = m /\ \A i \in 1..m : r[i] = s[i] /\ z[i] = a[i]
  BY <1>1, <1>3
<1> HIDE DEF r, z, m
<1>9. FitsIn(r, s[Len(s)].saved, n, g, z)
  BY <1>4, <1>5, <1>6, <1>7, <1>8, SMTT(20) DEF FitsIn, z
<1> QED
  BY <1>9 DEF r, z

LEMMA FitTop ==
  ASSUME NEW s \in Seq(Blocks), NEW c, NEW n, NEW g, NEW h, NEW a \in Stacks, FitsIn(s, c, n, g, a),
         s # <<>>, s[Len(s)].kind = "session", NEW x \in Conns \cup {NoConn}, NEW f \in Sessions,
         f = "tenant" => x # NoConn /\ h[x] = n,
         \A i \in 1..Len(s) - 1 :
           s[i].conn # NoConn => h[s[i].conn] = g[s[i].conn] /\ s[i].conn # x
  PROVE  FitsIn(WithConn(s, x), c, n, h, Append(Front(a), f))
<1> DEFINE l == Len(s)
           r == WithConn(s, x)
           z == Append(Front(a), f)
<1>1. l \in Nat \ {0} /\ l \in 1..l /\ \A i \in 1..l : s[i] \in Blocks
  BY EmptySeq, ElementOfSeq
<1>2. Len(a) = l /\ a # <<>>
  BY <1>1, EmptySeq DEF FitsIn
<1>3. Front(a) \in Stacks /\ Len(Front(a)) = l - 1 /\ \A i \in 1..l - 1 : Front(a)[i] = a[i]
  BY <1>2, PopStack
<1>4. f \in Frames
  BY DEF Sessions, Frames
<1>5. Len(z) = l /\ z[l] = f /\ \A i \in 1..l - 1 : z[i] = a[i]
  BY <1>1, <1>3, <1>4, PushStack
<1>6. r = [s EXCEPT ![l] = [s[l] EXCEPT !.conn = x]]
  BY DEF WithConn
<1>7. [s[l] EXCEPT !.conn = x] \in Blocks
  BY <1>1 DEF Blocks
<1>8. Len(r) = l /\ r[l] = [s[l] EXCEPT !.conn = x] /\ \A i \in 1..l - 1 : r[i] = s[i]
  BY <1>1, <1>6, <1>7, ExceptSeq, SMTT(20)
<1>9. r[l].kind = "session" /\ r[l].saved = s[l].saved /\ r[l].conn = x
  BY <1>1, <1>8 DEF Blocks
<1> HIDE DEF r, z, l
<1>10. \A i \in 1..l : i = l \/ i \in 1..l - 1
  BY <1>1
<1>11. ASSUME NEW i \in 1..l - 1
       PROVE  /\ i \in 1..l /\ i \in 1..Len(s) /\ z[i] = a[i] /\ r[i] = s[i]
              /\ Kind(a[i]) = s[i].kind /\ s[i].saved = Scope(a, i - 1, n)
              /\ a[i] = "tenant" => s[i].conn # NoConn /\ h[s[i].conn] = n
  <2>1. i \in 1..l /\ i \in 1..Len(s) /\ z[i] = a[i] /\ r[i] = s[i]
    BY <1>1, <1>5, <1>8 DEF l
  <2>2. a[i] = "tenant" => s[i].conn # NoConn /\ g[s[i].conn] = n
    BY <2>1 DEF FitsIn
  <2>3. s[i].conn # NoConn => h[s[i].conn] = g[s[i].conn]
    BY DEF l
  <2> QED
    BY <2>1, <2>2, <2>3 DEF FitsIn
<1>12. \A i \in 1..l : z[i] = "tenant" => r[i].conn # NoConn /\ h[r[i].conn] = n
  <2>1. z[l] = "tenant" => r[l].conn # NoConn /\ h[r[l].conn] = n
    BY <1>5, <1>9
  <2> QED
    BY <1>10, <1>11, <2>1
<1>13. \A i, j \in 1..l : i # j /\ r[i].conn = r[j].conn => r[i].conn = NoConn
  <2>1. \A i, j \in 1..l - 1 : i # j /\ r[i].conn = r[j].conn => r[i].conn = NoConn
    BY <1>8, <1>10 DEF FitsIn, l
  <2>2. \A i \in 1..l - 1 : r[i].conn = r[l].conn => r[i].conn = NoConn
    BY <1>8, <1>9 DEF l
  <2> QED
    BY <1>10, <2>1, <2>2
<1>14. ASSUME NEW i \in Nat, i <= l - 1 PROVE Scope(a, i, n) = Scope(z, i, n)
  <2>1. \A j \in 1..i : a[j] = z[j]
    BY <1>1, <1>5, <1>14
  <2> QED
    BY <2>1, ScopeSame
<1>15. \A i \in 1..l : Kind(z[i]) = r[i].kind /\ r[i].saved = Scope(z, i - 1, n)
  <2>1. ASSUME NEW i \in 1..l PROVE s[i].saved = Scope(z, i - 1, n)
    <3>1. i - 1 \in Nat /\ i - 1 <= l - 1
      BY <1>1
    <3> QED
      BY <1>14, <3>1 DEF FitsIn, l
  <2>2. Kind(z[l]) = r[l].kind /\ r[l].saved = Scope(z, l - 1, n)
    BY <1>1, <1>5, <1>9, <2>1 DEF Kind
  <2> QED
    BY <1>10, <1>11, <2>1, <2>2
<1>16. c = Scope(z, l, n)
  <2>1. a[l] # "context" /\ z[l] # "context"
    BY <1>1, <1>5 DEF FitsIn, l, Kind, Sessions
  <2>2. HasContext(z, l) <=> HasContext(a, l)
    BY <1>1, <1>5, <1>10, <2>1 DEF HasContext
  <2> QED
    BY <2>2 DEF FitsIn, Scope, l
<1>17. FitsIn(r, c, n, h, z)
  BY <1>5, <1>8, <1>12, <1>13, <1>15, <1>16 DEF FitsIn
<1> QED
  BY <1>17 DEF r, z

-----------------------------------------------------------------------------
(* A step of task t leaves the others as they are. *)
Spared(t) == \A u \in Tasks \ {t} : \A c \in Held(u) : guc'[c] = guc[c]

LEMMA HeldConn ==
  ASSUME TypeOK, NEW t \in Tasks, NEW i \in 1..Len(blocks[t]), blocks[t][i].conn # NoConn
  PROVE  blocks[t][i].conn \in Held(t) /\ blocks[t][i].conn \in Conns
<1>1. DOMAIN blocks[t] = 1..Len(blocks[t]) /\ ConnsOf(blocks[t]) \subseteq Conns
  BY LenProperties, ConnsType DEF TypeOK
<1> QED
  BY <1>1 DEF Held, ConnsOf

LEMMA OthersTyped ==
  ASSUME IInv, WellTyped, NEW t \in Tasks, Spared(t), Typed(t)',
         \A u \in Tasks \ {t} : /\ work'[u] = work[u] /\ subject'[u] = subject[u]
                                /\ steps'[u] = steps[u] /\ blocks'[u] = blocks[u]
                                /\ ctx'[u] = ctx[u]
  PROVE  WellTyped'
<1> SUFFICES ASSUME NEW u \in Tasks, u # t PROVE Typed(u)'
  BY DEF WellTyped
<1>1. PICK a \in Stacks : Fits(u, a) /\ Runs(work[u] \notin Unscoped, steps[u], a, <<>>)
  BY DEF WellTyped, Typed
<1>2. \A i \in 1..Len(blocks[u]) : blocks[u][i].conn # NoConn
        => guc'[blocks[u][i].conn] = guc[blocks[u][i].conn]
  BY HeldConn DEF IInv, Spared
<1>3. FitsIn(blocks[u], ctx[u], subject[u], guc', a)
  BY <1>1, <1>2, FitSettings DEF Fits
<1>4. Fits(u, a)'
  BY <1>3 DEF Fits
<1>5. Runs(work'[u] \notin Unscoped, steps'[u], a, <<>>)
  BY <1>1
<1> QED
  BY <1>4, <1>5 DEF Typed

LEMMA SettingsSpared ==
  ASSUME IInv, NEW t \in Tasks, NEW d \in Held(t) \cup Free \cup {NoConn}, NEW v,
         guc' = guc \/ EndTransaction(d) \/ guc' = [guc EXCEPT ![d] = v]
  PROVE  Spared(t)
<1> SUFFICES ASSUME NEW u \in Tasks \ {t}, NEW c \in Held(u) PROVE guc'[c] = guc[c]
  BY DEF Spared
<1>1. c \in Conns /\ c # NoConn
  <2>1. Held(u) \subseteq Conns
    BY ConnsType DEF IInv, TypeOK, Held
  <2> QED
    BY <2>1, NamesAssumption
<1>2. c # d
  BY <1>1 DEF IInv, Disjoint, Free
<1>3. guc \in [Conns -> TenantOrNone]
  BY DEF IInv, TypeOK
<1> QED
  BY <1>1, <1>2, <1>3 DEF EndTransaction

LEMMA Ahead ==
  ASSUME IInv, NEW t \in Tasks, Typed(t), steps[t] # <<>>
  PROVE  \E a, m \in Stacks :
           /\ Fits(t, a) /\ Runs(work[t] \notin Unscoped, steps[t], a, <<>>)
           /\ Effect(work[t] \notin Unscoped, Head(steps[t]), a, m)
           /\ Runs(work[t] \notin Unscoped, Tail(steps[t]), m, <<>>)
BY RunsTail DEF Typed

LEMMA GoesTyped ==
  ASSUME IInv, NEW t \in Tasks, NEW m \in Stacks,
         Runs(work[t] \notin Unscoped, Tail(steps[t]), m, <<>>), Goes(t),
         work' = work, FitsIn(blocks'[t], ctx'[t], subject'[t], guc', m)
  PROVE  Typed(t)'
<1>1. steps'[t] = Tail(steps[t])
  BY DEF IInv, TypeOK, Goes
<1> QED
  BY <1>1 DEF Typed, Fits

LEMMA RaisesTyped ==
  ASSUME IInv, NEW t \in Tasks, NEW a \in Stacks, Runs(work[t] \notin Unscoped, steps[t], a, <<>>),
         Len(a) = Len(blocks[t]), Raise(t) \/ Return(t), work' = work,
         FitsIn(blocks'[t], ctx'[t], subject'[t], guc', a)
  PROVE  Typed(t)'
<1>1. Runs(work[t] \notin Unscoped, steps'[t], a, <<>>)
  BY RaiseRuns DEF IInv
<1> QED
  BY <1>1 DEF Typed, Fits

-----------------------------------------------------------------------------
(* Every step keeps every task typed.                                      *)
LEMMA SameTop ==
  ASSUME NEW a \in Stacks, a # <<>>
  PROVE  Append(Front(a), a[Len(a)]) = a
<1>1. /\ Len(a) \in Nat \ {0} /\ a[Len(a)] \in Frames
      /\ Front(a) \in Stacks /\ Len(Front(a)) = Len(a) - 1
      /\ \A i \in 1..Len(a) - 1 : Front(a)[i] = a[i]
  BY PopStack
<1> DEFINE z == Append(Front(a), a[Len(a)])
<1>2. /\ z \in Stacks /\ Len(z) = Len(Front(a)) + 1 /\ z[Len(Front(a)) + 1] = a[Len(a)]
      /\ \A i \in 1..Len(Front(a)) : z[i] = Front(a)[i]
  BY <1>1, PushStack
<1> HIDE DEF z
<1>3. Len(z) = Len(a) /\ \A i \in 1..Len(z) : z[i] = a[i]
  <2>1. Len(z) = Len(a) /\ z[Len(a)] = a[Len(a)]
    BY <1>1, <1>2
  <2>2. \A i \in 1..Len(a) : i = Len(a) \/ i \in 1..Len(a) - 1
    BY <1>1
  <2> QED
    BY <1>1, <1>2, <2>1, <2>2
<1>4. z = a
  BY <1>2, <1>3, SeqEqual DEF Stacks
<1> QED
  BY <1>4 DEF z

(* What the rest of a step does not touch. *)
Apart(t) ==
  \A u \in Tasks \ {t} : /\ work'[u] = work[u] /\ subject'[u] = subject[u]
                          /\ steps'[u] = steps[u] /\ blocks'[u] = blocks[u] /\ ctx'[u] = ctx[u]

LEMMA MovesApart ==
  ASSUME IInv, NEW t \in Tasks, Goes(t) \/ Raise(t) \/ Return(t), UNCHANGED <<work, subject>>,
         ctx' = ctx \/ \E d : ctx' = [ctx EXCEPT ![t] = d],
         blocks' = blocks \/ \E s : blocks' = [blocks EXCEPT ![t] = s]
  PROVE  Apart(t)
<1>1. \E p : steps' = [steps EXCEPT ![t] = p]
  BY DEF Goes, Raise, Return
<1> QED
  BY <1>1 DEF Apart, IInv, TypeOK

LEMMA PushTyped ==
  ASSUME IInv, WellTyped, NEW t \in Tasks,
         Authenticate(t) \/ EnterContext(t) \/ OpenAdminSession(t) \/ Try(t)
  PROVE  WellTyped'
<1>1. steps[t] # <<>> /\ Goes(t) /\ UNCHANGED <<policed, work, subject, failed, durable, guc>>
  BY DEF Authenticate, EnterContext, OpenAdminSession, Try, At
<1> PICK a \in Stacks, m \in Stacks :
      /\ Fits(t, a) /\ Effect(work[t] \notin Unscoped, Head(steps[t]), a, m)
      /\ Runs(work[t] \notin Unscoped, Tail(steps[t]), m, <<>>)
  BY <1>1, Ahead DEF WellTyped
<1>2. /\ blocks[t] \in Seq(Blocks) /\ ctx[t] \in TenantOrNone
      /\ FitsIn(blocks[t], ctx[t], subject[t], guc, a) /\ Len(blocks[t]) \in Nat
  BY LenProperties DEF IInv, TypeOK, Fits
<1>3. PICK k \in {"context", "session", "try"}, f \in Frames :
        /\ blocks' = [blocks EXCEPT ![t] = Append(@, Block(k, ctx[t], NoConn))]
        /\ ctx' = [ctx EXCEPT ![t] = IF f = "context" THEN subject[t] ELSE ctx[t]]
        /\ Kind(f) = k /\ f # "tenant" /\ m = Append(a, f)
  <2>1. CASE Authenticate(t)
    <3>1. a = <<>> /\ m = Append(a, "context")
      BY <2>1 DEF Effect, Authenticate, At
    <3>2. ctx[t] = NoTenant
      BY <1>2, <3>1, EmptySeq DEF FitsIn, Scope, HasContext
    <3> QED
      BY <2>1, <3>1, <3>2 DEF Authenticate, Push, Frames, Kind, Sessions
  <2>2. CASE EnterContext(t)
    <3>1. m = Append(a, "context")
      BY <2>2 DEF Effect, EnterContext, At
    <3> QED
      BY <2>2, <3>1 DEF EnterContext, Push, Frames, Kind, Sessions
  <2>3. CASE OpenAdminSession(t)
    <3>1. m = Append(a, "session")
      BY <2>3 DEF Effect, OpenAdminSession, At
    <3> QED
      BY <2>3, <3>1 DEF OpenAdminSession, Push, Frames, Kind, Sessions, IInv, TypeOK
  <2>4. CASE Try(t)
    <3>1. m = Append(a, "try")
      BY <2>4 DEF Effect, Try, At
    <3> QED
      BY <2>4, <3>1 DEF Try, Push, Frames, Kind, Sessions, IInv, TypeOK
  <2> QED
    BY <2>1, <2>2, <2>3, <2>4
<1> DEFINE b == Block(k, ctx[t], NoConn)
<1>4. b \in Blocks /\ b.kind = k /\ b.saved = ctx[t] /\ b.conn = NoConn
  BY <1>2 DEF Block, Blocks, TenantOrNone
<1>5. blocks' = [blocks EXCEPT ![t] = Append(@, b)]
  BY <1>3
<1> HIDE DEF b
<1>6. FitsIn(Append(blocks[t], b), IF f = "context" THEN subject[t] ELSE ctx[t], subject[t], guc, m)
  BY <1>2, <1>3, <1>4, FitPush
<1>7. FitsIn(blocks'[t], ctx'[t], subject'[t], guc', m)
  BY <1>1, <1>3, <1>5, <1>6 DEF IInv, TypeOK
<1>8. Typed(t)'
  BY <1>1, <1>7, GoesTyped
<1>9. Spared(t) /\ Apart(t)
  BY <1>1, <1>3, <1>5, MovesApart DEF Spared
<1> QED
  BY <1>8, <1>9, OthersTyped DEF Apart

LEMMA OpenTyped ==
  ASSUME IInv, WellTyped, NEW t \in Tasks, OpenTenantSession(t)
  PROVE  WellTyped'
<1>1. steps[t] # <<>> /\ UNCHANGED <<policed, work, subject, ctx, durable>>
  BY DEF OpenTenantSession, At
<1> PICK a \in Stacks, m \in Stacks :
      /\ Fits(t, a) /\ Effect(work[t] \notin Unscoped, Head(steps[t]), a, m)
      /\ Runs(work[t] \notin Unscoped, steps[t], a, <<>>)
      /\ Runs(work[t] \notin Unscoped, Tail(steps[t]), m, <<>>)
  BY <1>1, Ahead DEF WellTyped
<1>2. /\ blocks[t] \in Seq(Blocks) /\ ctx[t] \in TenantOrNone /\ Len(a) = Len(blocks[t])
      /\ FitsIn(blocks[t], ctx[t], subject[t], guc, a)
  BY DEF IInv, TypeOK, Fits, FitsIn
<1>3. CASE Raise(t) /\ UNCHANGED <<blocks, guc>>
  <2>1. FitsIn(blocks'[t], ctx'[t], subject'[t], guc', a)
    BY <1>1, <1>2, <1>3
  <2>2. Typed(t)'
    BY <1>1, <1>2, <1>3, <2>1, RaisesTyped
  <2>3. Spared(t) /\ Apart(t)
    BY <1>1, <1>3, MovesApart DEF Spared
  <2> QED
    BY <2>2, <2>3, OthersTyped DEF Apart
<1>4. CASE ctx[t] # NoTenant
  <2> PICK c \in Free : /\ blocks' = [blocks EXCEPT ![t] = Append(@, Block("session", ctx[t], c))]
                        /\ guc' = [guc EXCEPT ![c] = ctx[t]]
                        /\ Goes(t) /\ UNCHANGED failed
    BY <1>4 DEF OpenTenantSession, Push
  <2> DEFINE b == Block("session", ctx[t], c)
  <2>1. c \in Conns /\ c # NoConn /\ c \notin Held(t)
    BY NamesAssumption DEF Free
  <2>2. b \in Blocks /\ b.kind = "session" /\ b.saved = ctx[t] /\ b.conn = c
    BY <1>2, <2>1 DEF Block, Blocks, TenantOrNone
  <2>3. blocks' = [blocks EXCEPT ![t] = Append(@, b)]
    OBVIOUS
  <2> HIDE DEF b
  <2>4. m = Append(a, "tenant") /\ ctx[t] = subject[t]
    BY <1>2, <1>4 DEF Effect, OpenTenantSession, At, FitsIn, Scope
  <2>5. \A i \in 1..Len(blocks[t]) : blocks[t][i].conn # c
    BY <2>1, HeldConn DEF IInv
  <2>6. guc'[c] = subject[t] /\ \A d \in Conns : d # c => guc'[d] = guc[d]
    BY <2>1, <2>4 DEF IInv, TypeOK
  <2>7. FitsIn(blocks[t], ctx[t], subject[t], guc', a)
    <3>1. \A i \in 1..Len(blocks[t]) : blocks[t][i].conn # NoConn
            => guc'[blocks[t][i].conn] = guc[blocks[t][i].conn]
      BY <2>5, <2>6, HeldConn DEF IInv
    <3> QED
      BY <1>2, <3>1, FitSettings
  <2>8. Kind("tenant") = "session" /\ "tenant" \in Frames /\ "tenant" # "context"
    BY DEF Kind, Sessions, Frames
  <2>9. FitsIn(Append(blocks[t], b), ctx[t], subject[t], guc', m)
    <3> DEFINE f == "tenant"
    <3>1. f \in Frames /\ Kind(f) = b.kind /\ f # "context" /\ m = Append(a, f)
      BY <2>2, <2>4, <2>8
    <3> HIDE DEF f
    <3>2. FitsIn(Append(blocks[t], b), IF f = "context" THEN subject[t] ELSE ctx[t], subject[t],
                 guc', Append(a, f))
      BY <1>2, <2>1, <2>2, <2>5, <2>6, <2>7, <3>1, FitPush
    <3> QED
      BY <3>1, <3>2
  <2>10. FitsIn(blocks'[t], ctx'[t], subject'[t], guc', m)
    BY <1>1, <2>3, <2>9 DEF IInv, TypeOK
  <2>11. Typed(t)'
    BY <1>1, <2>10, GoesTyped
  <2>12. Spared(t)
    BY SettingsSpared
  <2>13. Apart(t)
    BY <1>1, <2>3, MovesApart
  <2> QED
    BY <2>11, <2>12, <2>13, OthersTyped DEF Apart
<1> QED
  BY <1>3, <1>4 DEF OpenTenantSession

(* The innermost session goes to connection c, or is without one, and has  *)
(* frame f from here.                                                      *)
LEMMA TopFits ==
  ASSUME IInv, NEW t \in Tasks, InSession(t), NEW a \in Stacks, Fits(t, a), IsSession(a),
         NEW x \in Conns \cup {NoConn}, SetConn(t, x), NEW f \in Sessions,
         f = "tenant" => x # NoConn /\ guc'[x] = subject[t],
         NEW d \in Usable(t) \cup {Top(t).conn}, x \in {d, NoConn},
         \A c \in Conns : c # d => guc'[c] = guc[c],
         UNCHANGED <<work, subject, ctx>>
  PROVE  FitsIn(blocks'[t], ctx'[t], subject'[t], guc', Append(Front(a), f))
<1> DEFINE s == blocks[t]
<1>1. s \in Seq(Blocks) /\ s # <<>> /\ FitsIn(s, ctx[t], subject[t], guc, a)
  BY DEF IInv, TypeOK, Fits, InSession
<1>2. s[Len(s)].kind = "session" /\ Top(t) = s[Len(s)]
  BY DEF InSession, Top
<1>3. Len(s) \in Nat \ {0} /\ \A i \in 1..Len(s) - 1 : i \in 1..Len(s) /\ i # Len(s)
  BY <1>1, EmptySeq
<1>4. ASSUME NEW i \in 1..Len(s) - 1, s[i].conn # NoConn
      PROVE  s[i].conn \in Conns /\ s[i].conn # d
  <2>1. s[i].conn \in Held(t) /\ s[i].conn \in Conns
    BY <1>3, <1>4, HeldConn DEF IInv
  <2>2. s[i].conn # Top(t).conn
    <3>1. Len(s) \in 1..Len(s) /\ i \in 1..Len(s) /\ i # Len(s)
      BY <1>3
    <3> QED
      BY <1>1, <1>2, <1>4, <3>1 DEF FitsIn
  <2> QED
    BY <2>1, <2>2 DEF Usable, Free
<1>5. \A i \in 1..Len(s) - 1 : s[i].conn # NoConn
        => guc'[s[i].conn] = guc[s[i].conn] /\ s[i].conn # x
  BY <1>4
<1>6. blocks'[t] = WithConn(s, x)
  BY DEF SetConn, WithConn, IInv, TypeOK
<1> HIDE DEF s
<1>7. FitsIn(WithConn(s, x), ctx[t], subject[t], guc', Append(Front(a), f))
  BY <1>1, <1>2, <1>5, FitTop
<1> QED
  BY <1>6, <1>7

(* A statement on connection c that leaves the session what it is.         *)
LEMMA StatementFits ==
  ASSUME IInv, NEW t \in Tasks, InSession(t), NEW a \in Stacks, Fits(t, a), IsSession(a),
         NEW c \in Usable(t), SetConn(t, c), UNCHANGED <<work, subject, ctx>>,
         guc' \in {guc, [guc EXCEPT ![c] = subject[t]]}
  PROVE  FitsIn(blocks'[t], ctx'[t], subject'[t], guc', a)
<1>1. /\ c \in Conns /\ c # NoConn /\ Top(t).conn \in {NoConn, c}
  BY UsableConn
<1>2. a # <<>> /\ a[Len(a)] \in Sessions
  BY DEF IsSession
<1>3. guc \in [Conns -> TenantOrNone]
  BY DEF IInv, TypeOK
<1>4. a[Len(a)] = "tenant" => guc'[c] = subject[t]
  <2> SUFFICES ASSUME a[Len(a)] = "tenant" PROVE guc'[c] = subject[t]
    OBVIOUS
  <2>1. blocks[t] \in Seq(Blocks) /\ blocks[t] # <<>>
    BY DEF InSession, IInv, TypeOK
  <2>2. Len(blocks[t]) \in 1..Len(blocks[t]) /\ Len(a) = Len(blocks[t])
    BY <2>1, EmptySeq DEF Fits, FitsIn
  <2>3. Top(t).conn # NoConn /\ guc[Top(t).conn] = subject[t]
    BY <2>2 DEF Fits, FitsIn, Top
  <2> QED
    BY <1>1, <1>3, <2>3
<1> DEFINE f == a[Len(a)]
<1>5. Append(Front(a), f) = a
  BY <1>2, SameTop
<1>6. \A d \in Conns : d # c => guc'[d] = guc[d]
  BY <1>1, <1>3
<1>7. f \in Sessions /\ (f = "tenant" => c # NoConn /\ guc'[c] = subject[t])
  BY <1>1, <1>2, <1>4
<1> HIDE DEF f
<1>8. FitsIn(blocks'[t], ctx'[t], subject'[t], guc', Append(Front(a), f))
  <2>1. c \in Conns \cup {NoConn} /\ c \in Usable(t) \cup {Top(t).conn} /\ c \in {c, NoConn}
    BY <1>1
  <2> QED
    BY <1>6, <1>7, <2>1, TopFits
<1> QED
  BY <1>5, <1>8

LEMMA UsableSpares ==
  ASSUME IInv, NEW t \in Tasks, InSession(t), NEW c \in Usable(t) \cup {Top(t).conn}, NEW v,
         guc' = guc \/ EndTransaction(c) \/ guc' = [guc EXCEPT ![c] = v]
  PROVE  Spared(t)
<1>1. c \in Held(t) \cup Free \cup {NoConn}
  BY UsableConn
<1> QED
  BY <1>1, SettingsSpared

LEMMA QueryTyped ==
  ASSUME IInv, WellTyped, NEW t \in Tasks, Look(t) \/ Load(t) \/ SetConfig(t)
  PROVE  WellTyped'
<1>1. InSession(t) /\ steps[t] # <<>> /\ UNCHANGED <<policed, work, subject, ctx, durable>>
  BY DEF Look, Load, SetConfig, At
<1> PICK a \in Stacks, m \in Stacks :
      /\ Fits(t, a) /\ Effect(work[t] \notin Unscoped, Head(steps[t]), a, m)
      /\ Runs(work[t] \notin Unscoped, steps[t], a, <<>>)
      /\ Runs(work[t] \notin Unscoped, Tail(steps[t]), m, <<>>)
  BY <1>1, Ahead DEF WellTyped
<1> PICK c \in Usable(t) : /\ SetConn(t, c) /\ guc' \in {guc, [guc EXCEPT ![c] = subject[t]]}
                           /\ Goes(t) \/ Raise(t)
  BY DEF Look, Load, SetConfig
<1>2. IsSession(a) /\ m = a
  BY DEF Look, Load, SetConfig, At, Effect
<1>3. Len(a) = Len(blocks[t])
  BY DEF Fits, FitsIn
<1>4. FitsIn(blocks'[t], ctx'[t], subject'[t], guc', a)
  BY <1>1, <1>2, StatementFits
<1>5. Typed(t)'
  <2>1. CASE Goes(t)
    BY <1>1, <1>2, <1>4, <2>1, GoesTyped
  <2>2. CASE Raise(t)
    BY <1>1, <1>3, <1>4, <2>2, RaisesTyped
  <2> QED
    BY <2>1, <2>2
<1>6. Spared(t)
  BY <1>1, UsableSpares
<1>7. Apart(t)
  BY <1>1, MovesApart DEF SetConn
<1> QED
  BY <1>5, <1>6, <1>7, OthersTyped DEF Apart

LEMMA EndsTyped ==
  ASSUME IInv, WellTyped, NEW t \in Tasks, InSession(t), NEW a \in Stacks, Fits(t, a), IsSession(a),
         NEW d \in Usable(t) \cup {Top(t).conn}, EndTransaction(d), SetConn(t, NoConn), Goes(t),
         Runs(work[t] \notin Unscoped, Tail(steps[t]), Append(Front(a), "session"), <<>>),
         UNCHANGED <<work, subject, ctx>>
  PROVE  WellTyped'
<1>1. \A c \in Conns : c # d => guc'[c] = guc[c]
  BY DEF EndTransaction
<1>2. NoConn \in Conns \cup {NoConn} /\ NoConn \in {d, NoConn} /\ "session" \in Sessions
  BY DEF Sessions
<1> DEFINE f == "session"
<1>3. FitsIn(blocks'[t], ctx'[t], subject'[t], guc', Append(Front(a), f))
  <2>1. f \in Sessions /\ f # "tenant"
    BY <1>2
  <2> HIDE DEF f
  <2> QED
    BY <1>1, <1>2, <2>1, TopFits
<1>4. Append(Front(a), "session") \in Stacks
  BY DEF Runs
<1>5. Typed(t)'
  BY <1>3, <1>4, GoesTyped
<1>6. Spared(t)
  BY UsableSpares
<1>7. Apart(t)
  BY MovesApart DEF SetConn
<1> QED
  BY <1>5, <1>6, <1>7, OthersTyped DEF Apart

LEMMA CommitTyped ==
  ASSUME IInv, WellTyped, NEW t \in Tasks, Commit(t)
  PROVE  WellTyped'
<1>1. InSession(t) /\ steps[t] # <<>> /\ UNCHANGED <<policed, work, subject, ctx>>
  BY DEF Commit, At
<1> PICK a \in Stacks, m \in Stacks :
      /\ Fits(t, a) /\ Effect(work[t] \notin Unscoped, Head(steps[t]), a, m)
      /\ Runs(work[t] \notin Unscoped, steps[t], a, <<>>)
      /\ Runs(work[t] \notin Unscoped, Tail(steps[t]), m, <<>>)
  BY <1>1, Ahead DEF WellTyped
<1>2. IsSession(a) /\ m = Append(Front(a), "session")
  BY DEF Commit, At, Effect
<1> PICK c \in Usable(t) :
      \/ SetConn(t, NoConn) /\ EndTransaction(c) /\ Goes(t) /\ UNCHANGED failed
      \/ SetConn(t, c) /\ Raise(t) /\ UNCHANGED <<durable, guc>>
  BY DEF Commit
<1>3. CASE SetConn(t, NoConn) /\ EndTransaction(c) /\ Goes(t)
  BY <1>1, <1>2, <1>3, EndsTyped
<1>4. CASE SetConn(t, c) /\ Raise(t) /\ UNCHANGED guc
  <2>1. FitsIn(blocks'[t], ctx'[t], subject'[t], guc', a)
    BY <1>1, <1>2, <1>4, StatementFits
  <2>2. Len(a) = Len(blocks[t])
    BY DEF Fits, FitsIn
  <2>3. Typed(t)'
    BY <1>1, <1>4, <2>1, <2>2, RaisesTyped
  <2>4. Spared(t) /\ Apart(t)
    BY <1>1, <1>4, MovesApart DEF SetConn, Spared
  <2> QED
    BY <2>3, <2>4, OthersTyped DEF Apart
<1> QED
  BY <1>3, <1>4

LEMMA RollbackTyped ==
  ASSUME IInv, WellTyped, NEW t \in Tasks, Rollback(t)
  PROVE  WellTyped'
<1>1. /\ InSession(t) /\ steps[t] # <<>> /\ Goes(t) /\ SetConn(t, NoConn)
      /\ EndTransaction(Top(t).conn) /\ UNCHANGED <<policed, work, subject, ctx, failed, durable>>
  BY DEF Rollback, At
<1> PICK a \in Stacks, m \in Stacks :
      /\ Fits(t, a) /\ Effect(work[t] \notin Unscoped, Head(steps[t]), a, m)
      /\ Runs(work[t] \notin Unscoped, Tail(steps[t]), m, <<>>)
  BY <1>1, Ahead DEF WellTyped
<1>2. IsSession(a) /\ m = Append(Front(a), "session")
  BY DEF Rollback, At, Effect
<1> QED
  BY <1>1, <1>2, EndsTyped

LEMMA LeaveTyped ==
  ASSUME IInv, WellTyped, NEW t \in Tasks, Leave(t)
  PROVE  WellTyped'
<1> DEFINE s == blocks[t]
           c == Top(t).conn
<1>1. /\ s # <<>> /\ steps[t] # <<>> /\ Goes(t) /\ EndTransaction(c)
      /\ UNCHANGED <<policed, work, subject, failed, durable>>
      /\ blocks' = [blocks EXCEPT ![t] = Pop(s)] /\ ctx' = [ctx EXCEPT ![t] = Top(t).saved]
  BY DEF Leave, At, Pop
<1> PICK a \in Stacks, m \in Stacks :
      /\ Fits(t, a) /\ Effect(work[t] \notin Unscoped, Head(steps[t]), a, m)
      /\ Runs(work[t] \notin Unscoped, Tail(steps[t]), m, <<>>)
  BY <1>1, Ahead DEF WellTyped
<1>2. m = Front(a)
  BY DEF Leave, At, Effect
<1>3. s \in Seq(Blocks) /\ FitsIn(s, ctx[t], subject[t], guc, a) /\ Top(t) = s[Len(s)]
  BY DEF IInv, TypeOK, Fits, Top
<1>4. FitsIn(Pop(s), Top(t).saved, subject[t], guc, m)
  BY <1>1, <1>2, <1>3, FitPop
<1>5. Len(s) \in Nat \ {0} /\ Len(Pop(s)) = Len(s) - 1 /\ \A i \in 1..Len(s) - 1 : Pop(s)[i] = s[i]
  BY <1>1, <1>3, EmptySeq, PopConns
<1>6. ASSUME NEW i \in 1..Len(Pop(s)), Pop(s)[i].conn # NoConn
      PROVE  guc'[Pop(s)[i].conn] = guc[Pop(s)[i].conn]
  <2>1. i \in 1..Len(s) /\ Len(s) \in 1..Len(s) /\ i # Len(s) /\ Pop(s)[i] = s[i]
    BY <1>5
  <2>2. s[i].conn # c
    BY <1>3, <1>6, <2>1 DEF FitsIn
  <2>3. s[i].conn \in Conns
    BY <1>6, <2>1, HeldConn DEF IInv
  <2> QED
    BY <1>1, <2>1, <2>2, <2>3 DEF EndTransaction
<1>7. FitsIn(Pop(s), Top(t).saved, subject[t], guc', m)
  BY <1>4, <1>6, FitSettings
<1>8. FitsIn(blocks'[t], ctx'[t], subject'[t], guc', m)
  BY <1>1, <1>7 DEF IInv, TypeOK
<1>9. Typed(t)'
  BY <1>1, <1>8, GoesTyped
<1>10. c \in Held(t) \cup Free \cup {NoConn}
  <2>1. Len(s) \in 1..Len(s)
    BY <1>5
  <2> QED
    BY <1>3, <2>1, HeldConn DEF IInv
<1>11. Spared(t)
  BY <1>1, <1>10, SettingsSpared
<1>12. Apart(t)
  BY <1>1, MovesApart
<1> QED
  BY <1>9, <1>11, <1>12, OthersTyped DEF Apart

LEMMA TurnTyped ==
  ASSUME IInv, WellTyped, NEW t \in Tasks, Turn(t)
  PROVE  WellTyped'
<1>1. /\ steps[t] # <<>> /\ blocks[t] = <<>> /\ Goes(t)
      /\ UNCHANGED <<policed, work, blocks, ctx, failed, guc>>
      /\ \E n : subject' = [subject EXCEPT ![t] = n]
  BY DEF Turn, At
<1> PICK a \in Stacks, m \in Stacks :
      /\ Fits(t, a) /\ Effect(work[t] \notin Unscoped, Head(steps[t]), a, m)
      /\ Runs(work[t] \notin Unscoped, Tail(steps[t]), m, <<>>)
  BY <1>1, Ahead DEF WellTyped
<1>2. a = <<>> /\ m = a
  BY DEF Turn, At, Effect
<1>3. Len(<<>>) = 0
  BY EmptySeq
<1>4. ctx[t] = NoTenant
  BY <1>1, <1>2, <1>3 DEF Fits, FitsIn, Scope, HasContext
<1>5. \A n : FitsIn(<<>>, NoTenant, n, guc, <<>>)
  BY <1>3 DEF FitsIn, Scope, HasContext
<1>6. FitsIn(blocks'[t], ctx'[t], subject'[t], guc', m)
  BY <1>1, <1>2, <1>4, <1>5
<1>7. Typed(t)'
  BY <1>1, <1>6, GoesTyped
<1>8. Apart(t)
  BY <1>1 DEF Apart, Goes, IInv, TypeOK
<1> QED
  BY <1>1, <1>7, <1>8, OthersTyped DEF Apart, Spared

LEMMA OtherTyped ==
  ASSUME IInv, WellTyped, NEW t \in Tasks, Call(t) \/ LeaveEarly(t) \/ PoolTimeout(t) \/ Fails(t)
  PROVE  WellTyped'
<1>1. /\ steps[t] # <<>> /\ UNCHANGED <<policed, work, subject, blocks, ctx, durable, guc>>
      /\ \/ Goes(t) /\ (Call(t) \/ LeaveEarly(t))
         \/ Raise(t) \/ Return(t)
  BY DEF Call, LeaveEarly, PoolTimeout, Waits, Fails, At
<1> PICK a \in Stacks, m \in Stacks :
      /\ Fits(t, a) /\ Effect(work[t] \notin Unscoped, Head(steps[t]), a, m)
      /\ Runs(work[t] \notin Unscoped, steps[t], a, <<>>)
      /\ Runs(work[t] \notin Unscoped, Tail(steps[t]), m, <<>>)
  BY <1>1, Ahead DEF WellTyped
<1>2. FitsIn(blocks'[t], ctx'[t], subject'[t], guc', a) /\ Len(a) = Len(blocks[t])
  BY <1>1 DEF Fits, FitsIn
<1>3. Typed(t)'
  <2>1. CASE Goes(t) /\ (Call(t) \/ LeaveEarly(t))
    <3>1. m = a
      BY <2>1 DEF Call, LeaveEarly, At, Effect
    <3> QED
      BY <1>1, <1>2, <2>1, <3>1, GoesTyped
  <2>2. CASE Raise(t) \/ Return(t)
    BY <1>1, <1>2, <2>2, RaisesTyped
  <2> QED
    BY <1>1, <2>1, <2>2
<1>4. Spared(t) /\ Apart(t)
  BY <1>1, MovesApart DEF Spared
<1> QED
  BY <1>3, <1>4, OthersTyped DEF Apart

LEMMA TypedInductive == IInv /\ WellTyped /\ [Next]_vars => WellTyped'
<1> SUFFICES ASSUME IInv, WellTyped, [Next]_vars PROVE WellTyped'
  OBVIOUS
<1>1. ASSUME NEW t \in Tasks, Step(t) \/ Fails(t) PROVE WellTyped'
  BY <1>1, PushTyped, OpenTyped, QueryTyped, CommitTyped, RollbackTyped, LeaveTyped, TurnTyped,
     OtherTyped DEF Step
<1>2. CASE UNCHANGED vars
  BY <1>2 DEF vars, WellTyped, Typed, Fits
<1> QED
  BY <1>1, <1>2 DEF Next

(* What well-typed tasks promise. *)
LEMMA NeverBlindTyped == IInv /\ WellTyped => NeverBlind
<1> SUFFICES ASSUME IInv, WellTyped, NEW t \in Tasks, work[t] \notin Unscoped,
                    \/ At(t, "look") \/ At(t, "load")
                    \/ At(t, "commit") /\ ~Head(steps[t]).rows \subseteq {"tenant"}
             PROVE  Top(t).conn # NoConn /\ guc[Top(t).conn] = subject[t]
  BY DEF NeverBlind
<1>1. PICK a \in Stacks, m \in Stacks : Fits(t, a)
      /\ Effect(work[t] \notin Unscoped, Head(steps[t]), a, m)
  BY Ahead DEF WellTyped, At
<1>2. a # <<>> /\ a[Len(a)] = "tenant"
  BY <1>1 DEF At, Effect, InTenant
<1>3. Len(a) = Len(blocks[t]) /\ Len(a) \in 1..Len(a)
  <2>1. Len(a) \in Nat \ {0}
    BY <1>2, EmptySeq DEF Stacks
  <2> QED
    BY <1>1, <2>1 DEF Fits, FitsIn
<1> QED
  BY <1>1, <1>2, <1>3 DEF Fits, FitsIn, Top

LEMMA InContextTyped == IInv /\ WellTyped => OpenedInContext
<1> SUFFICES ASSUME IInv, WellTyped, NEW t \in Tasks, At(t, "tenant") PROVE ctx[t] = subject[t]
  BY DEF OpenedInContext
<1>1. PICK a \in Stacks, m \in Stacks : Fits(t, a)
      /\ Effect(work[t] \notin Unscoped, Head(steps[t]), a, m)
  BY Ahead DEF WellTyped, At
<1>2. HasContext(a, Len(a))
  BY <1>1 DEF At, Effect
<1> QED
  BY <1>1, <1>2 DEF Fits, FitsIn, Scope

LEMMA NothingLeftTyped == IInv /\ WellTyped => NothingLeft
<1> SUFFICES ASSUME IInv, WellTyped, NEW t \in Tasks, steps[t] = <<>>
             PROVE  blocks[t] = <<>> /\ ctx[t] = NoTenant /\ Held(t) = {}
  BY DEF NothingLeft
<1>1. PICK a \in Stacks : Fits(t, a) /\ Runs(work[t] \notin Unscoped, <<>>, a, <<>>)
  BY DEF WellTyped, Typed
<1>2. a = <<>>
  BY <1>1, RunsNothing
<1>3. Len(blocks[t]) = 0 /\ blocks[t] \in Seq(Blocks)
  BY <1>1, <1>2, EmptySeq DEF Fits, FitsIn, IInv, TypeOK
<1>4. blocks[t] = <<>>
  BY <1>3, EmptySeq
<1>5. ctx[t] = NoTenant
  BY <1>1, <1>2, <1>3 DEF Fits, FitsIn, Scope, HasContext
<1>6. Held(t) = {}
  BY <1>4 DEF Held, ConnsOf
<1> QED
  BY <1>4, <1>5, <1>6

-----------------------------------------------------------------------------
(* The programs.  What may stand anywhere, inside of a context, in a       *)
(* session whose frame goes from f to g.                                   *)
Anywhere(strict, p) == \A s \in Stacks : Runs(strict, p, s, s)
InContext(strict, p) == \A s \in Stacks : HasContext(s, Len(s)) => Runs(strict, p, s, s)
Body(strict, p, f, g) == \A s \in Stacks : Runs(strict, p, Append(s, f), Append(s, g))

LEMMA OpRuns ==
  ASSUME NEW strict, NEW s \in Stacks, NEW e \in Stacks, NEW rows \in SUBSET Rows,
         NEW op \in {"authenticate", "context", "tenant", "admin", "try", "end", "root", "load",
                     "look", "set_config", "commit", "rollback", "refresh", "call", "may_return",
                     "return", "turn"},
         Effect(strict, [do |-> op, rows |-> rows], s, e)
  PROVE  Runs(strict, <<[do |-> op, rows |-> rows]>>, s, e)
<1> DEFINE o == [do |-> op, rows |-> rows]
<1>1. o \in Ops
  BY DEF Ops
<1> HIDE DEF o
<1>2. Effect(strict, o, s, e)
  BY DEF o
<1>3. Runs(strict, <<o>>, s, e)
  BY <1>1, <1>2, StepRuns
<1> QED
  BY <1>3 DEF o

LEMMA EntersLeaves ==
  ASSUME NEW strict, NEW s \in Stacks, NEW f \in Frames
  PROVE  /\ Append(s, f) \in Stacks
         /\ Runs(strict, Do("end"), Append(s, f), s)
<1> DEFINE a == Append(s, f)
<1>1. a \in Stacks /\ a # <<>> /\ Front(a) = s
  BY PushStack
<1> HIDE DEF a
<1>2. Effect(strict, [do |-> "end", rows |-> {}], a, s)
  BY <1>1 DEF Effect
<1>3. Runs(strict, Do("end"), a, s)
  BY <1>1, <1>2, OpRuns DEF Do
<1> QED
  BY <1>1, <1>3 DEF a

(* The combinators of TenantPrograms. *)
LEMMA WithTenantRuns ==
  ASSUME NEW strict, NEW p, InContext(strict, p)
  PROVE  Anywhere(strict, WithTenant(p))
<1> SUFFICES ASSUME NEW s \in Stacks PROVE Runs(strict, WithTenant(p), s, s)
  BY DEF Anywhere
<1> DEFINE a == Append(s, "context")
<1>1. a \in Stacks /\ Len(a) = Len(s) + 1 /\ Len(s) \in Nat /\ a[Len(s) + 1] = "context"
  BY PushStack DEF Frames
<1>2. Runs(strict, Do("end"), a, s)
  BY EntersLeaves DEF Frames
<1>3. Effect(strict, [do |-> "context", rows |-> {}], s, a)
  BY DEF Effect
<1> HIDE DEF a
<1>4. HasContext(a, Len(a))
  BY <1>1 DEF HasContext
<1>5. Runs(strict, Do("context"), s, a)
  BY <1>1, <1>3, OpRuns DEF Do
<1>6. Runs(strict, p, a, a)
  BY <1>1, <1>4 DEF InContext
<1>7. Runs(strict, Do("context") \o p, s, a)
  BY <1>5, <1>6, SeqRuns
<1>8. Runs(strict, (Do("context") \o p) \o Do("end"), s, s)
  BY <1>2, <1>7, SeqRuns
<1> QED
  BY <1>8 DEF WithTenant

LEMMA TenantSessionRuns ==
  ASSUME NEW strict, NEW p, NEW g \in Sessions, Body(strict, p, "tenant", g)
  PROVE  InContext(strict, TenantSession(p))
<1> SUFFICES ASSUME NEW s \in Stacks, HasContext(s, Len(s))
             PROVE  Runs(strict, TenantSession(p), s, s)
  BY DEF InContext
<1> DEFINE a == Append(s, "tenant")
           b == Append(s, g)
<1>1. a \in Stacks
  BY PushStack DEF Frames
<1>2. Runs(strict, Do("end"), b, s)
  BY EntersLeaves DEF Frames, Sessions
<1>3. Effect(strict, [do |-> "tenant", rows |-> {}], s, a)
  BY DEF Effect
<1>4. Runs(strict, p, a, b)
  BY DEF Body
<1> HIDE DEF a, b
<1>5. Runs(strict, Do("tenant"), s, a)
  BY <1>1, <1>3, OpRuns DEF Do
<1>6. Runs(strict, Do("tenant") \o p, s, b)
  BY <1>4, <1>5, SeqRuns
<1>7. Runs(strict, (Do("tenant") \o p) \o Do("end"), s, s)
  BY <1>2, <1>6, SeqRuns
<1> QED
  BY <1>7 DEF TenantSession

LEMMA AdminSessionRuns ==
  ASSUME NEW strict, NEW p, NEW g \in Sessions, Body(strict, p, "session", g)
  PROVE  Anywhere(strict, AdminSession(p))
<1> SUFFICES ASSUME NEW s \in Stacks PROVE Runs(strict, AdminSession(p), s, s)
  BY DEF Anywhere
<1> DEFINE a == Append(s, "session")
           b == Append(s, g)
<1>1. a \in Stacks
  BY PushStack DEF Frames
<1>2. Runs(strict, Do("end"), b, s)
  BY EntersLeaves DEF Frames, Sessions
<1>3. Effect(strict, [do |-> "admin", rows |-> {}], s, a)
  BY DEF Effect
<1>4. Runs(strict, p, a, b)
  BY DEF Body
<1> HIDE DEF a, b
<1>5. Runs(strict, Do("admin"), s, a)
  BY <1>1, <1>3, OpRuns DEF Do
<1>6. Runs(strict, Do("admin") \o p, s, b)
  BY <1>4, <1>5, SeqRuns
<1>7. Runs(strict, (Do("admin") \o p) \o Do("end"), s, s)
  BY <1>2, <1>6, SeqRuns
<1> QED
  BY <1>7 DEF AdminSession

LEMMA GuardedRuns ==
  ASSUME NEW strict, NEW p, Anywhere(strict, p)
  PROVE  Anywhere(strict, Guarded(p))
<1> SUFFICES ASSUME NEW s \in Stacks PROVE Runs(strict, Guarded(p), s, s)
  BY DEF Anywhere
<1> DEFINE a == Append(s, "try")
<1>1. a \in Stacks
  BY PushStack DEF Frames
<1>2. Runs(strict, Do("end"), a, s)
  BY EntersLeaves DEF Frames
<1>3. Effect(strict, [do |-> "try", rows |-> {}], s, a)
  BY DEF Effect
<1> HIDE DEF a
<1>4. Runs(strict, Do("try"), s, a)
  BY <1>1, <1>3, OpRuns DEF Do
<1>5. Runs(strict, p, a, a)
  BY <1>1 DEF Anywhere
<1>6. Runs(strict, Do("try") \o p, s, a)
  BY <1>4, <1>5, SeqRuns
<1>7. Runs(strict, (Do("try") \o p) \o Do("end"), s, s)
  BY <1>2, <1>6, SeqRuns
<1> QED
  BY <1>7 DEF Guarded

LEMMA Sequences ==
  ASSUME NEW strict, NEW p, NEW q
  PROVE  /\ Anywhere(strict, p) /\ Anywhere(strict, q) => Anywhere(strict, p \o q)
         /\ InContext(strict, p) /\ InContext(strict, q) => InContext(strict, p \o q)
         /\ Anywhere(strict, p) => InContext(strict, p)
<1>1. \A s : Runs(strict, p, s, s) /\ Runs(strict, q, s, s) => Runs(strict, p \o q, s, s)
  BY SeqRuns
<1> QED
  BY <1>1 DEF Anywhere, InContext

LEMMA BodySequence ==
  ASSUME NEW strict, NEW p, NEW q, NEW f, NEW g, NEW h, Body(strict, p, f, g), Body(strict, q, g, h)
  PROVE  Body(strict, p \o q, f, h)
<1>1. ASSUME NEW s \in Stacks PROVE Runs(strict, p \o q, Append(s, f), Append(s, h))
  <2>1. Runs(strict, p, Append(s, f), Append(s, g)) /\ Runs(strict, q, Append(s, g), Append(s, h))
    BY DEF Body
  <2> QED
    BY <2>1, SeqRuns
<1> QED
  BY <1>1 DEF Body

LEMMA BodyAnywhere ==
  ASSUME NEW strict, NEW p, Anywhere(strict, p), NEW f \in Frames
  PROVE  Body(strict, p, f, f)
<1>1. \A s \in Stacks : Append(s, f) \in Stacks
  BY PushStack
<1> QED
  BY <1>1 DEF Anywhere, Body

(* get_current_user's context is the outermost block of a request. *)
LEMMA AuthenticatedRuns ==
  ASSUME NEW p, InContext(TRUE, p), InContext(TRUE, TenantSession(Do("load"))),
         Anywhere(TRUE, AdminSession(Do("root")))
  PROVE  Runs(TRUE, Authenticated(p), <<>>, <<>>)
<1> DEFINE s == <<>>
           a == Append(s, "context")
           l == TenantSession(Do("load"))
           r == AdminSession(Do("root"))
<1>1. s \in Stacks /\ "context" \in Frames
  BY EmptySeq DEF Stacks, Frames
<1>2. Effect(TRUE, [do |-> "authenticate", rows |-> {}], s, a)
  BY DEF Effect
<1> HIDE DEF s
<1>3. a \in Stacks /\ Len(a) = Len(s) + 1 /\ Len(s) \in Nat /\ a[Len(s) + 1] = "context"
  BY <1>1, PushStack
<1>4. Runs(TRUE, Do("end"), a, s)
  BY <1>1, EntersLeaves
<1> HIDE DEF a, l, r
<1>5. HasContext(a, Len(a))
  BY <1>3 DEF HasContext
<1>6. Runs(TRUE, Do("authenticate"), s, a)
  BY <1>1, <1>2, <1>3, OpRuns DEF Do
<1>7. Runs(TRUE, l, a, a) /\ Runs(TRUE, r, a, a) /\ Runs(TRUE, p, a, a)
  BY <1>3, <1>5 DEF InContext, Anywhere, l, r
<1>8. Runs(TRUE, Do("authenticate") \o l, s, a)
  BY <1>6, <1>7, SeqRuns
<1>9. Runs(TRUE, (Do("authenticate") \o l) \o r, s, a)
  BY <1>7, <1>8, SeqRuns
<1>10. Runs(TRUE, ((Do("authenticate") \o l) \o r) \o p, s, a)
  BY <1>7, <1>9, SeqRuns
<1>11. Runs(TRUE, (((Do("authenticate") \o l) \o r) \o p) \o Do("end"), s, s)
  BY <1>4, <1>10, SeqRuns
<1> QED
  BY <1>11 DEF Authenticated, s, l, r

(* The statements. *)
LEMMA Statements ==
  ASSUME NEW strict
  PROVE  /\ \A op \in {"call", "may_return", "return"} : Anywhere(strict, Do(op))
         /\ \A op \in {"root", "refresh", "set_config"}, f \in Sessions : Body(strict, Do(op), f, f)
         /\ \A op \in {"look", "load"} : Body(strict, Do(op), "tenant", "tenant")
         /\ \A op \in {"look", "load"}, f \in Sessions : Body(FALSE, Do(op), f, f)
<1>1. ASSUME NEW op \in {"call", "may_return", "return"}, NEW s \in Stacks
      PROVE  Runs(strict, Do(op), s, s)
  <2>1. Effect(strict, [do |-> op, rows |-> {}], s, s)
    BY DEF Effect
  <2> QED
    BY <2>1, OpRuns DEF Do
<1>2. ASSUME NEW op \in {"root", "refresh", "set_config"}, NEW a \in Stacks, IsSession(a)
      PROVE  Runs(strict, Do(op), a, a)
  <2>1. Effect(strict, [do |-> op, rows |-> {}], a, a)
    BY <1>2 DEF Effect
  <2> QED
    BY <2>1, OpRuns DEF Do
<1>3. ASSUME NEW v, NEW op \in {"look", "load"}, NEW a \in Stacks, IsSession(a), v => InTenant(a)
      PROVE  Runs(v, Do(op), a, a)
  <2>1. Effect(v, [do |-> op, rows |-> {}], a, a)
    BY <1>3 DEF Effect
  <2> QED
    BY <2>1, OpRuns DEF Do
<1>4. ASSUME NEW s \in Stacks, NEW f \in Sessions
      PROVE  Append(s, f) \in Stacks /\ IsSession(Append(s, f))
             /\ (f = "tenant" => InTenant(Append(s, f)))
  <2>1. f \in Frames
    BY DEF Frames, Sessions
  <2>2. /\ Append(s, f) \in Stacks /\ Append(s, f) # <<>> /\ Len(Append(s, f)) = Len(s) + 1
        /\ Append(s, f)[Len(s) + 1] = f
    BY <2>1, PushStack
  <2> QED
    BY <2>2 DEF IsSession, InTenant
<1>5. "tenant" \in Sessions
  BY DEF Sessions
<1>6. \A op \in {"root", "refresh", "set_config"}, f \in Sessions : Body(strict, Do(op), f, f)
  BY <1>2, <1>4 DEF Body
<1>7. \A op \in {"look", "load"} : Body(strict, Do(op), "tenant", "tenant")
  BY <1>3, <1>4, <1>5 DEF Body
<1>8. \A op \in {"look", "load"}, f \in Sessions : Body(FALSE, Do(op), f, f)
  BY <1>3, <1>4 DEF Body
<1> QED
  BY <1>1, <1>6, <1>7, <1>8 DEF Anywhere

LEMMA TransactionEnds ==
  ASSUME NEW strict, NEW f \in Sessions, NEW rows \in SUBSET Rows
  PROVE  /\ Body(strict, Do("rollback"), f, "session")
         /\ (strict => f = "tenant" \/ rows \subseteq {"tenant"})
               => Body(strict, Commits(rows), f, "session")
<1>1. ASSUME NEW s \in Stacks
      PROVE  /\ Runs(strict, Do("rollback"), Append(s, f), Append(s, "session"))
             /\ (strict => f = "tenant" \/ rows \subseteq {"tenant"})
                  => Runs(strict, Commits(rows), Append(s, f), Append(s, "session"))
  <2> DEFINE a == Append(s, f)
             b == Append(s, "session")
  <2>1. f \in Frames /\ "session" \in Frames
    BY DEF Frames, Sessions
  <2>2. /\ a \in Stacks /\ a # <<>> /\ Len(a) = Len(s) + 1 /\ a[Len(s) + 1] = f
        /\ b \in Stacks /\ b = Append(Front(a), "session")
    BY <2>1, PushStack
  <2> HIDE DEF a, b
  <2>3. IsSession(a) /\ (f = "tenant" => InTenant(a))
    BY <2>2 DEF IsSession, InTenant
  <2>4. Effect(strict, [do |-> "rollback", rows |-> {}], a, b)
    BY <2>2, <2>3 DEF Effect
  <2>5. (strict => f = "tenant" \/ rows \subseteq {"tenant"})
          => Effect(strict, [do |-> "commit", rows |-> rows], a, b)
    BY <2>2, <2>3 DEF Effect
  <2>6. Runs(strict, Do("rollback"), a, b)
    BY <2>2, <2>4, OpRuns DEF Do
  <2>7. (strict => f = "tenant" \/ rows \subseteq {"tenant"}) => Runs(strict, Commits(rows), a, b)
    BY <2>2, <2>5, OpRuns DEF Commits
  <2> QED
    BY <2>6, <2>7 DEF a, b
<1> QED
  BY <1>1 DEF Body

-----------------------------------------------------------------------------
(* What the endpoints and jobs are put together from.                      *)
LEMMA Pieces ==
  /\ Body(TRUE, Do("look"), "tenant", "tenant") /\ Body(TRUE, Do("load"), "tenant", "tenant")
  /\ \A f \in Sessions : Body(TRUE, Do("root"), f, f)
  /\ Body(TRUE, Do("refresh"), "session", "session")
  /\ Body(TRUE, Do("rollback"), "tenant", "session")
  /\ \A rows \in SUBSET Rows : Body(TRUE, Commits(rows), "tenant", "session")
  /\ Body(TRUE, Commits({"tenant"}), "session", "session")
  /\ Anywhere(TRUE, Do("call")) /\ Anywhere(TRUE, Do("may_return")) /\ Anywhere(TRUE, Do("return"))
<1>1. "tenant" \in Sessions /\ "session" \in Sessions /\ {"tenant"} \in SUBSET Rows
  BY DEF Sessions, Rows
<1>2. Body(TRUE, Do("rollback"), "tenant", "session")
  BY <1>1, TransactionEnds
<1>3. \A rows \in SUBSET Rows : Body(TRUE, Commits(rows), "tenant", "session")
  BY <1>1, TransactionEnds
<1>4. Body(TRUE, Commits({"tenant"}), "session", "session")
  BY <1>1, TransactionEnds
<1> QED
  BY <1>1, <1>2, <1>3, <1>4, Statements

LEMMA SmallPieces ==
  /\ Anywhere(TRUE, CreateClient) /\ InContext(TRUE, TenantSession(Do("load")))
  /\ InContext(TRUE, TenantSession(Do("look"))) /\ InContext(TRUE, LogEntry)
  /\ Anywhere(TRUE, ChangeTenant) /\ Anywhere(TRUE, LookUpProduct) /\ Anywhere(TRUE, MeteredCall)
<1>1. "tenant" \in Sessions /\ "session" \in Sessions
  BY DEF Sessions
<1>2. Anywhere(TRUE, CreateClient)
  BY <1>1, Pieces, AdminSessionRuns DEF CreateClient
<1>3. InContext(TRUE, TenantSession(Do("load"))) /\ InContext(TRUE, TenantSession(Do("look")))
  BY <1>1, Pieces, TenantSessionRuns
<1>4. ASSUME NEW rows \in SUBSET Rows PROVE InContext(TRUE, TenantSession(Commits(rows)))
  <2>1. Body(TRUE, Commits(rows), "tenant", "session")
    BY Pieces
  <2> QED
    BY <1>1, <2>1, TenantSessionRuns
<1>5. InContext(TRUE, LogEntry)
  BY <1>4 DEF LogEntry, Rows
<1>6. Anywhere(TRUE, ChangeTenant)
  <2>1. Body(TRUE, Do("root") \o Commits({"tenant"}), "session", "session")
    BY <1>1, Pieces, BodySequence
  <2> QED
    BY <1>1, <2>1, AdminSessionRuns DEF ChangeTenant
<1>7. Anywhere(TRUE, WithTenant(TenantSession(Do("look"))))
  BY <1>3, WithTenantRuns
<1>8. Anywhere(TRUE, LookUpProduct)
  BY <1>7, GuardedRuns DEF LookUpProduct
<1>9. Anywhere(TRUE, MeteredCall)
  <2> DEFINE x == WithTenant(TenantSession(Do("look")))
             y == Guarded(WithTenant(TenantSession(Commits({"row"}))))
  <2>1. InContext(TRUE, TenantSession(Commits({"row"})))
    BY <1>4 DEF Rows
  <2>2. Anywhere(TRUE, WithTenant(TenantSession(Commits({"row"}))))
    BY <2>1, WithTenantRuns
  <2>3. Anywhere(TRUE, y)
    BY <2>2, GuardedRuns
  <2>4. Anywhere(TRUE, x)
    BY <1>7
  <2> HIDE DEF x, y
  <2>5. Anywhere(TRUE, (x \o Do("call")) \o y)
    BY <2>3, <2>4, Pieces, Sequences
  <2> QED
    BY <2>5 DEF MeteredCall, x, y
<1> QED
  BY <1>2, <1>3, <1>5, <1>6, <1>8, <1>9

(* The requests of a user: what is done in their context is typed. *)
LEMMA UserRequest ==
  ASSUME NEW p, InContext(TRUE, p)
  PROVE  Runs(TRUE, Authenticated(p), <<>>, <<>>)
<1>1. Anywhere(TRUE, AdminSession(Do("root")))
  BY SmallPieces DEF CreateClient
<1> QED
  BY <1>1, SmallPieces, AuthenticatedRuns

LEMMA UserSession ==
  ASSUME NEW p, NEW g \in Sessions, Body(TRUE, p, "tenant", g)
  PROVE  Runs(TRUE, Authenticated(TenantSession(p)), <<>>, <<>>)
<1>1. InContext(TRUE, TenantSession(p))
  BY TenantSessionRuns
<1> QED
  BY <1>1, UserRequest

LEMMA SessionRequests ==
  \A p \in {ListAgents, UpdateAgent, DisableAgent, TestAgent, ListConversations, GetConversation,
            HumanMessage, EscalateConversation, CloseConversation, Usage} :
    Runs(TRUE, p, <<>>, <<>>)
<1>1. "tenant" \in Sessions /\ "session" \in Sessions /\ {"row", "log"} \in SUBSET Rows
      /\ "tenant" \in Frames
  BY DEF Sessions, Rows, Frames
<1>2. Body(TRUE, Do("look"), "tenant", "tenant") /\ Body(TRUE, Do("load"), "tenant", "tenant")
  BY Pieces
<1> DEFINE load == Do("load") \o Commits({"row", "log"})
<1>3. Body(TRUE, load, "tenant", "session")
  <2>1. Body(TRUE, Commits({"row", "log"}), "tenant", "session")
    BY <1>1, Pieces
  <2> QED
    BY <1>2, <2>1, BodySequence
<1>4. Body(TRUE, load \o Do("refresh"), "tenant", "session")
  <2> HIDE DEF load
  <2> QED
    BY <1>3, Pieces, BodySequence
<1>5. Runs(TRUE, Authenticated(TenantSession(load)), <<>>, <<>>)
  <2> HIDE DEF load
  <2> QED
    BY <1>1, <1>3, UserSession
<1>6. Runs(TRUE, Authenticated(TenantSession(load \o Do("refresh"))), <<>>, <<>>)
  <2> HIDE DEF load
  <2> QED
    BY <1>1, <1>4, UserSession
<1>7. Runs(TRUE, Authenticated(TenantSession(Do("look"))), <<>>, <<>>)
  BY <1>1, <1>2, UserSession
<1>8. Runs(TRUE, ListConversations, <<>>, <<>>)
  <2>1. Body(TRUE, Do("look") \o Do("look"), "tenant", "tenant")
    BY <1>2, BodySequence
  <2> QED
    BY <1>1, <2>1, UserSession DEF ListConversations
<1>9. Runs(TRUE, GetConversation, <<>>, <<>>)
  <2>1. Body(TRUE, Do("load") \o Do("look"), "tenant", "tenant")
    BY <1>2, BodySequence
  <2> QED
    BY <1>1, <2>1, UserSession DEF GetConversation
<1>10. Runs(TRUE, TestAgent, <<>>, <<>>)
  <2>1. Body(TRUE, CreateClient, "tenant", "tenant") /\ Body(TRUE, MeteredCall, "tenant", "tenant")
    BY <1>1, SmallPieces, BodyAnywhere
  <2>2. Body(TRUE, Do("load") \o CreateClient, "tenant", "tenant")
    BY <1>2, <2>1, BodySequence
  <2>3. Body(TRUE, (Do("load") \o CreateClient) \o MeteredCall, "tenant", "tenant")
    BY <2>1, <2>2, BodySequence
  <2>4. Body(TRUE, ((Do("load") \o CreateClient) \o MeteredCall) \o Do("rollback"), "tenant",
        "session")
    BY <2>3, Pieces, BodySequence
  <2> QED
    BY <1>1, <2>4, UserSession DEF TestAgent
<1> QED
  BY <1>5, <1>6, <1>7, <1>8, <1>9, <1>10
     DEF ListAgents, UpdateAgent, DisableAgent, HumanMessage, EscalateConversation,
           CloseConversation, Usage

LEMMA TenantRequests ==
  \A p \in {UpdateTenant, SwitchTenant, ChangeKey, ConnectInstagram, DisconnectInstagram} :
    Runs(TRUE, p, <<>>, <<>>)
<1>1. "tenant" \in Sessions /\ "session" \in Sessions /\ <<>> \in Stacks
  BY EmptySeq DEF Sessions, Stacks
<1>2. InContext(TRUE, LogEntry) /\ Anywhere(TRUE, ChangeTenant) /\ Anywhere(TRUE, Do("call"))
  BY SmallPieces, Pieces
<1>3. InContext(TRUE, ChangeTenant) /\ InContext(TRUE, Do("call"))
      /\ Anywhere(TRUE, WithTenant(LogEntry))
  BY <1>2, Sequences, WithTenantRuns
<1>4. Runs(TRUE, UpdateTenant, <<>>, <<>>)
  <2> DEFINE body == (Do("root") \o Commits({"tenant"})) \o Do("root")
  <2>1. Body(TRUE, Do("root") \o Commits({"tenant"}), "session", "session")
    BY <1>1, Pieces, BodySequence
  <2>2. Body(TRUE, body, "session", "session")
    BY <1>1, <2>1, Pieces, BodySequence
  <2> HIDE DEF body
  <2>3. Anywhere(TRUE, AdminSession(body))
    BY <1>1, <2>2, AdminSessionRuns
  <2>4. InContext(TRUE, AdminSession(body) \o LogEntry)
    BY <1>2, <2>3, Sequences
  <2> QED
    BY <2>4, UserRequest DEF UpdateTenant, body
<1>5. Runs(TRUE, SwitchTenant, <<>>, <<>>)
  <2>1. InContext(TRUE, ChangeTenant \o LogEntry)
    BY <1>2, <1>3, Sequences
  <2> QED
    BY <2>1, UserRequest DEF SwitchTenant
<1>6. Runs(TRUE, ChangeKey, <<>>, <<>>)
  <2>1. InContext(TRUE, Do("call") \o ChangeTenant)
    BY <1>3, Sequences
  <2>2. InContext(TRUE, (Do("call") \o ChangeTenant) \o LogEntry)
    BY <1>2, <2>1, Sequences
  <2> QED
    BY <2>2, UserRequest DEF ChangeKey
<1>7. Runs(TRUE, ConnectInstagram, <<>>, <<>>)
  <2>1. Anywhere(TRUE, Do("call") \o ChangeTenant)
    BY <1>2, Sequences
  <2>2. Anywhere(TRUE, (Do("call") \o ChangeTenant) \o WithTenant(LogEntry))
    BY <1>3, <2>1, Sequences
  <2> QED
    BY <1>1, <2>2 DEF ConnectInstagram, Anywhere
<1>8. Runs(TRUE, DisconnectInstagram, <<>>, <<>>)
  <2>1. InContext(TRUE, ChangeTenant \o WithTenant(LogEntry))
    BY <1>2, <1>3, Sequences
  <2> QED
    BY <2>1, UserRequest DEF DisconnectInstagram
<1> QED
  BY <1>4, <1>5, <1>6, <1>7, <1>8

LEMMA UnscopedRequests ==
  \A p \in {Login, RefreshToken, ReceiveMessage, Register} : Runs(FALSE, p, <<>>, <<>>)
<1>1. "session" \in Sessions /\ <<>> \in Stacks /\ "session" \in Frames
      /\ {"row"} \in SUBSET Rows /\ {"tenant", "row"} \in SUBSET Rows
  BY EmptySeq DEF Sessions, Stacks, Rows, Frames
<1>2. /\ Body(FALSE, Do("load"), "session", "session")
      /\ Body(FALSE, Do("look"), "session", "session")
      /\ Body(FALSE, Do("root"), "session", "session")
      /\ Body(FALSE, Do("set_config"), "session", "session")
      /\ Body(FALSE, Do("refresh"), "session", "session")
  BY <1>1, Statements
<1>3. /\ Body(FALSE, Commits({"row"}), "session", "session")
      /\ Body(FALSE, Commits({"tenant", "row"}), "session", "session")
  BY <1>1, TransactionEnds
<1>4. /\ Body(FALSE, Do("may_return"), "session", "session")
      /\ Body(FALSE, Do("call"), "session", "session")
  <2>1. Anywhere(FALSE, Do("may_return")) /\ Anywhere(FALSE, Do("call"))
    BY Statements
  <2> QED
    BY <1>1, <2>1, BodyAnywhere
<1>5. Anywhere(FALSE, AdminSession(Do("load"))) /\ Anywhere(FALSE, AdminSession(Do("root")))
  BY <1>1, <1>2, AdminSessionRuns
<1>6. Anywhere(FALSE, Login)
  BY <1>5, Sequences DEF Login
<1>7. Anywhere(FALSE, RefreshToken)
  BY <1>5 DEF RefreshToken
<1>8. Anywhere(FALSE, ReceiveMessage)
  <2> DEFINE a == Do("root") \o Do("may_return")
             b == a \o Do("look")
             c == b \o Commits({"row"})
  <2>1. Body(FALSE, a, "session", "session")
    BY <1>2, <1>4, BodySequence
  <2> HIDE DEF a
  <2>2. Body(FALSE, b, "session", "session")
    BY <1>2, <2>1, BodySequence
  <2> HIDE DEF b
  <2>3. Body(FALSE, c, "session", "session")
    BY <1>3, <2>2, BodySequence
  <2> HIDE DEF c
  <2>4. Body(FALSE, c \o Do("call"), "session", "session")
    BY <1>4, <2>3, BodySequence
  <2>5. Anywhere(FALSE, AdminSession(c \o Do("call")))
    BY <1>1, <2>4, AdminSessionRuns
  <2> QED
    BY <2>5 DEF ReceiveMessage, a, b, c
<1>9. Anywhere(FALSE, Register)
  <2> DEFINE a == Do("root") \o Do("look")
             b == a \o Do("set_config")
             c == b \o Commits({"tenant", "row"})
  <2>1. Body(FALSE, a, "session", "session")
    BY <1>2, BodySequence
  <2> HIDE DEF a
  <2>2. Body(FALSE, b, "session", "session")
    BY <1>2, <2>1, BodySequence
  <2> HIDE DEF b
  <2>3. Body(FALSE, c, "session", "session")
    BY <1>3, <2>2, BodySequence
  <2> HIDE DEF c
  <2>4. Body(FALSE, c \o Do("refresh"), "session", "session")
    BY <1>2, <2>3, BodySequence
  <2>5. Anywhere(FALSE, AdminSession(c \o Do("refresh")))
    BY <1>1, <2>4, AdminSessionRuns
  <2> QED
    BY <2>5 DEF Register, a, b, c
<1> QED
  BY <1>1, <1>6, <1>7, <1>8, <1>9 DEF Anywhere

LEMMA Jobs == Runs(TRUE, HandleMessage, <<>>, <<>>) /\ Runs(TRUE, SafetyChecks, <<>>, <<>>)
<1>1. /\ "tenant" \in Sessions /\ "session" \in Sessions /\ <<>> \in Stacks /\ "tenant" \in Frames
      /\ {"row"} \in SUBSET Rows /\ {"row", "log"} \in SUBSET Rows
  BY EmptySeq DEF Sessions, Stacks, Rows, Frames
<1>2. Body(TRUE, Do("look"), "tenant", "tenant") /\ Anywhere(TRUE, AdminSession(Do("root")))
  BY Pieces, SmallPieces DEF CreateClient
<1>3. /\ Body(TRUE, Commits({"row"}), "tenant", "session")
      /\ Body(TRUE, Commits({"row", "log"}), "tenant", "session")
  BY <1>1, Pieces
<1>4. InContext(TRUE, RunAgents)
  <2>1. /\ Body(TRUE, CreateClient, "tenant", "tenant")
        /\ Body(TRUE, MeteredCall, "tenant", "tenant")
        /\ Body(TRUE, LookUpProduct, "tenant", "tenant")
        /\ Body(TRUE, Do("may_return"), "tenant", "tenant")
    BY <1>1, SmallPieces, Pieces, BodyAnywhere
  <2> DEFINE a == Do("look") \o CreateClient
             b == a \o Do("look")
             c == b \o Do("may_return")
             d == c \o MeteredCall
             e == d \o LookUpProduct
             f == e \o Commits({"row", "log"})
  <2>2. Body(TRUE, a, "tenant", "tenant")
    BY <1>2, <2>1, BodySequence
  <2> HIDE DEF a
  <2>3. Body(TRUE, b, "tenant", "tenant")
    BY <1>2, <2>2, BodySequence
  <2> HIDE DEF b
  <2>4. Body(TRUE, c, "tenant", "tenant")
    BY <2>1, <2>3, BodySequence
  <2> HIDE DEF c
  <2>5. Body(TRUE, d, "tenant", "tenant")
    BY <2>1, <2>4, BodySequence
  <2> HIDE DEF d
  <2>6. Body(TRUE, e, "tenant", "tenant")
    BY <2>1, <2>5, BodySequence
  <2> HIDE DEF e
  <2>7. Body(TRUE, f, "tenant", "session")
    BY <1>3, <2>6, BodySequence
  <2> HIDE DEF f
  <2>8. InContext(TRUE, TenantSession(f))
    BY <1>1, <2>7, TenantSessionRuns
  <2> QED
    BY <2>8 DEF RunAgents, a, b, c, d, e, f
<1>5. Anywhere(TRUE, StoreReply)
  <2>1. InContext(TRUE, TenantSession(Commits({"row"})))
    BY <1>1, <1>3, TenantSessionRuns
  <2> QED
    BY <2>1, WithTenantRuns DEF StoreReply
<1>6. Anywhere(TRUE, SendReply)
  <2>1. Anywhere(TRUE, CreateClient \o Do("call"))
    BY SmallPieces, Pieces, Sequences
  <2> QED
    BY <2>1, GuardedRuns DEF SendReply
<1>7. Anywhere(TRUE, HandleMessage)
  <2> DEFINE a == RunAgents \o StoreReply
             b == a \o SendReply
             c == AdminSession(Do("root")) \o Do("may_return")
             d == c \o WithTenant(b)
             e == d \o Do("return")
  <2>1. InContext(TRUE, a)
    BY <1>4, <1>5, Sequences
  <2> HIDE DEF a
  <2>2. InContext(TRUE, b)
    BY <1>6, <2>1, Sequences
  <2> HIDE DEF b
  <2>3. Anywhere(TRUE, c)
    BY <1>2, Pieces, Sequences
  <2> HIDE DEF c
  <2>4. Anywhere(TRUE, d)
    BY <2>2, <2>3, WithTenantRuns, Sequences
  <2> HIDE DEF d
  <2>5. Anywhere(TRUE, e)
    BY <2>4, Pieces, Sequences
  <2> HIDE DEF e
  <2>6. Anywhere(TRUE, Guarded(e)) /\ Anywhere(TRUE, Guarded(WithTenant(LogEntry)))
    BY <2>5, SmallPieces, GuardedRuns, WithTenantRuns
  <2>7. Anywhere(TRUE, Guarded(e) \o Guarded(WithTenant(LogEntry)))
    BY <2>6, Sequences
  <2> QED
    BY <2>7 DEF HandleMessage, a, b, c, d, e
<1>8. ASSUME NEW p, Anywhere(TRUE, p) PROVE Anywhere(TRUE, CheckTenant(p))
  <2> DEFINE a == Do("look") \o p
             b == a \o Do("look")
             c == b \o Commits({"row", "log"})
  <2>1. Body(TRUE, p, "tenant", "tenant")
    BY <1>1, <1>8, BodyAnywhere
  <2>2. Body(TRUE, a, "tenant", "tenant")
    BY <1>2, <2>1, BodySequence
  <2> HIDE DEF a
  <2>3. Body(TRUE, b, "tenant", "tenant")
    BY <1>2, <2>2, BodySequence
  <2> HIDE DEF b
  <2>4. Body(TRUE, c, "tenant", "session")
    BY <1>3, <2>3, BodySequence
  <2> HIDE DEF c
  <2>5. Anywhere(TRUE, Guarded(WithTenant(TenantSession(c))))
    BY <1>1, <2>4, TenantSessionRuns, WithTenantRuns, GuardedRuns
  <2> QED
    BY <2>5 DEF CheckTenant, a, b, c
<1>9. Runs(TRUE, SafetyChecks, <<>>, <<>>)
  <2>1. Anywhere(TRUE, CheckTenant(PauseTenant))
    BY <1>8, SmallPieces DEF PauseTenant
  <2>2. Anywhere(TRUE, CheckTenant(<<>>))
    <3>1. Anywhere(TRUE, <<>>)
      BY RunsNone DEF Anywhere
    <3> QED
      BY <1>8, <3>1
  <2> DEFINE r == AdminSession(Do("root"))   x == CheckTenant(PauseTenant)   y == CheckTenant(<<>>)
  <2>3. Runs(TRUE, r, <<>>, <<>>) /\ Runs(TRUE, x, <<>>, <<>>) /\ Runs(TRUE, y, <<>>, <<>>)
    BY <1>1, <1>2, <2>1, <2>2 DEF Anywhere
  <2>4. Runs(TRUE, Do("turn"), <<>>, <<>>)
    <3>1. Effect(TRUE, [do |-> "turn", rows |-> {}], <<>>, <<>>)
      BY DEF Effect
    <3> QED
      BY <1>1, <3>1, OpRuns DEF Do
  <2> HIDE DEF r, x, y
  <2>5. Runs(TRUE, r \o x, <<>>, <<>>)
    BY <2>3, SeqRuns
  <2>6. Runs(TRUE, (r \o x) \o Do("turn"), <<>>, <<>>)
    BY <2>4, <2>5, SeqRuns
  <2>7. Runs(TRUE, ((r \o x) \o Do("turn")) \o y, <<>>, <<>>)
    BY <2>3, <2>6, SeqRuns
  <2> QED
    BY <2>7 DEF SafetyChecks, r, x, y
<1> QED
  BY <1>1, <1>7, <1>9 DEF Anywhere

(* Every program of the code is typed. *)
LEMMA ProgramsTyped ==
  \A w \in Work : Runs(w \notin Unscoped, Program[w], <<>>, <<>>)
<1> SUFFICES ASSUME NEW w \in Work PROVE Runs(w \notin Unscoped, Program[w], <<>>, <<>>)
  OBVIOUS
<1>1. w \in DOMAIN Programs /\ Program[w] = Programs[w]
  BY ProgramsAssumption
<1>2. CASE w \in Unscoped
  <2>1. Program[w] \in {Login, RefreshToken, ReceiveMessage, Register}
    BY <1>1, <1>2 DEF Programs, Unscoped
  <2> QED
    BY <1>2, <2>1, UnscopedRequests
<1>3. CASE w \notin Unscoped
  <2>1. w \in {"list_agents", "update_agent", "disable_agent", "test_agent", "list_conversations",
               "get_conversation", "human_message", "escalate", "close", "update_tenant",
               "switch_tenant", "change_key", "usage", "connect", "disconnect", "handle_message",
               "safety_checks"}
    BY <1>1, <1>3 DEF Programs, Unscoped
  <2>2. Program[w] \in {ListAgents, UpdateAgent, DisableAgent, TestAgent, ListConversations,
                        GetConversation, HumanMessage, EscalateConversation, CloseConversation,
                        Usage, UpdateTenant, SwitchTenant, ChangeKey, ConnectInstagram,
                        DisconnectInstagram, HandleMessage, SafetyChecks}
    BY <1>1, <2>1 DEF Programs
  <2> QED
    BY <1>3, <2>2, SessionRequests, TenantRequests, Jobs
<1> QED
  BY <1>2, <1>3

-----------------------------------------------------------------------------
LEMMA TypedInitial == Init => WellTyped
<1> SUFFICES ASSUME Init, NEW t \in Tasks PROVE Typed(t)
  BY DEF WellTyped
<1>1. <<>> \in Stacks /\ Len(<<>>) = 0
  BY EmptySeq DEF Stacks
<1>2. Fits(t, <<>>)
  BY <1>1 DEF Init, Fits, FitsIn, Scope, HasContext
<1>3. work[t] \in Work /\ steps[t] = Program[work[t]]
  BY DEF Init
<1>4. Runs(work[t] \notin Unscoped, steps[t], <<>>, <<>>)
  BY <1>3, ProgramsTyped
<1> QED
  BY <1>1, <1>2, <1>4 DEF Typed

LEMMA AlwaysTyped == Spec => [](IInv /\ WellTyped)
BY Initial, Inductive, TypedInitial, TypedInductive, PTL DEF Spec

(* No request or job but the four that have no tenant yet ever runs a      *)
(* statement on scoped rows in a transaction that is not its tenant's,     *)
(* whatever was committed, raised, swallowed or nested before.             *)
THEOREM StatementsSee == Spec => []NeverBlind
BY AlwaysTyped, NeverBlindTyped, PTL

(* get_tenant_session is only ever entered in the context of the task's    *)
(* own tenant: it never raises for want of one.                            *)
THEOREM SessionsInContext == Spec => []OpenedInContext
BY AlwaysTyped, InContextTyped, PTL

(* A task that has ended, also by an exception or an early return from     *)
(* anywhere, has left its context and given its connections back.          *)
THEOREM TasksLeaveNothing == Spec => []NothingLeft
BY AlwaysTyped, NothingLeftTyped, PTL

-----------------------------------------------------------------------------
(* The audit log.  An endpoint's program swallows no exception, does not   *)
(* return early, and commits rows only together with their entry; until    *)
(* there is an entry, or an exception has ended it, one is still to come.  *)
Swallows == {"try", "may_return", "return", "turn"}
Plain(p) ==
  /\ p \in Seq(Ops)
  /\ \A i \in 1..Len(p) : /\ p[i].do \notin Swallows
                          /\ p[i].do = "commit" /\ "row" \in p[i].rows => "log" \in p[i].rows
Entry(o) == o.do = "commit" /\ "log" \in o.rows
Logs(p) == \E i \in 1..Len(p) : Entry(p[i])

NoTry(s) == \A i \in 1..Len(s) : s[i].kind # "try"

Audited(t) ==
  work[t] \in Endpoints =>
    /\ Plain(steps[t])
    /\ NoTry(blocks[t])
    /\ "row" \in durable[t] => "log" \in durable[t]
    /\ ~failed[t] => "log" \in durable[t] \/ Logs(steps[t])

AllAudited == \A t \in Tasks : Audited(t)

LEMMA PlainTail ==
  ASSUME NEW p, p # <<>>, Plain(p)
  PROVE  /\ Plain(Tail(p)) /\ Head(p).do \notin Swallows /\ Head(p) \in Ops
         /\ Head(p).do = "commit" /\ "row" \in Head(p).rows => "log" \in Head(p).rows
         /\ Logs(p) => Logs(Tail(p)) \/ Entry(Head(p))
<1>1. p \in Seq(Ops)
  BY DEF Plain
<1>2. Len(p) \in Nat \ {0} /\ Head(p) = p[1]
  BY <1>1, EmptySeq
<1>3. /\ Tail(p) \in Seq(Ops) /\ Len(Tail(p)) = Len(p) - 1 /\ Head(p) \in Ops
      /\ \A i \in 1..Len(Tail(p)) : Tail(p)[i] = p[i + 1]
  BY <1>1, HeadTailProperties
<1>4. 1 \in 1..Len(p) /\ \A i \in 1..Len(p) - 1 : i + 1 \in 1..Len(p)
  BY <1>2
<1>5. Plain(Tail(p))
  BY <1>3, <1>4 DEF Plain
<1>6. Logs(p) => Logs(Tail(p)) \/ Entry(Head(p))
  <2> SUFFICES ASSUME NEW i \in 1..Len(p), Entry(p[i]), i # 1 PROVE Logs(Tail(p))
    BY <1>2 DEF Logs
  <2>1. i - 1 \in 1..Len(Tail(p)) /\ (i - 1) + 1 = i
    BY <1>2, <1>3
  <2>2. Tail(p)[i - 1] = p[i]
    BY <1>3, <2>1
  <2> QED
    BY <2>1, <2>2 DEF Logs
<1> QED
  BY <1>2, <1>3, <1>4, <1>5, <1>6 DEF Plain

LEMMA PlainSequence ==
  ASSUME NEW p, NEW q, Plain(p), Plain(q)
  PROVE  Plain(p \o q) /\ (Logs(p) \/ Logs(q) => Logs(p \o q))
<1>1. p \in Seq(Ops) /\ q \in Seq(Ops)
  BY DEF Plain
<1>2. Len(p) \in Nat /\ Len(q) \in Nat
  BY <1>1, LenProperties
<1> DEFINE r == p \o q
<1>3. /\ r \in Seq(Ops) /\ Len(r) = Len(p) + Len(q)
      /\ \A i \in 1..Len(p) + Len(q) : r[i] = IF i <= Len(p) THEN p[i] ELSE q[i - Len(p)]
  BY <1>1, ConcatProperties
<1> HIDE DEF r
<1>4. \A i \in 1..Len(r) : \/ i \in 1..Len(p) /\ r[i] = p[i]
                           \/ i - Len(p) \in 1..Len(q) /\ r[i] = q[i - Len(p)]
  BY <1>2, <1>3
<1>5. Plain(r)
  BY <1>3, <1>4 DEF Plain
<1>6. \A i \in 1..Len(p) : i \in 1..Len(r) /\ r[i] = p[i]
  BY <1>2, <1>3
<1>7. ASSUME NEW i \in 1..Len(q) PROVE Len(p) + i \in 1..Len(r) /\ r[Len(p) + i] = q[i]
  <2>1. /\ Len(p) + i \in 1..Len(p) + Len(q) /\ ~(Len(p) + i <= Len(p))
        /\ (Len(p) + i) - Len(p) = i
    BY <1>2
  <2> QED
    BY <1>3, <2>1
<1>8. Logs(p) \/ Logs(q) => Logs(r)
  BY <1>6, <1>7 DEF Logs
<1> QED
  BY <1>5, <1>8 DEF r

LEMMA PlainStep ==
  /\ \A op \in {"authenticate", "context", "tenant", "admin", "end", "root", "load", "look",
                "refresh", "call"} : Plain(Do(op))
  /\ \A rows \in SUBSET Rows : "log" \in rows => Plain(Commits(rows)) /\ Logs(Commits(rows))
  /\ Plain(Commits({"tenant"}))
<1>1. ASSUME NEW o \in Ops, o.do \notin Swallows,
             o.do = "commit" /\ "row" \in o.rows => "log" \in o.rows
      PROVE  Plain(<<o>>) /\ (Entry(o) => Logs(<<o>>))
  <2>1. <<o>> \in Seq(Ops) /\ Len(<<o>>) = 1 /\ <<o>>[1] = o
    OBVIOUS
  <2> QED
    BY <1>1, <2>1 DEF Plain, Logs
<1>2. ASSUME NEW op \in {"authenticate", "context", "tenant", "admin", "end", "root", "load",
                         "look", "refresh", "call"}
      PROVE  Plain(Do(op))
  <2> DEFINE o == [do |-> op, rows |-> {}]
  <2>1. o \in Ops /\ o.do \notin Swallows /\ o.do # "commit"
    BY DEF Ops, Swallows
  <2> HIDE DEF o
  <2>2. Plain(<<o>>)
    BY <1>1, <2>1
  <2> QED
    BY <2>2 DEF Do, o
<1>3. ASSUME NEW rows \in SUBSET Rows, "row" \in rows => "log" \in rows
      PROVE  Plain(Commits(rows)) /\ ("log" \in rows => Logs(Commits(rows)))
  <2> DEFINE o == [do |-> "commit", rows |-> rows]
  <2>1. o \in Ops /\ o.do \notin Swallows /\ o.rows = rows /\ o.do = "commit"
    BY DEF Ops, Swallows
  <2> HIDE DEF o
  <2>2. Plain(<<o>>) /\ (Entry(o) => Logs(<<o>>))
    BY <1>1, <1>3, <2>1
  <2> QED
    BY <2>1, <2>2 DEF Commits, o, Entry
<1>4. {"tenant"} \in SUBSET Rows /\ "row" \notin {"tenant"}
  BY DEF Rows
<1> QED
  BY <1>2, <1>3, <1>4

LEMMA Wrapped ==
  ASSUME NEW a, NEW p, NEW z, Plain(a), Plain(p), Plain(z)
  PROVE  Plain((a \o p) \o z) /\ (Logs(p) => Logs((a \o p) \o z))
<1>1. Plain(a \o p) /\ (Logs(p) => Logs(a \o p))
  BY PlainSequence
<1> QED
  BY <1>1, PlainSequence

LEMMA PlainBlocks ==
  ASSUME NEW p, Plain(p)
  PROVE  /\ Plain(WithTenant(p)) /\ Plain(TenantSession(p)) /\ Plain(AdminSession(p))
         /\ Plain(Authenticated(p))
         /\ Logs(p) => /\ Logs(WithTenant(p)) /\ Logs(TenantSession(p)) /\ Logs(AdminSession(p))
                       /\ Logs(Authenticated(p))
<1>1. /\ Plain(Do("end")) /\ Plain(Do("context")) /\ Plain(Do("tenant")) /\ Plain(Do("admin"))
      /\ Plain(Do("authenticate")) /\ Plain(Do("load")) /\ Plain(Do("root"))
  BY PlainStep
<1>2. Plain(WithTenant(p)) /\ (Logs(p) => Logs(WithTenant(p)))
  BY <1>1, Wrapped DEF WithTenant
<1>3. ASSUME NEW q, Plain(q) PROVE Plain(TenantSession(q)) /\ (Logs(q) => Logs(TenantSession(q)))
  BY <1>1, <1>3, Wrapped DEF TenantSession
<1>4. ASSUME NEW q, Plain(q) PROVE Plain(AdminSession(q)) /\ (Logs(q) => Logs(AdminSession(q)))
  BY <1>1, <1>4, Wrapped DEF AdminSession
<1>5. Plain(Authenticated(p)) /\ (Logs(p) => Logs(Authenticated(p)))
  <2> DEFINE l == TenantSession(Do("load"))   r == AdminSession(Do("root"))
             a == Do("authenticate") \o l
             b == a \o r
  <2>1. Plain(l) /\ Plain(r)
    BY <1>1, <1>3, <1>4
  <2> HIDE DEF l, r
  <2>2. Plain(a)
    BY <1>1, <2>1, PlainSequence
  <2> HIDE DEF a
  <2>3. Plain(b)
    BY <2>1, <2>2, PlainSequence
  <2> HIDE DEF b
  <2>4. Plain((b \o p) \o Do("end")) /\ (Logs(p) => Logs((b \o p) \o Do("end")))
    BY <1>1, <2>3, Wrapped
  <2> QED
    BY <2>4 DEF Authenticated, a, b, l, r
<1> QED
  BY <1>2, <1>3, <1>4, <1>5

Audits(p) == Plain(p) /\ Logs(p)

LEMMA AuditsSequence ==
  ASSUME NEW p, NEW q
  PROVE  /\ Plain(p) /\ Audits(q) => Audits(p \o q)
         /\ Audits(p) /\ Plain(q) => Audits(p \o q)
BY PlainSequence DEF Audits

LEMMA AuditsBlocks ==
  ASSUME NEW p, Audits(p)
  PROVE  Audits(WithTenant(p)) /\ Audits(TenantSession(p)) /\ Audits(Authenticated(p))
BY PlainBlocks DEF Audits

LEMMA EndpointsAudit == \A w \in Work \cap Endpoints : Audits(Program[w])
<1>1. /\ Plain(Do("load")) /\ Plain(Do("refresh")) /\ Plain(Do("root")) /\ Plain(Do("call"))
      /\ Plain(Commits({"tenant"}))
  BY PlainStep
<1>2. ASSUME NEW rows \in SUBSET Rows, "log" \in rows PROVE Audits(Commits(rows))
  BY <1>2, PlainStep DEF Audits
<1>3. Audits(LogEntry) /\ Audits(Commits({"row", "log"}))
  <2>1. Audits(Commits({"log"})) /\ Audits(Commits({"row", "log"}))
    BY <1>2 DEF Rows
  <2> QED
    BY <2>1, AuditsBlocks DEF LogEntry
<1> DEFINE load == Do("load") \o Commits({"row", "log"})
<1>4. Audits(load)
  BY <1>1, <1>3, AuditsSequence
<1>5. Audits(load \o Do("refresh"))
  <2> HIDE DEF load
  <2> QED
    BY <1>1, <1>4, AuditsSequence
<1>6. Audits(Authenticated(TenantSession(load)))
  <2> HIDE DEF load
  <2> QED
    BY <1>4, AuditsBlocks
<1>7. Audits(Authenticated(TenantSession(load \o Do("refresh"))))
  <2> HIDE DEF load
  <2> QED
    BY <1>5, AuditsBlocks
<1> DEFINE root == Do("root") \o Commits({"tenant"})
<1>8. Plain(root)
  BY <1>1, PlainSequence
<1>9. Plain(root \o Do("root"))
  <2> HIDE DEF root
  <2> QED
    BY <1>1, <1>8, PlainSequence
<1>10. Plain(ChangeTenant)
  <2> HIDE DEF root
  <2>1. Plain(AdminSession(root))
    BY <1>8, PlainBlocks
  <2> QED
    BY <2>1 DEF ChangeTenant, root
<1>11. Audits(UpdateTenant)
  <2> DEFINE x == AdminSession(root \o Do("root"))
  <2> HIDE DEF root
  <2>1. Plain(x)
    BY <1>9, PlainBlocks
  <2> HIDE DEF x
  <2>2. Audits(x \o LogEntry)
    BY <1>3, <2>1, AuditsSequence
  <2>3. Audits(Authenticated(x \o LogEntry))
    BY <2>2, AuditsBlocks
  <2> QED
    BY <2>3 DEF UpdateTenant, x, root
<1>12. Audits(SwitchTenant)
  <2>1. Audits(ChangeTenant \o LogEntry)
    BY <1>3, <1>10, AuditsSequence
  <2> QED
    BY <2>1, AuditsBlocks DEF SwitchTenant
<1>13. Plain(Do("call") \o ChangeTenant)
  BY <1>1, <1>10, PlainSequence
<1>14. Audits(ChangeKey)
  <2>1. Audits((Do("call") \o ChangeTenant) \o LogEntry)
    BY <1>3, <1>13, AuditsSequence
  <2> QED
    BY <2>1, AuditsBlocks DEF ChangeKey
<1>15. Audits(WithTenant(LogEntry))
  BY <1>3, AuditsBlocks
<1>16. Audits(ConnectInstagram)
  BY <1>13, <1>15, AuditsSequence DEF ConnectInstagram
<1>17. Audits(DisconnectInstagram)
  <2>1. Audits(ChangeTenant \o WithTenant(LogEntry))
    BY <1>10, <1>15, AuditsSequence
  <2> QED
    BY <2>1, AuditsBlocks DEF DisconnectInstagram
<1>18. ASSUME NEW w \in Work \cap Endpoints
       PROVE  Program[w] \in {UpdateAgent, DisableAgent, HumanMessage, EscalateConversation,
                              CloseConversation, UpdateTenant, SwitchTenant, ChangeKey,
                              ConnectInstagram, DisconnectInstagram}
  BY ProgramsAssumption DEF Endpoints, Programs
<1>19. /\ Audits(UpdateAgent) /\ Audits(DisableAgent) /\ Audits(HumanMessage)
       /\ Audits(EscalateConversation) /\ Audits(CloseConversation)
  BY <1>6, <1>7 DEF UpdateAgent, DisableAgent, HumanMessage, EscalateConversation, CloseConversation
<1> QED
  BY <1>11, <1>12, <1>14, <1>16, <1>17, <1>18, <1>19

-----------------------------------------------------------------------------
(* Every step keeps the tasks audited.                                     *)
LEMMA NoTryKept ==
  ASSUME NEW s \in Seq(Blocks), NoTry(s)
  PROVE  /\ \A b \in Blocks : b.kind # "try" => NoTry(Append(s, b))
         /\ s # <<>> => NoTry(Pop(s))
         /\ s # <<>> => \A x \in Conns \cup {NoConn} : NoTry(WithConn(s, x))
<1>1. Len(s) \in Nat
  BY LenProperties
<1>2. ASSUME NEW b \in Blocks, b.kind # "try" PROVE NoTry(Append(s, b))
  <2>1. /\ Len(Append(s, b)) = Len(s) + 1 /\ Append(s, b)[Len(s) + 1] = b
        /\ \A i \in 1..Len(s) : Append(s, b)[i] = s[i]
    BY AppendProperties
  <2>2. \A i \in 1..Len(s) + 1 : i = Len(s) + 1 \/ i \in 1..Len(s)
    BY <1>1
  <2> QED
    BY <1>2, <2>1, <2>2 DEF NoTry
<1>3. ASSUME s # <<>> PROVE NoTry(Pop(s))
  <2>1. Len(Pop(s)) = Len(s) - 1 /\ \A i \in 1..Len(s) - 1 : Pop(s)[i] = s[i]
    BY <1>3, PopConns
  <2>2. \A i \in 1..Len(s) - 1 : i \in 1..Len(s)
    BY <1>1
  <2> QED
    BY <2>1, <2>2 DEF NoTry
<1>4. ASSUME s # <<>>, NEW x \in Conns \cup {NoConn} PROVE NoTry(WithConn(s, x))
  <2> DEFINE l == Len(s)
             b == [s[l] EXCEPT !.conn = x]
  <2>1. l \in 1..l /\ s[l] \in Blocks
    BY <1>4, EmptySeq, ElementOfSeq
  <2>2. b \in Blocks /\ b.kind = s[l].kind
    BY <2>1 DEF Blocks
  <2>3. WithConn(s, x) = [s EXCEPT ![l] = b]
    BY DEF WithConn
  <2> HIDE DEF b
  <2>4. /\ Len(WithConn(s, x)) = l
        /\ \A i \in 1..l : WithConn(s, x)[i] = IF i = l THEN b ELSE s[i]
    BY <2>1, <2>2, <2>3, ExceptSeq
  <2>5. \A i \in 1..l : WithConn(s, x)[i].kind = s[i].kind
    BY <2>2, <2>4
  <2> QED
    BY <2>4, <2>5 DEF NoTry
<1> QED
  BY <1>2, <1>3, <1>4

(* Only the task that steps is touched. *)
Aside(t) ==
  /\ work' = work
  /\ \A u \in Tasks \ {t} : /\ steps'[u] = steps[u] /\ blocks'[u] = blocks[u]
                            /\ durable'[u] = durable[u] /\ failed'[u] = failed[u]

LEMMA OthersAudited ==
  ASSUME AllAudited, NEW t \in Tasks, Aside(t), Audited(t)'
  PROVE  AllAudited'
<1> SUFFICES ASSUME NEW u \in Tasks, u # t PROVE Audited(u)'
  BY DEF AllAudited
<1> QED
  BY DEF AllAudited, Audited, Aside

LEMMA MovesAside ==
  ASSUME IInv, NEW t \in Tasks, work' = work, Goes(t) \/ Return(t) \/ Raise(t),
         failed' = failed \/ Raise(t),
         blocks' = blocks \/ \E s : blocks' = [blocks EXCEPT ![t] = s],
         durable' = durable \/ \E d : durable' = [durable EXCEPT ![t] = d]
  PROVE  Aside(t)
<1>1. \E p : steps' = [steps EXCEPT ![t] = p]
  BY DEF Goes, Raise, Return
<1>2. failed' = failed \/ failed' = [failed EXCEPT ![t] = TRUE]
  BY DEF Raise
<1> QED
  BY <1>1, <1>2 DEF Aside, IInv, TypeOK

LEMMA GoesAudited ==
  ASSUME IInv, AllAudited, NEW t \in Tasks, steps[t] # <<>>,
         Goes(t), work' = work, failed' = failed,
         blocks' = blocks \/ \E s : blocks' = [blocks EXCEPT ![t] = s],
         NoTry(blocks[t]) => NoTry(blocks'[t]),
         \/ durable' = durable /\ Head(steps[t]).do # "commit"
         \/ /\ durable' = [durable EXCEPT ![t] = @ \cup Head(steps[t]).rows]
            /\ Head(steps[t]).do = "commit"
  PROVE  AllAudited'
<1>1. Aside(t)
  BY MovesAside
<1>2. Audited(t)'
  <2> SUFFICES ASSUME work[t] \in Endpoints
               PROVE  /\ Plain(steps'[t]) /\ NoTry(blocks'[t])
                      /\ "row" \in durable'[t] => "log" \in durable'[t]
                      /\ ~failed'[t] => "log" \in durable'[t] \/ Logs(steps'[t])
    BY DEF Audited
  <2>1. /\ Plain(steps[t]) /\ NoTry(blocks[t]) /\ ("row" \in durable[t] => "log" \in durable[t])
        /\ ~failed[t] => "log" \in durable[t] \/ Logs(steps[t])
    BY DEF AllAudited, Audited
  <2>2. steps'[t] = Tail(steps[t]) /\ failed'[t] = failed[t]
    BY DEF IInv, TypeOK, Goes
  <2>3. \/ durable'[t] = durable[t] /\ Head(steps[t]).do # "commit"
        \/ durable'[t] = durable[t] \cup Head(steps[t]).rows /\ Head(steps[t]).do = "commit"
    BY DEF IInv, TypeOK
  <2>4. /\ Plain(Tail(steps[t]))
        /\ Head(steps[t]).do = "commit" /\ "row" \in Head(steps[t]).rows
              => "log" \in Head(steps[t]).rows
        /\ Logs(steps[t]) => Logs(Tail(steps[t])) \/ Entry(Head(steps[t]))
    BY <2>1, PlainTail
  <2> QED
    BY <2>1, <2>2, <2>3, <2>4 DEF Entry
<1> QED
  BY <1>1, <1>2, OthersAudited

(* An exception ends an endpoint: it goes through no try.                  *)
LEMMA RaiseAudited ==
  ASSUME IInv, AllAudited, NEW t \in Tasks, Raise(t), work' = work, durable' = durable,
         blocks' = blocks \/ \E s : blocks' = [blocks EXCEPT ![t] = s],
         NoTry(blocks[t]) => NoTry(blocks'[t])
  PROVE  AllAudited'
<1>1. Aside(t)
  BY MovesAside
<1>2. Audited(t)'
  <2> SUFFICES ASSUME work[t] \in Endpoints
               PROVE  /\ Plain(steps'[t]) /\ NoTry(blocks'[t]) /\ failed'[t]
                      /\ "row" \in durable'[t] => "log" \in durable'[t]
    BY DEF Audited
  <2>1. NoTry(blocks[t]) /\ ("row" \in durable[t] => "log" \in durable[t])
    BY DEF AllAudited, Audited
  <2>2. DOMAIN blocks[t] = 1..Len(blocks[t]) /\ Len(blocks[t]) \in Nat
    BY LenProperties DEF IInv, TypeOK
  <2>3. {i \in DOMAIN blocks[t] : blocks[t][i].kind = "try"} = {}
    BY <2>1, <2>2 DEF NoTry
  <2>4. Return(t) /\ failed' = [failed EXCEPT ![t] = TRUE]
    BY <2>3 DEF Raise
  <2>5. steps'[t] = Ends(Len(blocks[t])) /\ failed'[t]
    BY <2>4 DEF Return, IInv, TypeOK
  <2>6. Plain(Ends(Len(blocks[t])))
    <3>1. Ends(Len(blocks[t])) \in Seq(Ops)
      BY <2>2, EndsType
    <3>2. Len(Ends(Len(blocks[t]))) = Len(blocks[t])
      BY <2>2 DEF Ends
    <3>3. \A i \in 1..Len(blocks[t]) : Ends(Len(blocks[t]))[i].do = "end"
      BY DEF Ends
    <3> QED
      BY <3>1, <3>2, <3>3 DEF Plain, Swallows
  <2> QED
    BY <2>1, <2>5, <2>6
<1> QED
  BY <1>1, <1>2, OthersAudited

(* What an endpoint's program has not. *)
LEMMA SwallowsElsewhere ==
  ASSUME AllAudited, NEW t \in Tasks, steps[t] # <<>>, Head(steps[t]).do \in Swallows, Aside(t)
  PROVE  AllAudited'
<1>1. work[t] \notin Endpoints
  BY PlainTail DEF AllAudited, Audited
<1>2. Audited(t)'
  BY <1>1 DEF Audited, Aside
<1> QED
  BY <1>2, OthersAudited

LEMMA BlocksAudited ==
  ASSUME IInv, AllAudited, NEW t \in Tasks,
         \/ Authenticate(t) \/ EnterContext(t) \/ OpenTenantSession(t) \/ OpenAdminSession(t)
         \/ Leave(t)
  PROVE  AllAudited'
<1>1. /\ steps[t] # <<>> /\ Head(steps[t]).do # "commit" /\ work' = work /\ durable' = durable
      /\ blocks[t] \in Seq(Blocks) /\ ctx[t] \in TenantOrNone
  BY DEF Authenticate, EnterContext, OpenTenantSession, OpenAdminSession, Leave, At, IInv, TypeOK
<1>2. CASE Raise(t) /\ blocks' = blocks
  BY <1>1, <1>2, RaiseAudited
<1>3. CASE Leave(t)
  <2>1. blocks[t] # <<>> /\ blocks' = [blocks EXCEPT ![t] = Pop(blocks[t])] /\ Goes(t)
        /\ failed' = failed
    BY <1>3 DEF Leave, Pop
  <2>2. NoTry(blocks[t]) => NoTry(blocks'[t])
    BY <1>1, <2>1, NoTryKept DEF IInv, TypeOK
  <2> QED
    BY <1>1, <2>1, <2>2, GoesAudited
<1>4. ASSUME NEW b \in Blocks, b.kind # "try", Push(t, b), Goes(t), failed' = failed
      PROVE  AllAudited'
  <2>1. blocks' = [blocks EXCEPT ![t] = Append(blocks[t], b)]
    BY <1>4 DEF Push, IInv, TypeOK
  <2>2. NoTry(blocks[t]) => NoTry(blocks'[t])
    BY <1>1, <1>4, <2>1, NoTryKept DEF IInv, TypeOK
  <2> QED
    BY <1>1, <1>4, <2>1, <2>2, GoesAudited
<1>5. \A k \in {"context", "session"}, v \in TenantOrNone, c \in Conns \cup {NoConn} :
        Block(k, v, c) \in Blocks /\ Block(k, v, c).kind = k
  BY DEF Block, Blocks
<1>6. CASE Authenticate(t) \/ EnterContext(t) \/ OpenAdminSession(t)
  BY <1>1, <1>4, <1>5, <1>6 DEF Authenticate, EnterContext, OpenAdminSession, TenantOrNone
<1>7. CASE OpenTenantSession(t) /\ ctx[t] # NoTenant
  <2>1. PICK c \in Free : Push(t, Block("session", ctx[t], c)) /\ Goes(t) /\ failed' = failed
    BY <1>7 DEF OpenTenantSession
  <2>2. c \in Conns
    BY DEF Free
  <2> QED
    BY <1>1, <1>4, <1>5, <2>1, <2>2
<1>8. CASE OpenTenantSession(t) /\ ctx[t] = NoTenant
  BY <1>2, <1>8 DEF OpenTenantSession
<1> QED
  BY <1>3, <1>6, <1>7, <1>8

LEMMA SessionsAudited ==
  ASSUME IInv, AllAudited, NEW t \in Tasks,
         Look(t) \/ Load(t) \/ SetConfig(t) \/ Commit(t) \/ Rollback(t)
  PROVE  AllAudited'
<1>1. steps[t] # <<>> /\ work' = work /\ InSession(t) /\ blocks[t] \in Seq(Blocks)
      /\ blocks[t] # <<>>
  BY DEF Look, Load, SetConfig, Commit, Rollback, At, InSession, IInv, TypeOK
<1>2. \A c \in Usable(t) : c \in Conns
  BY <1>1, UsableConn
<1>3. PICK x \in Conns \cup {NoConn} :
        /\ SetConn(t, x)
        /\ \/ /\ Goes(t) /\ failed' = failed
              /\ \/ durable' = durable /\ Head(steps[t]).do # "commit"
                 \/ /\ durable' = [durable EXCEPT ![t] = @ \cup Head(steps[t]).rows]
                    /\ Head(steps[t]).do = "commit"
           \/ Raise(t) /\ durable' = durable
  <2>1. CASE Look(t)
    BY <1>2, <2>1 DEF Look, At
  <2>2. CASE Load(t)
    BY <1>2, <2>2 DEF Load, At
  <2>3. CASE SetConfig(t)
    BY <1>2, <2>3 DEF SetConfig, At
  <2>4. CASE Commit(t)
    BY <1>2, <2>4 DEF Commit, At
  <2>5. CASE Rollback(t)
    BY <2>5 DEF Rollback, At
  <2> QED
    BY <2>1, <2>2, <2>3, <2>4, <2>5
<1>4. blocks' = [blocks EXCEPT ![t] = WithConn(blocks[t], x)]
  BY <1>3 DEF SetConn, WithConn
<1>5. NoTry(blocks[t]) => NoTry(blocks'[t])
  BY <1>1, <1>4, NoTryKept DEF IInv, TypeOK
<1>6. \E s : blocks' = [blocks EXCEPT ![t] = s]
  BY <1>4
<1> QED
  BY <1>1, <1>3, <1>5, <1>6, GoesAudited, RaiseAudited

LEMMA OtherAudited ==
  ASSUME IInv, AllAudited, NEW t \in Tasks,
         Try(t) \/ Call(t) \/ LeaveEarly(t) \/ Turn(t) \/ PoolTimeout(t) \/ Fails(t)
  PROVE  AllAudited'
<1>1. CASE Try(t) \/ LeaveEarly(t) \/ Turn(t)
  <2>1. steps[t] # <<>> /\ Head(steps[t]).do \in Swallows
    BY <1>1 DEF Try, LeaveEarly, Turn, At, Swallows
  <2>2. Aside(t)
    <3>1. /\ work' = work /\ failed' = failed /\ (Goes(t) \/ Return(t))
          /\ blocks' = blocks \/ \E s : blocks' = [blocks EXCEPT ![t] = s]
          /\ durable' = durable \/ \E d : durable' = [durable EXCEPT ![t] = d]
      BY <1>1 DEF Try, LeaveEarly, Turn, Push
    <3> QED
      BY <1>1, <3>1, MovesAside DEF Try, LeaveEarly, Turn
  <2> QED
    BY <2>1, <2>2, SwallowsElsewhere
<1>2. CASE Call(t)
  <2>1. /\ steps[t] # <<>> /\ Goes(t) /\ Head(steps[t]).do # "commit"
        /\ UNCHANGED <<work, blocks, failed, durable>>
    BY <1>2 DEF Call, At
  <2> QED
    BY <2>1, GoesAudited
<1>3. CASE PoolTimeout(t) \/ Fails(t)
  BY <1>3, RaiseAudited DEF PoolTimeout, Fails
<1> QED
  BY <1>1, <1>2, <1>3

LEMMA AuditedInductive == IInv /\ AllAudited /\ [Next]_vars => AllAudited'
<1> SUFFICES ASSUME IInv, AllAudited, [Next]_vars PROVE AllAudited'
  OBVIOUS
<1>1. ASSUME NEW t \in Tasks, Step(t) \/ Fails(t) PROVE AllAudited'
  BY <1>1, BlocksAudited, SessionsAudited, OtherAudited DEF Step
<1>2. CASE UNCHANGED vars
  BY <1>2 DEF vars, AllAudited, Audited
<1> QED
  BY <1>1, <1>2 DEF Next

LEMMA AuditedInitial == Init => AllAudited
<1> SUFFICES ASSUME Init, NEW t \in Tasks, work[t] \in Endpoints
             PROVE  /\ Plain(steps[t]) /\ NoTry(blocks[t]) /\ Logs(steps[t]) /\ durable[t] = {}
  BY DEF AllAudited, Audited
<1>1. work[t] \in Work /\ steps[t] = Program[work[t]] /\ blocks[t] = <<>> /\ durable[t] = {}
  BY DEF Init
<1>2. Audits(steps[t])
  BY <1>1, EndpointsAudit
<1>3. NoTry(<<>>)
  BY EmptySeq DEF NoTry
<1> QED
  BY <1>1, <1>2, <1>3 DEF Audits

(* An endpoint's change of a scoped row is durable with its entry in the   *)
(* audit log or not at all, and an endpoint that ends without an error has *)
(* one: also when any statement, commit or call fails, at any connection.  *)
THEOREM ChangesLogged == Spec => []Logged
<1>1. IInv /\ AllAudited => Logged
  <2> SUFFICES ASSUME AllAudited, NEW t \in Tasks, work[t] \in Endpoints
               PROVE  /\ "row" \in durable[t] => "log" \in durable[t]
                      /\ steps[t] = <<>> /\ ~failed[t] => "log" \in durable[t]
    BY DEF Logged
  <2>1. ~Logs(<<>>)
    BY EmptySeq DEF Logs
  <2> QED
    BY <2>1 DEF AllAudited, Audited
<1> QED
  BY <1>1, Initial, Inductive, AuditedInitial, AuditedInductive, PTL DEF Spec
=============================================================================

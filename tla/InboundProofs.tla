--------------------------- MODULE InboundProofs ---------------------------
(***************************************************************************)
(* Proofs about Inbound for every set of updates and any number of faults  *)
(* and deliveries: the types, that a job has its message, that an update   *)
(* answered with 200 has its jobs, and how often a message is stored.      *)
(***************************************************************************)
EXTENDS Inbound, SequenceTheorems, TLAPS

(* A request whose transaction for the current event is open. *)
Open == {"token", "conv", "customer", "insert", "store"}
Opened(u, s) == IF req[u][s].at \in Open THEN 1 ELSE 0

(* One that has committed event i and not enqueued its job yet. *)
Committed(u, s, i) == IF req[u][s].at = "enqueue" /\ req[u][s].i = i THEN 1 ELSE 0

(* One more storage of an update is free while its first answer is due.    *)
Active(u) == \E s \in Slots : req[u][s].at # "idle"
Free(u) == IF u \in acked \/ Active(u) THEN 1 ELSE 0

(* Of the rows of an event those without a job belong to requests that are *)
(* about to enqueue it, or broke off.                                      *)
RowsAhead(u) ==
  \A i \in 1..Len(Events[u]) :
    queued[u][i] + Committed(u, 1, i) + Committed(u, 2, i) <= stored[u][i]

(* The events behind a request have their jobs. *)
AllQueued(u, n) == \A j \in 1..n : queued[u][j] > 0
Progress(u, s) ==
  /\ req[u][s].at \in Open \cup {"enqueue"} => req[u][s].i >= 1 /\ AllQueued(u, req[u][s].i - 1)
  /\ req[u][s].at = "respond" => u \in dropped \/ AllQueued(u, Len(Events[u]))

Answered(u) == u \in acked => u \in dropped \/ AllQueued(u, Len(Events[u]))

(* A Telegram message is stored by a delivery of its own: every one but    *)
(* the first is a fault's.                                                 *)
FaultEach(u) == IsTelegram(u) => stored[u][1] + Opened(u, 1) + Opened(u, 2) <= faults + Free(u)

UpdateInv(u) ==
  RowsAhead(u) /\ Progress(u, 1) /\ Progress(u, 2) /\ Answered(u) /\ FaultEach(u)

IInv == TypeOK /\ \A u \in Updates : UpdateInv(u)

-----------------------------------------------------------------------------
LEMMA EventsType ==
  ASSUME NEW u \in Updates
  PROVE  /\ Len(Events[u]) \in Nat /\ Len(Events[u]) >= 1 /\ DOMAIN Events[u] = 1..Len(Events[u])
         /\ \A i \in 1..Len(Events[u]) : Events[u][i].kind \in Kinds /\ Key(Events[u][i]) \in Keys
         /\ IsTelegram(u) => Len(Events[u]) = 1
<1>1. Events[u] \in Seq([kind : Kinds, handle : Handles]) /\ Events[u] # <<>>
  BY EventsAssumption
<1>2. Len(Events[u]) \in Nat /\ Len(Events[u]) >= 1 /\ DOMAIN Events[u] = 1..Len(Events[u])
  BY <1>1, EmptySeq
<1>3. \A i \in 1..Len(Events[u]) : Events[u][i].kind \in Kinds
  <2>1. \A i \in 1..Len(Events[u]) : Events[u][i] \in [kind : Kinds, handle : Handles]
    BY <1>1, ElementOfSeq
  <2> QED
    BY <2>1
<1>4. \A i \in 1..Len(Events[u]) : Key(Events[u][i]) \in Keys
  BY <1>2 DEF Keys
<1> QED
  BY <1>2, <1>3, <1>4, EventsAssumption

LEMMA Counts ==
  ASSUME TypeOK, NEW u \in Updates, NEW i \in 1..Len(Events[u])
  PROVE  stored[u][i] \in Nat /\ queued[u][i] \in Nat
  BY ElementOfSeq DEF TypeOK

LEMMA FirstCounts ==
  ASSUME TypeOK, NEW u \in Updates
  PROVE  stored[u][1] \in Nat /\ faults \in Nat
<1>1. 1 \in 1..Len(Events[u])
  BY EventsType
<1> QED
  BY <1>1, Counts, BoundsAssumption DEF TypeOK

(* What becomes of a request. *)
Fits(u, r) == r \in Requests /\ r.i \in 0..Len(Events[u])

LEMMA GotoStep ==
  ASSUME TypeOK, NEW u \in Updates, NEW s \in Slots, NEW r, Fits(u, r), Goto(u, s, r)
  PROVE  /\ req' \in [Updates -> [Slots -> Requests]]
         /\ \A v \in Updates, t \in Slots : req'[v][t].i \in 0..Len(Events[v])
         /\ req'[u][s] = r
         /\ \A t \in Slots : t # s => req'[u][t] = req[u][t]
         /\ \A v \in Updates : v # u => req'[v] = req[v]
  BY DEF Goto, TypeOK, Fits

LEMMA IdleFits == \A u \in Updates : Fits(u, Idle) /\ Idle.at = "idle"
  BY EventsType DEF Fits, Idle, At, Requests

LEMMA AtFits ==
  ASSUME NEW u \in Updates, NEW n \in 0..Len(Events[u]),
         NEW p \in {"idle", "token", "conv", "customer", "insert", "store", "enqueue", "respond"}
  PROVE  Fits(u, At(p, n)) /\ At(p, n).at = p /\ At(p, n).i = n
  BY EventsType DEF Fits, At, Requests

(* The handling of an event begins, or the answer is due. *)
LEMMA HandleStep ==
  ASSUME NEW u \in Updates, NEW s \in Slots, NEW n \in 1..Len(Events[u]) + 1, Handle(u, s, n)
  PROVE  \E r : /\ Fits(u, r) /\ Goto(u, s, r)
                /\ n > Len(Events[u]) => r.at = "respond"
                /\ n <= Len(Events[u]) => r.at \in Open /\ r.i = n
<1>1. CASE n > Len(Events[u])
  <2>1. n - 1 \in 0..Len(Events[u])
    BY EventsType
  <2>2. Goto(u, s, At("respond", n - 1))
    BY <1>1 DEF Handle
  <2> QED
    BY <1>1, <2>1, <2>2, AtFits, EventsType
<1>2. CASE n <= Len(Events[u])
  <2>1. PICK p \in {"token", "conv"} : Goto(u, s, At(p, n))
    BY <1>2, EventsType DEF Handle
  <2>2. n \in 0..Len(Events[u])
    BY <1>2, EventsType
  <2> QED
    BY <1>2, <2>1, <2>2, AtFits, EventsType DEF Open
<1> QED
  BY <1>1, <1>2, EventsType

(* The steps inside a transaction: to its next statement, or out of it.    *)
LEMMA InsideStep ==
  ASSUME TypeOK, NEW u \in Updates, NEW s \in Slots,
         ReadToken(u, s) \/ FindConv(u, s) \/ FindCustomer(u, s) \/ InsertCustomer(u, s)
  PROVE  /\ req[u][s].at \in Open
         /\ \E r : /\ Fits(u, r) /\ Goto(u, s, r)
                   /\ r.at = "idle" \/ (r.at \in Open /\ r.i = req[u][s].i)
<1>0. Fits(u, req[u][s]) /\ req[u][s] \in Requests
  BY DEF TypeOK, Fits
<1>1. req[u][s].at \in Open
  BY DEF ReadToken, FindConv, FindCustomer, InsertCustomer, Open
<1>2. CASE Fail(u, s)
  BY <1>1, <1>2, IdleFits DEF Fail
<1>3. CASE ~Fail(u, s)
  <2>1. PICK p \in {"conv", "customer", "insert", "store"}, c \in BOOLEAN, k \in BOOLEAN :
          Goto(u, s, [req[u][s] EXCEPT !.at = p, !.newConv = c, !.newCust = k])
    <3>1. req[u][s] = [at |-> req[u][s].at, i |-> req[u][s].i,
                       newConv |-> req[u][s].newConv, newCust |-> req[u][s].newCust]
      BY <1>0 DEF Requests
    <3>2. req[u][s].newConv \in BOOLEAN /\ req[u][s].newCust \in BOOLEAN
      BY <1>0 DEF Requests
    <3>3. CASE ReadToken(u, s)
      <4>1. Move(u, s, "conv")
        BY <1>3, <3>3 DEF ReadToken
      <4> QED
        BY <3>1, <3>2, <4>1 DEF Move
    <3>4. CASE FindConv(u, s)
      <4>1. PICK p \in {"customer", "store"} :
              Move(u, s, p) \/ Goto(u, s, [req[u][s] EXCEPT !.at = p, !.newConv = TRUE])
        BY <1>3, <3>4 DEF FindConv
      <4>2. /\ [req[u][s] EXCEPT !.at = p] =
                  [req[u][s] EXCEPT !.at = p, !.newConv = req[u][s].newConv, !.newCust = req[u][s].newCust]
            /\ [req[u][s] EXCEPT !.at = p, !.newConv = TRUE] =
                  [req[u][s] EXCEPT !.at = p, !.newConv = TRUE, !.newCust = req[u][s].newCust]
        BY <3>1
      <4> QED
        BY <3>2, <4>1, <4>2 DEF Move
    <3>5. CASE FindCustomer(u, s)
      BY <1>3, <3>1, <3>2, <3>5, ZenonT(30) DEF FindCustomer, Move
    <3>6. CASE InsertCustomer(u, s)
      BY <1>3, <3>1, <3>2, <3>6 DEF InsertCustomer
    <3> QED
      BY <3>3, <3>4, <3>5, <3>6
  <2> DEFINE r == [req[u][s] EXCEPT !.at = p, !.newConv = c, !.newCust = k]
  <2>2. Fits(u, r) /\ r.at \in Open /\ r.i = req[u][s].i
    BY <1>0 DEF Fits, Requests, Open
  <2> QED
    BY <1>1, <2>1, <2>2
<1> QED
  BY <1>2, <1>3
-----------------------------------------------------------------------------
LEMMA InvInit == Init => IInv
<1> SUFFICES ASSUME Init PROVE IInv
  OBVIOUS
<1>1. ASSUME NEW u \in Updates
      PROVE  /\ stored[u] = [i \in 1..Len(Events[u]) |-> 0] /\ queued[u] = stored[u]
             /\ stored[u] \in Seq(Nat) /\ Len(stored[u]) = Len(Events[u])
  <2>1. stored[u] = [i \in 1..Len(Events[u]) |-> 0] /\ queued[u] = stored[u]
    BY EventsType DEF Init
  <2> QED
    BY <2>1, EventsType
<1>2. ASSUME NEW u \in Updates, NEW s \in Slots
      PROVE  req[u][s] \in Requests /\ req[u][s].i \in 0..Len(Events[u]) /\ req[u][s].at = "idle"
  BY IdleFits DEF Init, Fits
<1>3. stored \in [Updates -> Seq(Nat)] /\ queued \in [Updates -> Seq(Nat)]
  <2>1. stored = [u \in Updates |-> stored[u]] /\ queued = [u \in Updates |-> queued[u]]
    BY DEF Init
  <2> QED
    BY <1>1, <2>1
<1>4. req \in [Updates -> [Slots -> Requests]]
  BY <1>2 DEF Init
<1>5. TypeOK
  BY <1>1, <1>2, <1>3, <1>4, BoundsAssumption DEF Init, TypeOK
<1>6. ASSUME NEW u \in Updates PROVE UpdateInv(u)
  <2>1. req[u][1].at = "idle" /\ req[u][2].at = "idle"
    BY <1>2 DEF Slots
  <2>2. RowsAhead(u)
    <3>1. stored[u] = [i \in 1..Len(Events[u]) |-> 0] /\ queued[u] = stored[u]
      BY <1>1
    <3>2. \A i \in 1..Len(Events[u]) : stored[u][i] = 0
      BY <3>1, Zenon
    <3> QED
      BY <2>1, <3>1, <3>2 DEF RowsAhead, Committed
  <2>3. Progress(u, 1) /\ Progress(u, 2) /\ Answered(u)
    BY <2>1 DEF Init, Progress, Answered, Open
  <2>4. FaultEach(u)
    BY <1>1, <2>1, EventsType DEF Init, FaultEach, Opened, Open, Free
  <2> QED
    BY <2>2, <2>3, <2>4 DEF UpdateInv
<1> QED
  BY <1>5, <1>6 DEF IInv

(* The types hold after a step that moves one request. *)
LEMMA TypeAfter ==
  ASSUME TypeOK, NEW u \in Updates, NEW s \in Slots, NEW r, Fits(u, r), Goto(u, s, r),
         UNCHANGED <<paused, expired, convs, customers, stored, queued>>,
         acked' \subseteq Updates, dropped' \subseteq Updates,
         tries' \in [Updates -> 0..MaxTries], faults' \in 0..MaxFaults
  PROVE  TypeOK'
BY GotoStep DEF TypeOK

(* An update that no step is about keeps its part; a fault of another only *)
(* makes room.                                                             *)
LEMMA Elsewhere ==
  ASSUME TypeOK, NEW v \in Updates, UpdateInv(v), req'[v] = req[v],
         stored'[v] = stored[v], queued'[v] = queued[v], faults' \in {faults, faults + 1},
         (v \in acked') = (v \in acked), v \in dropped => v \in dropped'
  PROVE  UpdateInv(v)'
<1>0. faults \in Nat /\ faults' >= faults
  BY BoundsAssumption DEF TypeOK
<1>1. RowsAhead(v)'
  BY DEF UpdateInv, RowsAhead, Committed
<1>2. Progress(v, 1)' /\ Progress(v, 2)' /\ Answered(v)'
  BY DEF UpdateInv, Progress, Answered, AllQueued
<1>3. FaultEach(v)'
  <2> SUFFICES ASSUME IsTelegram(v)
               PROVE  stored'[v][1] + Opened(v, 1)' + Opened(v, 2)' <= faults' + Free(v)'
    BY DEF FaultEach, IsTelegram
  <2>1. Opened(v, 1)' = Opened(v, 1) /\ Opened(v, 2)' = Opened(v, 2) /\ Free(v)' = Free(v)
    BY DEF Opened, Free, Active
  <2>2. stored[v][1] + Opened(v, 1) + Opened(v, 2) <= faults + Free(v)
    BY DEF UpdateInv, FaultEach
  <2>3. stored[v][1] \in Nat
    BY FirstCounts
  <2> QED
    BY <1>0, <2>1, <2>2, <2>3 DEF Opened, Free
<1> QED
  BY <1>1, <1>2, <1>3 DEF UpdateInv

-----------------------------------------------------------------------------
(* A step of one request, seen by its own update: the request becomes r.   *)
Becomes(u, s, r) ==
  /\ Fits(u, r) /\ req'[u][s] = r
  /\ \A t \in Slots : t # s => req'[u][t] = req[u][t]

(* Rows and jobs are left alone, and nothing new waits to be enqueued.     *)
LEMMA RowsKept ==
  ASSUME TypeOK, NEW u \in Updates, NEW s \in Slots, UpdateInv(u), NEW r, Becomes(u, s, r),
         r.at # "enqueue", stored' = stored, queued' = queued
  PROVE  RowsAhead(u)'
<1> SUFFICES ASSUME NEW i \in 1..Len(Events[u])
             PROVE  queued[u][i] + Committed(u, 1, i)' + Committed(u, 2, i)' <= stored[u][i]
  BY DEF RowsAhead
<1>1. queued[u][i] \in Nat /\ stored[u][i] \in Nat
  BY Counts
<1>2. queued[u][i] + Committed(u, 1, i) + Committed(u, 2, i) <= stored[u][i]
  BY DEF UpdateInv, RowsAhead
<1>3. /\ Committed(u, 1, i)' \in {0, Committed(u, 1, i)}
      /\ Committed(u, 2, i)' \in {0, Committed(u, 2, i)}
      /\ Committed(u, 1, i) \in {0, 1} /\ Committed(u, 2, i) \in {0, 1}
  BY DEF Committed, Becomes, Slots
<1> QED
  BY <1>1, <1>2, <1>3

(* Jobs are not taken back: what was in progress or answered stays so.     *)
LEMMA OthersKept ==
  ASSUME TypeOK, NEW u \in Updates, NEW s \in Slots, UpdateInv(u), NEW r, Becomes(u, s, r),
         \A j \in 1..Len(Events[u]) : queued[u][j] > 0 => queued'[u][j] > 0,
         dropped \subseteq dropped', Progress(u, s)',
         u \in acked' => u \in acked \/ u \in dropped' \/ AllQueued(u, Len(Events[u]))
  PROVE  Progress(u, 1)' /\ Progress(u, 2)' /\ Answered(u)'
<1>1. \A n \in 0..Len(Events[u]) : AllQueued(u, n) => AllQueued(u, n)'
  BY EventsType DEF AllQueued
<1>2. \A t \in Slots : req[u][t].i \in 0..Len(Events[u])
  BY DEF TypeOK
<1>3. \A t \in Slots : Progress(u, t)
  BY DEF UpdateInv, Slots
<1>4. ASSUME NEW t \in Slots, t # s PROVE Progress(u, t)'
  <2>1. req'[u][t] = req[u][t]
    BY <1>4 DEF Becomes
  <2>2. req[u][t].i >= 1 => req[u][t].i - 1 \in 0..Len(Events[u])
    BY <1>2, EventsType
  <2> QED
    BY <1>1, <1>3, <2>1, <2>2, EventsType DEF Progress
<1>5. Answered(u)'
  BY <1>1, EventsType DEF UpdateInv, Answered
<1> QED
  BY <1>4, <1>5 DEF Slots

(* A request that goes on or breaks off uses up no more than it had, and   *)
(* one that leaves the transaction behind gives its place to the fault.    *)
LEMMA FaultKept ==
  ASSUME TypeOK, NEW u \in Updates, NEW s \in Slots, UpdateInv(u), NEW r, Becomes(u, s, r),
         stored' = stored, req[u][s].at # "idle", acked \subseteq acked',
         \/ r.at # "idle" /\ (r.at \in Open => req[u][s].at \in Open) /\ faults' = faults
         \/ r.at = "idle" /\ req[u][s].at \in Open /\ faults' = faults
         \/ r.at = "idle" /\ faults' = faults + 1
         \/ r.at = "idle" /\ u \in acked' /\ faults' = faults
  PROVE  FaultEach(u)'
<1> SUFFICES ASSUME IsTelegram(u)
             PROVE  stored[u][1] + Opened(u, 1)' + Opened(u, 2)' <= faults' + Free(u)'
  BY DEF FaultEach, IsTelegram
<1>1. stored[u][1] + Opened(u, 1) + Opened(u, 2) <= faults + 1
  BY FirstCounts DEF UpdateInv, FaultEach, Free, Opened
<1>2. stored[u][1] \in Nat /\ faults \in Nat
  BY FirstCounts
<1> DEFINE t == IF s = 1 THEN 2 ELSE 1
<1>3. t \in Slots /\ t # s /\ ((s = 1 /\ t = 2) \/ (s = 2 /\ t = 1))
  BY DEF Slots
<1> HIDE DEF t
<1>4. req'[u][s] = r /\ req'[u][t] = req[u][t]
  BY <1>3 DEF Becomes
<1>5. stored[u][1] + Opened(u, s) + Opened(u, t) <= faults + 1
  BY <1>1, <1>2, <1>3 DEF Opened
<1>6. Opened(u, t)' = Opened(u, t) /\ Opened(u, t) \in {0, 1} /\ Opened(u, s) \in {0, 1}
  BY <1>4 DEF Opened
<1>7. stored[u][1] + Opened(u, s)' + Opened(u, t)' <= faults' + Free(u)'
  <2>1. CASE r.at # "idle" /\ (r.at \in Open => req[u][s].at \in Open) /\ faults' = faults
    <3>1. Free(u)' = 1 /\ Opened(u, s)' <= Opened(u, s) /\ Opened(u, s)' \in {0, 1}
      BY <1>4, <2>1 DEF Free, Active, Opened
    <3> QED
      BY <1>2, <1>5, <1>6, <2>1, <3>1
  <2>2. CASE r.at = "idle"
    <3>1. Opened(u, s)' = 0 /\ Free(u)' \in {0, 1} /\ (u \in acked' => Free(u)' = 1)
      BY <1>4, <2>2 DEF Opened, Open, Free
    <3>2. req[u][s].at \in Open => Opened(u, s) = 1
      BY DEF Opened
    <3> QED
      BY <1>2, <1>5, <1>6, <2>2, <3>1, <3>2
  <2> QED
    BY <2>1, <2>2
<1> QED
  BY <1>2, <1>3, <1>7 DEF Opened

-----------------------------------------------------------------------------
LEMMA InsideKeeps ==
  ASSUME IInv, NEW u \in Updates, NEW s \in Slots,
         ReadToken(u, s) \/ FindConv(u, s) \/ FindCustomer(u, s) \/ InsertCustomer(u, s)
  PROVE  TypeOK' /\ UpdateInv(u)' /\ \A v \in Updates : v # u => UpdateInv(v)'
<1>0. TypeOK /\ UpdateInv(u) /\ \A v \in Updates : UpdateInv(v)
  BY DEF IInv
<1>1. req[u][s].at \in Open
  BY <1>0, InsideStep
<1>2. PICK r : Fits(u, r) /\ Goto(u, s, r) /\ (r.at = "idle" \/ (r.at \in Open /\ r.i = req[u][s].i))
  BY <1>0, InsideStep
<1>3. UNCHANGED <<paused, expired, convs, customers, stored, queued, acked, dropped, tries, faults>>
  BY DEF ReadToken, FindConv, FindCustomer, InsertCustomer
<1>4. TypeOK'
  BY <1>0, <1>2, <1>3, TypeAfter DEF TypeOK
<1>5. Becomes(u, s, r)
  BY <1>0, <1>2, GotoStep DEF Becomes
<1>6. Progress(u, s)
  BY <1>0 DEF UpdateInv, Slots
<1>7. Progress(u, s)'
  BY <1>1, <1>2, <1>3, <1>5, <1>6 DEF Progress, Becomes, Open, AllQueued
<1>8. RowsAhead(u)'
  BY <1>0, <1>2, <1>3, <1>5, RowsKept DEF Open
<1>9. Progress(u, 1)' /\ Progress(u, 2)' /\ Answered(u)'
  BY <1>0, <1>3, <1>5, <1>7, OthersKept
<1>10. FaultEach(u)'
  BY <1>0, <1>1, <1>2, <1>3, <1>5, FaultKept DEF Open
<1>11. ASSUME NEW v \in Updates, v # u PROVE UpdateInv(v)'
  <2>1. req'[v] = req[v]
    BY <1>0, <1>2, <1>11, GotoStep
  <2> QED
    BY <1>0, <1>3, <2>1, Elsewhere
<1> QED
  BY <1>4, <1>8, <1>9, <1>10, <1>11 DEF UpdateInv

LEMMA RespondKeeps ==
  ASSUME IInv, NEW u \in Updates, NEW s \in Slots, Respond(u, s)
  PROVE  TypeOK' /\ UpdateInv(u)' /\ \A v \in Updates : v # u => UpdateInv(v)'
<1>0. TypeOK /\ UpdateInv(u) /\ \A v \in Updates : UpdateInv(v)
  BY DEF IInv
<1>2. Fits(u, Idle) /\ Goto(u, s, Idle) /\ Idle.at = "idle" /\ req[u][s].at = "respond"
  BY IdleFits DEF Respond
<1>3. /\ UNCHANGED <<paused, expired, convs, customers, stored, queued, dropped, tries, faults>>
      /\ acked' = acked \cup {u}
  BY DEF Respond
<1>4. TypeOK'
  BY <1>0, <1>2, <1>3, TypeAfter DEF TypeOK
<1>5. Becomes(u, s, Idle)
  BY <1>0, <1>2, GotoStep DEF Becomes
<1>6. u \in dropped \/ AllQueued(u, Len(Events[u]))
  BY <1>0, <1>2 DEF UpdateInv, Slots, Progress
<1>7. Progress(u, s)'
  BY <1>2, <1>5 DEF Progress, Becomes, Open
<1>8. RowsAhead(u)'
  BY <1>0, <1>2, <1>3, <1>5, RowsKept
<1>9. Progress(u, 1)' /\ Progress(u, 2)' /\ Answered(u)'
  BY <1>0, <1>3, <1>5, <1>6, <1>7, OthersKept
<1>10. FaultEach(u)'
  BY <1>0, <1>2, <1>3, <1>5, FaultKept
<1>11. ASSUME NEW v \in Updates, v # u PROVE UpdateInv(v)'
  <2>1. req'[v] = req[v]
    BY <1>0, <1>2, <1>11, GotoStep
  <2> QED
    BY <1>0, <1>3, <1>11, <2>1, Elsewhere
<1> QED
  BY <1>4, <1>8, <1>9, <1>10, <1>11 DEF UpdateInv

LEMMA BreakOffKeeps ==
  ASSUME IInv, NEW u \in Updates, NEW s \in Slots, BreakOff(u, s)
  PROVE  TypeOK' /\ UpdateInv(u)' /\ \A v \in Updates : v # u => UpdateInv(v)'
<1>0. TypeOK /\ UpdateInv(u) /\ \A v \in Updates : UpdateInv(v)
  BY DEF IInv
<1>2. Fits(u, Idle) /\ Goto(u, s, Idle) /\ Idle.at = "idle" /\ req[u][s].at # "idle"
  BY IdleFits DEF BreakOff
<1>3. /\ UNCHANGED <<paused, expired, convs, customers, stored, queued, acked, dropped, tries>>
      /\ faults' = faults + 1 /\ faults' \in 0..MaxFaults
  BY <1>0, BoundsAssumption DEF BreakOff, TypeOK
<1>4. TypeOK'
  BY <1>0, <1>2, <1>3, TypeAfter DEF TypeOK
<1>5. Becomes(u, s, Idle)
  BY <1>0, <1>2, GotoStep DEF Becomes
<1>7. Progress(u, s)'
  BY <1>2, <1>5 DEF Progress, Becomes, Open
<1>8. RowsAhead(u)'
  BY <1>0, <1>2, <1>3, <1>5, RowsKept
<1>9. Progress(u, 1)' /\ Progress(u, 2)' /\ Answered(u)'
  BY <1>0, <1>3, <1>5, <1>7, OthersKept
<1>10. FaultEach(u)'
  BY <1>0, <1>2, <1>3, <1>5, FaultKept
<1>11. ASSUME NEW v \in Updates, v # u PROVE UpdateInv(v)'
  <2>1. req'[v] = req[v]
    BY <1>0, <1>2, <1>11, GotoStep
  <2> QED
    BY <1>0, <1>3, <2>1, Elsewhere
<1> QED
  BY <1>4, <1>8, <1>9, <1>10, <1>11 DEF UpdateInv

LEMMA DeliverKeeps ==
  ASSUME IInv, NEW u \in Updates, NEW s \in Slots, Deliver(u, s)
  PROVE  TypeOK' /\ UpdateInv(u)' /\ \A v \in Updates : v # u => UpdateInv(v)'
<1>0. TypeOK /\ UpdateInv(u) /\ \A v \in Updates : UpdateInv(v)
  BY DEF IInv
<1>a. Len(Events[u]) \in Nat /\ Len(Events[u]) >= 1 /\ 1 \in 1..Len(Events[u]) + 1
      /\ 1 \in 0..Len(Events[u])
  BY EventsType
<1>1. u \notin acked /\ req[u][s].at = "idle"
  BY DEF Deliver
<1>2. \E r : /\ Fits(u, r) /\ Goto(u, s, r)
             /\ \/ r.at = "respond" /\ dropped' = dropped \cup {u} /\ ~IsTelegram(u)
                \/ r.at \in Open /\ r.i = 1 /\ dropped' = dropped
  <2>1. CASE paused /\ ~IsTelegram(u)
    BY <1>a, <2>1, AtFits DEF Deliver
  <2>2. CASE ~(paused /\ ~IsTelegram(u))
    <3>1. Handle(u, s, 1) /\ dropped' = dropped
      BY <2>2 DEF Deliver
    <3> QED
      BY <1>a, <3>1, HandleStep
  <2> QED
    BY <2>1, <2>2
<1>b. PICK r : /\ Fits(u, r) /\ Goto(u, s, r)
               /\ \/ r.at = "respond" /\ dropped' = dropped \cup {u} /\ ~IsTelegram(u)
                  \/ r.at \in Open /\ r.i = 1 /\ dropped' = dropped
  BY <1>2
<1>3. /\ UNCHANGED <<paused, expired, convs, customers, stored, queued, acked>>
      /\ dropped \subseteq dropped'
      /\ faults' = IF Active(u) THEN faults + 1 ELSE faults
  <2>1. UNCHANGED <<paused, expired, convs, customers, stored, queued, acked>>
    BY DEF Deliver
  <2>2. faults' = IF Active(u) THEN faults + 1 ELSE faults
    BY DEF Deliver, Active
  <2> QED
    BY <1>b, <2>1, <2>2
<1>c. tries' \in [Updates -> 0..MaxTries] /\ faults' \in 0..MaxFaults
  <2>1. tries' = tries \/ (tries[u] < MaxTries /\ tries' = [tries EXCEPT ![u] = @ + 1])
    BY DEF Deliver
  <2>2. tries' \in [Updates -> 0..MaxTries]
    <3>1. tries \in [Updates -> 0..MaxTries]
      BY <1>0 DEF TypeOK
    <3>2. tries[u] < MaxTries => tries[u] + 1 \in 0..MaxTries
      BY <3>1, BoundsAssumption
    <3> QED
      BY <2>1, <3>1, <3>2
  <2>3. faults' = faults \/ (faults < MaxFaults /\ faults' = faults + 1)
    BY DEF Deliver
  <2>4. faults' \in 0..MaxFaults
    BY <1>0, <2>3, BoundsAssumption DEF TypeOK
  <2> QED
    BY <2>2, <2>4
<1>d. dropped' \subseteq Updates
  BY <1>0, <1>b DEF TypeOK
<1>4. TypeOK'
  BY <1>0, <1>b, <1>3, <1>c, <1>d, TypeAfter DEF TypeOK
<1>5. Becomes(u, s, r)
  BY <1>0, <1>b, GotoStep DEF Becomes
<1>7. Progress(u, s)'
  BY <1>b, <1>5 DEF Progress, Becomes, Open, AllQueued
<1>8. RowsAhead(u)'
  BY <1>0, <1>b, <1>3, <1>5, RowsKept DEF Open
<1>9. Progress(u, 1)' /\ Progress(u, 2)' /\ Answered(u)'
  BY <1>0, <1>1, <1>3, <1>5, <1>7, OthersKept
<1>10. FaultEach(u)'
  <2> SUFFICES ASSUME IsTelegram(u)
               PROVE  stored[u][1] + Opened(u, 1)' + Opened(u, 2)' <= faults' + Free(u)'
    BY <1>3 DEF FaultEach, IsTelegram
  <2>1. stored[u][1] + Opened(u, 1) + Opened(u, 2) <= faults + Free(u)
    BY <1>0 DEF UpdateInv, FaultEach
  <2>2. stored[u][1] \in Nat /\ faults \in Nat
    BY <1>0, FirstCounts
  <2>3. Opened(u, 1)' + Opened(u, 2)' = Opened(u, 1) + Opened(u, 2) + 1
    BY <1>1, <1>b, <1>5 DEF Opened, Open, Becomes, Slots
  <2>4. Free(u)' = 1 /\ Free(u) = (IF Active(u) THEN 1 ELSE 0)
    BY <1>1, <1>b, <1>5 DEF Free, Active, Becomes, Open
  <2> QED
    BY <1>3, <2>1, <2>2, <2>3, <2>4 DEF Opened
<1>11. ASSUME NEW v \in Updates, v # u PROVE UpdateInv(v)'
  <2>1. req'[v] = req[v]
    BY <1>0, <1>b, <1>11, GotoStep
  <2> QED
    BY <1>0, <1>3, <2>1, Elsewhere
<1> QED
  BY <1>4, <1>8, <1>9, <1>10, <1>11 DEF UpdateInv

LEMMA StoreKeeps ==
  ASSUME IInv, NEW u \in Updates, NEW s \in Slots, Store(u, s)
  PROVE  TypeOK' /\ UpdateInv(u)' /\ \A v \in Updates : v # u => UpdateInv(v)'
<1>0. TypeOK /\ UpdateInv(u) /\ \A v \in Updates : UpdateInv(v)
  BY DEF IInv
<1> DEFINE n == req[u][s].i
           r == At("enqueue", n)
<1>1. req[u][s].at = "store" /\ n \in 1..Len(Events[u])
  <2>1. req[u][s].at = "store"
    BY DEF Store
  <2>2. Progress(u, s)
    BY <1>0 DEF UpdateInv, Slots
  <2> QED
    BY <1>0, <2>1, <2>2, EventsType DEF Progress, Open, TypeOK
<1>2. Fits(u, r) /\ r.at = "enqueue" /\ r.i = n
  BY <1>1, AtFits, EventsType
<1>3. /\ UNCHANGED <<paused, expired, queued, acked, dropped, tries, faults>>
      /\ stored' = [stored EXCEPT ![u][n] = @ + 1] /\ Goto(u, s, r)
  BY DEF Store
<1>4. Becomes(u, s, r) /\ \A v \in Updates : v # u => req'[v] = req[v]
  BY <1>0, <1>2, <1>3, GotoStep DEF Becomes
<1>5. /\ stored'[u] = [stored[u] EXCEPT ![n] = @ + 1]
      /\ \A v \in Updates : v # u => stored'[v] = stored[v]
      /\ stored[u] \in Seq(Nat) /\ Len(stored[u]) = Len(Events[u]) /\ stored[u][n] \in Nat
  BY <1>0, <1>1, <1>3, Counts DEF TypeOK
<1>6. /\ stored'[u] \in Seq(Nat) /\ Len(stored'[u]) = Len(Events[u])
      /\ \A i \in 1..Len(Events[u]) : stored'[u][i] = IF i = n THEN stored[u][i] + 1 ELSE stored[u][i]
  <2>1. stored[u][n] + 1 \in Nat /\ n \in 1..Len(stored[u])
    BY <1>1, <1>5, SMTT(20)
  <2>2. stored'[u] = [stored[u] EXCEPT ![n] = stored[u][n] + 1]
    BY <1>5
  <2> QED
    BY <1>5, <2>1, <2>2, ExceptSeq, SMTT(20)
<1>7. convs' \in [Keys -> Nat] /\ customers' \subseteq Keys
  <2>1. Key(Event(u, s)) \in Keys
    BY <1>1, EventsType DEF Event
  <2> QED
    BY <1>0, <2>1 DEF Store, TypeOK
<1>8. TypeOK'
  <2>1. /\ req' \in [Updates -> [Slots -> Requests]]
        /\ \A v \in Updates, x \in Slots : req'[v][x].i \in 0..Len(Events[v])
    BY <1>0, <1>2, <1>3, GotoStep
  <2>2. stored' \in [Updates -> Seq(Nat)] /\ \A v \in Updates : Len(stored'[v]) = Len(Events[v])
    BY <1>0, <1>3, <1>5, <1>6 DEF TypeOK
  <2> QED
    BY <1>0, <1>3, <1>7, <2>1, <2>2 DEF TypeOK
<1> HIDE DEF n, r
<1>9. RowsAhead(u)'
  <2> SUFFICES ASSUME NEW i \in 1..Len(Events[u])
               PROVE  queued[u][i] + Committed(u, 1, i)' + Committed(u, 2, i)' <= stored'[u][i]
    BY <1>3 DEF RowsAhead
  <2>1. queued[u][i] \in Nat /\ stored[u][i] \in Nat
    BY <1>0, Counts
  <2>2. queued[u][i] + Committed(u, 1, i) + Committed(u, 2, i) <= stored[u][i]
    BY <1>0 DEF UpdateInv, RowsAhead
  <2>3. Committed(u, 1, i)' + Committed(u, 2, i)' =
          Committed(u, 1, i) + Committed(u, 2, i) + (IF i = n THEN 1 ELSE 0)
    BY <1>1, <1>2, <1>4 DEF Committed, Becomes, Slots
  <2> QED
    BY <1>6, <2>1, <2>2, <2>3 DEF Committed
<1>10. Progress(u, s)'
  <2>1. Progress(u, s)
    BY <1>0 DEF UpdateInv, Slots
  <2> QED
    BY <1>1, <1>2, <1>3, <1>4, <2>1 DEF Progress, Becomes, Open, AllQueued, n
<1>11. Progress(u, 1)' /\ Progress(u, 2)' /\ Answered(u)'
  BY <1>0, <1>3, <1>4, <1>10, OthersKept
<1>12. FaultEach(u)'
  <2> SUFFICES ASSUME IsTelegram(u)
               PROVE  stored'[u][1] + Opened(u, 1)' + Opened(u, 2)' <= faults + Free(u)'
    BY <1>3 DEF FaultEach, IsTelegram
  <2>1. stored[u][1] + Opened(u, 1) + Opened(u, 2) <= faults + Free(u)
    BY <1>0 DEF UpdateInv, FaultEach
  <2>2. stored[u][1] \in Nat /\ faults \in Nat
    BY <1>0, FirstCounts
  <2>3. Opened(u, 1)' + Opened(u, 2)' + 1 = Opened(u, 1) + Opened(u, 2)
    BY <1>1, <1>2, <1>4 DEF Opened, Open, Becomes, Slots
  <2>4. Free(u)' = 1 /\ Free(u) = 1
    BY <1>1, <1>2, <1>4 DEF Free, Active, Becomes, Open
  <2>5. n = 1 /\ stored'[u][1] = stored[u][1] + 1
    BY <1>1, <1>6, EventsType
  <2> QED
    BY <2>1, <2>2, <2>3, <2>4, <2>5 DEF Opened
<1>13. ASSUME NEW v \in Updates, v # u PROVE UpdateInv(v)'
  BY <1>0, <1>3, <1>4, <1>5, <1>13, Elsewhere DEF TypeOK
<1> QED
  BY <1>8, <1>9, <1>11, <1>12, <1>13 DEF UpdateInv

LEMMA EnqueueKeeps ==
  ASSUME IInv, NEW u \in Updates, NEW s \in Slots, Enqueue(u, s)
  PROVE  TypeOK' /\ UpdateInv(u)' /\ \A v \in Updates : v # u => UpdateInv(v)'
<1>0. TypeOK /\ UpdateInv(u) /\ \A v \in Updates : UpdateInv(v)
  BY DEF IInv
<1>n. PICK n : n = req[u][s].i
  OBVIOUS
<1>1. req[u][s].at = "enqueue" /\ n \in 1..Len(Events[u]) /\ n + 1 \in 1..Len(Events[u]) + 1
      /\ AllQueued(u, n - 1)
  <2>1. req[u][s].at = "enqueue"
    BY DEF Enqueue
  <2>2. Progress(u, s)
    BY <1>0 DEF UpdateInv, Slots
  <2> QED
    BY <1>0, <1>n, <2>1, <2>2, EventsType, SMTT(20) DEF Progress, Open, TypeOK
<1>2. \E r : /\ Fits(u, r) /\ Goto(u, s, r)
             /\ n + 1 > Len(Events[u]) => r.at = "respond"
             /\ n + 1 <= Len(Events[u]) => r.at \in Open /\ r.i = n + 1
  BY <1>1, <1>n, HandleStep DEF Enqueue
<1>a. PICK r : /\ Fits(u, r) /\ Goto(u, s, r)
               /\ n + 1 > Len(Events[u]) => r.at = "respond"
               /\ n + 1 <= Len(Events[u]) => r.at \in Open /\ r.i = n + 1
  BY <1>2
<1>b. r.at \in Open \cup {"respond"} /\ r.at # "enqueue" /\ r.at # "idle"
  BY <1>1, <1>a, EventsType DEF Open
<1>3. /\ UNCHANGED <<paused, expired, convs, customers, stored, acked, dropped, tries, faults>>
      /\ queued' = [queued EXCEPT ![u][n] = @ + 1]
  BY <1>n DEF Enqueue
<1>4. Becomes(u, s, r) /\ \A v \in Updates : v # u => req'[v] = req[v]
  BY <1>0, <1>a, GotoStep DEF Becomes
<1>5. /\ queued'[u] = [queued[u] EXCEPT ![n] = @ + 1]
      /\ \A v \in Updates : v # u => queued'[v] = queued[v]
      /\ queued[u] \in Seq(Nat) /\ Len(queued[u]) = Len(Events[u]) /\ queued[u][n] \in Nat
  BY <1>0, <1>1, <1>3, Counts DEF TypeOK
<1>6. /\ queued'[u] \in Seq(Nat) /\ Len(queued'[u]) = Len(Events[u])
      /\ \A i \in 1..Len(Events[u]) : queued'[u][i] = IF i = n THEN queued[u][i] + 1 ELSE queued[u][i]
  <2>1. queued[u][n] + 1 \in Nat /\ n \in 1..Len(queued[u])
    BY <1>1, <1>5, SMTT(20)
  <2>2. queued'[u] = [queued[u] EXCEPT ![n] = queued[u][n] + 1]
    BY <1>5
  <2> QED
    BY <1>5, <2>1, <2>2, ExceptSeq
<1>8. TypeOK'
  <2>1. /\ req' \in [Updates -> [Slots -> Requests]]
        /\ \A v \in Updates, x \in Slots : req'[v][x].i \in 0..Len(Events[v])
    BY <1>0, <1>a, GotoStep
  <2>2. queued' \in [Updates -> Seq(Nat)] /\ \A v \in Updates : Len(queued'[v]) = Len(Events[v])
    BY <1>0, <1>3, <1>5, <1>6 DEF TypeOK
  <2> QED
    BY <1>0, <1>3, <2>1, <2>2 DEF TypeOK
<1>c. \A i \in 1..Len(Events[u]) : queued[u][i] > 0 \/ i = n => queued'[u][i] > 0
  <2> SUFFICES ASSUME NEW i \in 1..Len(Events[u]), queued[u][i] > 0 \/ i = n
               PROVE  queued'[u][i] > 0
    OBVIOUS
  <2>1. queued[u][i] \in Nat
    BY <1>0, Counts
  <2> QED
    BY <1>6, <2>1
<1>9. RowsAhead(u)'
  <2> SUFFICES ASSUME NEW i \in 1..Len(Events[u])
               PROVE  queued'[u][i] + Committed(u, 1, i)' + Committed(u, 2, i)' <= stored[u][i]
    BY <1>3 DEF RowsAhead
  <2>1. queued[u][i] \in Nat /\ stored[u][i] \in Nat
    BY <1>0, Counts
  <2>2. queued[u][i] + Committed(u, 1, i) + Committed(u, 2, i) <= stored[u][i]
    BY <1>0 DEF UpdateInv, RowsAhead
  <2>3. Committed(u, 1, i)' + Committed(u, 2, i)' + (IF i = n THEN 1 ELSE 0) =
          Committed(u, 1, i) + Committed(u, 2, i)
    BY <1>1, <1>n, <1>b, <1>4 DEF Committed, Becomes, Slots
  <2> QED
    BY <1>6, <2>1, <2>2, <2>3 DEF Committed
<1>d. AllQueued(u, n)'
  <2> SUFFICES ASSUME NEW j \in 1..n PROVE queued'[u][j] > 0
    BY DEF AllQueued
  <2>1. j \in 1..Len(Events[u]) /\ (j = n \/ j \in 1..n - 1)
    BY <1>1, EventsType
  <2> QED
    BY <1>1, <1>c, <2>1 DEF AllQueued
<1>10. Progress(u, s)'
  <2>1. r.at = "respond" => n = Len(Events[u])
    BY <1>1, <1>a, EventsType DEF Open
  <2>2. r.at \in Open => r.i = n + 1
    BY <1>1, <1>a, EventsType DEF Open
  <2> QED
    BY <1>1, <1>b, <1>d, <1>4, <2>1, <2>2, EventsType DEF Progress, Becomes
<1>11. Progress(u, 1)' /\ Progress(u, 2)' /\ Answered(u)'
  BY <1>0, <1>3, <1>4, <1>c, <1>10, OthersKept
<1>12. FaultEach(u)'
  <2> SUFFICES ASSUME IsTelegram(u)
               PROVE  stored[u][1] + Opened(u, 1)' + Opened(u, 2)' <= faults + Free(u)'
    BY <1>3 DEF FaultEach, IsTelegram
  <2>1. stored[u][1] + Opened(u, 1) + Opened(u, 2) <= faults + Free(u)
    BY <1>0 DEF UpdateInv, FaultEach
  <2>2. stored[u][1] \in Nat /\ faults \in Nat
    BY <1>0, FirstCounts
  <2>3. r.at = "respond"
    BY <1>1, <1>a, EventsType
  <2>4. Opened(u, 1)' <= Opened(u, 1) /\ Opened(u, 2)' <= Opened(u, 2)
    BY <1>4, <2>3 DEF Opened, Open, Becomes, Slots
  <2>5. Free(u)' = 1 /\ Free(u) = 1
    BY <1>1, <1>b, <1>4 DEF Free, Active, Becomes, Open
  <2> QED
    BY <2>1, <2>2, <2>4, <2>5 DEF Opened
<1>13. ASSUME NEW v \in Updates, v # u PROVE UpdateInv(v)'
  BY <1>0, <1>3, <1>4, <1>5, <1>13, Elsewhere DEF TypeOK
<1> QED
  BY <1>8, <1>9, <1>11, <1>12, <1>13 DEF UpdateInv

-----------------------------------------------------------------------------
LEMMA InvStep == IInv /\ [Next]_vars => IInv'
<1> SUFFICES ASSUME IInv, [Next]_vars PROVE IInv'
  OBVIOUS
<1>1. ASSUME NEW u \in Updates, NEW s \in Slots, Deliver(u, s) \/ Step(u, s) \/ BreakOff(u, s)
      PROVE  IInv'
  <2>1. TypeOK' /\ UpdateInv(u)' /\ \A v \in Updates : v # u => UpdateInv(v)'
    BY <1>1, DeliverKeeps, InsideKeeps, StoreKeeps, EnqueueKeeps, RespondKeeps, BreakOffKeeps
       DEF Step
  <2> QED
    BY <2>1 DEF IInv
<1>2. ASSUME UNCHANGED <<stored, queued, acked, dropped, req, faults>>, TypeOK' PROVE IInv'
  BY <1>2, Elsewhere DEF IInv
<1>3. ASSUME NEW u \in Updates, Expire(u) PROVE IInv'
  <2>1. TypeOK'
    BY <1>3 DEF Expire, IInv, TypeOK
  <2> QED
    BY <1>2, <1>3, <2>1 DEF Expire
<1>4. CASE SwitchTenant
  <2>1. TypeOK'
    BY <1>4 DEF SwitchTenant, IInv, TypeOK
  <2> QED
    BY <1>2, <1>4, <2>1 DEF SwitchTenant
<1>5. CASE UNCHANGED vars
  <2>1. TypeOK'
    BY <1>5 DEF vars, IInv, TypeOK
  <2> QED
    BY <1>2, <1>5, <2>1 DEF vars
<1> QED
  BY <1>1, <1>3, <1>4, <1>5 DEF Next

LEMMA InvHolds == Spec => []IInv
  BY InvInit, InvStep, PTL DEF Spec

(* The tables, the queue and the requests keep their types, through every  *)
(* failed and repeated delivery.                                           *)
THEOREM TypeCorrect == Spec => []TypeOK
  BY InvHolds, PTL DEF IInv

LEMMA InvImplies == IInv => JobHasMessage /\ AckedIsQueued /\ StoredOncePerFault
<1> SUFFICES ASSUME IInv PROVE JobHasMessage /\ AckedIsQueued /\ StoredOncePerFault
  OBVIOUS
<1>0. TypeOK /\ \A u \in Updates : UpdateInv(u)
  BY DEF IInv
<1>1. JobHasMessage
  <2> SUFFICES ASSUME NEW u \in Updates, NEW i \in 1..Len(Events[u])
               PROVE  queued[u][i] <= stored[u][i]
    BY EventsType DEF JobHasMessage
  <2>1. queued[u][i] + Committed(u, 1, i) + Committed(u, 2, i) <= stored[u][i]
    BY <1>0 DEF UpdateInv, RowsAhead
  <2> QED
    BY <1>0, <2>1, Counts DEF Committed
<1>2. AckedIsQueued
  <2>1. acked \subseteq Updates
    BY <1>0 DEF TypeOK
  <2> QED
    BY <1>0, <2>1, EventsType DEF AckedIsQueued, UpdateInv, Answered, AllQueued
<1>3. StoredOncePerFault
  <2> SUFFICES ASSUME NEW u \in Updates, IsTelegram(u) PROVE stored[u][1] <= 1 + faults
    BY DEF StoredOncePerFault
  <2>1. stored[u][1] + Opened(u, 1) + Opened(u, 2) <= faults + Free(u)
    BY <1>0 DEF UpdateInv, FaultEach
  <2> QED
    BY <1>0, <2>1, FirstCounts DEF Opened, Free
<1> QED
  BY <1>1, <1>2, <1>3

(* process_update and _process_*: the commit comes before enqueue_job, so  *)
(* however deliveries overlap, no job finds its message missing.           *)
THEOREM JobsFindMessages == Spec => []JobHasMessage
  BY InvHolds, InvImplies, PTL

(* The 200 of a webhook comes behind the last enqueue_job of its update.   *)
THEOREM AckedOnlyQueued == Spec => []AckedIsQueued
  BY InvHolds, InvImplies, PTL

(* Refused deliveries roll their message back: any number of updates of    *)
(* one chat colliding stores none of them twice without a fault.           *)
THEOREM StoredPerFault == Spec => []StoredOncePerFault
  BY InvHolds, InvImplies, PTL
=============================================================================

--------------------------- MODULE LlmSpendProofs ---------------------------
(***************************************************************************)
(* Proofs about LlmSpend for every number of callers, price, budget and    *)
(* number of days: the types, the bound on a day's recorded spend, that a  *)
(* day's budget check never reopens, and that every charge is accounted    *)
(* for.                                                                    *)
(***************************************************************************)
EXTENDS LlmSpend, FiniteSetTheorems, WellFoundedInduction, TLAPS

Room == budget + MaxCost * Cardinality(Callers)

(* A budget check never sums from a day that has not come, and no row is   *)
(* dated by one.                                                           *)
SinceIsPast == \A c \in Callers : chat[c].since <= day

(* Rows are dated by the current day or an earlier one. *)
FutureIsEmpty == \A d \in Days : d > day => spent[d] = 0

(* Callers in flight whose row will be dated d, as far as is known.        *)
Claims == [d \in Days |-> {c \in InFlight :
             IF chat[c].at = "commit" THEN chat[c].since = d ELSE d = day}]

(* The callers in flight were admitted below the budget; each of them may  *)
(* still add one dearest call to the day it has claimed.                   *)
RoomForInFlight ==
  budget # NoBudget =>
    /\ \A d \in Days : spent[d] + MaxCost * Cardinality(Claims[d]) < Room
    /\ budget = 0 => InFlight = {}

IInv == TypeOK /\ SinceIsPast /\ FutureIsEmpty /\ RoomForInFlight

-----------------------------------------------------------------------------
(* The value a step gives to the locals of its caller. *)
LEMMA ChatUpdate ==
  ASSUME TypeOK, NEW c \in Callers, NEW r \in Chats
  PROVE  [chat EXCEPT ![c] = r] \in [Callers -> Chats]
  BY DEF TypeOK

LEMMA NoChatType == NoChat \in Chats
  BY BoundsAssumption, CostAssumption DEF NoChat, Chats, Days, Costs, Kinds

(* A chat that was just begun. *)
LEMMA BegunType ==
  ASSUME TypeOK, NEW k \in Kinds
  PROVE  [at |-> IF budget = NoBudget THEN Admitted(k) ELSE "check",
          kind |-> k, since |-> day, sum |-> 0, attempt |-> 0, sent |-> 0, cost |-> 0] \in Chats
  BY BoundsAssumption, CostAssumption DEF Chats, TypeOK, Costs, Admitted

(* What the query sums up is a number. *)
LEMMA SumType ==
  ASSUME TypeOK, NEW d \in Days
  PROVE  SpentSince(d) \in Nat
  BY DEF TypeOK, SpentSince

(* The fields of a chat, and how the steps update them. *)
LEMMA Fields ==
  ASSUME NEW r \in Chats
  PROVE  /\ r.at \in {"idle", "check", "compare", "ready", "call", "write", "commit"}
         /\ r.kind \in Kinds /\ r.since \in Days /\ r.sum \in Nat /\ r.cost \in Costs
         /\ r.attempt \in 0..(MaxAttempts - 1) /\ r.sent \in 0..(MaxSends - 1)
  BY DEF Chats

(* The query's answer. *)
LEMMA ReadMoves ==
  ASSUME TypeOK, NEW c \in Callers, ReadSum(c)
  PROVE  \E r \in Chats :
           /\ chat' = [chat EXCEPT ![c] = r]
           /\ r.at = "compare" /\ r.sum = SpentSince(chat[c].since)
           /\ r.since = chat[c].since /\ r.cost = chat[c].cost
<1> DEFINE r == [chat[c] EXCEPT !.at = "compare", !.sum = SpentSince(chat[c].since)]
<1>1. chat[c] \in Chats
  BY DEF TypeOK
<1>2. SpentSince(chat[c].since) \in Nat
  BY <1>1, Fields, SumType
<1>3. chat' = [chat EXCEPT ![c] = r]
  BY DEF ReadSum
<1>4. /\ r \in Chats /\ r.at = "compare" /\ r.sum = SpentSince(chat[c].since)
      /\ r.since = chat[c].since /\ r.cost = chat[c].cost
  BY <1>1, <1>2 DEF Chats
<1> QED
  BY <1>3, <1>4

(* The comparison refuses, or admits a sum below the budget. *)
LEMMA CheckMoves ==
  ASSUME TypeOK, NEW c \in Callers, CheckBudget(c)
  PROVE  \/ chat' = [chat EXCEPT ![c] = NoChat]
         \/ /\ ~ (chat[c].sum >= budget)
            /\ \E r \in Chats : /\ chat' = [chat EXCEPT ![c] = r]
                                 /\ r.at \in {"ready", "call"}
                                 /\ r.since = chat[c].since /\ r.cost = chat[c].cost
<1>1. CASE chat[c].sum >= budget \/ DecimalBudget
  BY <1>1 DEF CheckBudget, TypeOK
<1>2. CASE ~ (chat[c].sum >= budget \/ DecimalBudget)
  <2> DEFINE r == [chat[c] EXCEPT !.at = Admitted(chat[c].kind), !.sum = 0]
  <2>1. chat' = [chat EXCEPT ![c] = r]
    BY <1>2 DEF CheckBudget, TypeOK
  <2>2. chat[c] \in Chats /\ Admitted(chat[c].kind) \in {"ready", "call"}
    BY DEF TypeOK, Admitted
  <2>3. r \in Chats /\ r.at \in {"ready", "call"} /\ r.since = chat[c].since
        /\ r.cost = chat[c].cost
    BY <2>2 DEF Chats
  <2> QED
    BY <1>2, <2>1, <2>3
<1> QED
  BY <1>1, <1>2

(* A stream that starts, a request sent again, an attempt made again.      *)
LEMMA CallMoves ==
  ASSUME TypeOK, NEW c \in Callers,
         StartStream(c) \/ \E x \in Costs : Resend(c, x) \/ Retry(c, x)
  PROVE  \E r \in Chats : /\ chat' = [chat EXCEPT ![c] = r]
                          /\ r.at = "call" /\ chat[c].at \in {"ready", "call"}
                          /\ r.since = chat[c].since /\ r.cost = chat[c].cost
<1>0. chat[c] \in Chats
  BY DEF TypeOK
<1>1. CASE StartStream(c)
  <2> DEFINE r == [chat[c] EXCEPT !.at = "call"]
  <2>1. chat' = [chat EXCEPT ![c] = r] /\ chat[c].at = "ready"
    BY <1>1 DEF StartStream
  <2>2. r \in Chats /\ r.at = "call" /\ r.since = chat[c].since /\ r.cost = chat[c].cost
    BY <1>0 DEF Chats
  <2> QED
    BY <2>1, <2>2
<1>2. ASSUME NEW x \in Costs, Resend(c, x) \/ Retry(c, x)
      PROVE  \E r \in Chats : /\ chat' = [chat EXCEPT ![c] = r]
                              /\ r.at = "call" /\ chat[c].at \in {"ready", "call"}
                              /\ r.since = chat[c].since /\ r.cost = chat[c].cost
  <2>1. PICK m \in 0..(MaxAttempts - 1), n \in 0..(MaxSends - 1) :
          /\ chat' = [chat EXCEPT ![c] = [@ EXCEPT !.attempt = m, !.sent = n]]
          /\ chat[c].at = "call"
    <3>1. CASE Resend(c, x)
      <4>1. chat[c].sent + 1 \in 0..(MaxSends - 1) /\ chat[c].attempt \in 0..(MaxAttempts - 1)
        BY <1>0, <3>1, Fields, BoundsAssumption DEF Resend
      <4>2. [chat[c] EXCEPT !.sent = @ + 1]
              = [chat[c] EXCEPT !.attempt = chat[c].attempt, !.sent = chat[c].sent + 1]
        BY <1>0 DEF Chats
      <4> QED
        BY <3>1, <4>1, <4>2 DEF Resend
    <3>2. CASE Retry(c, x)
      <4>1. chat[c].attempt + 1 \in 0..(MaxAttempts - 1) /\ 0 \in 0..(MaxSends - 1)
        BY <1>0, <3>2, Fields, BoundsAssumption DEF Retry
      <4> QED
        BY <3>2, <4>1 DEF Retry
    <3> QED
      BY <1>2, <3>1, <3>2
  <2> DEFINE r == [chat[c] EXCEPT !.attempt = m, !.sent = n]
  <2>2. r \in Chats /\ r.at = "call" /\ r.since = chat[c].since /\ r.cost = chat[c].cost
    BY <1>0, <2>1 DEF Chats
  <2> QED
    BY <2>1, <2>2
<1> QED
  BY <1>1, <1>2

(* A call that ends has cost seen, the rest of its charge is lost.         *)
LEMMA EndMoves ==
  ASSUME TypeOK, NEW c \in Callers, NEW x \in Costs,
         BreakOff(c, x) \/ \E priced \in BOOLEAN : Answer(c, x, priced)
  PROVE  \E r \in Chats :
           /\ chat' = [chat EXCEPT ![c] = r] /\ chat[c].at = "call"
           /\ r.at = "write" /\ r.since = chat[c].since /\ r.cost \in 0..x
           /\ billed' = billed + x /\ lost' = lost + x - r.cost
<1>0. chat[c] \in Chats /\ lost \in Nat /\ x \in Nat /\ 0 \in Costs
  BY CostAssumption DEF TypeOK, Costs
<1>1. PICK seen \in Costs :
        /\ seen \in 0..x
        /\ chat' = [chat EXCEPT ![c] = [@ EXCEPT !.at = "write", !.cost = seen]]
        /\ chat[c].at = "call" /\ billed' = billed + x /\ lost' = lost + x - seen
  <2>1. CASE BreakOff(c, x)
    <3>1. 0 \in 0..x /\ lost + x = lost + x - 0
      BY <1>0
    <3> QED
      BY <1>0, <2>1, <3>1 DEF BreakOff, EnterFinally, Lose
  <2>2. ASSUME NEW priced \in BOOLEAN, Answer(c, x, priced)
        PROVE  \E seen \in Costs :
                 /\ seen \in 0..x
                 /\ chat' = [chat EXCEPT ![c] = [@ EXCEPT !.at = "write", !.cost = seen]]
                 /\ chat[c].at = "call" /\ billed' = billed + x /\ lost' = lost + x - seen
    <3>1. ComputeCost(x, priced) \in Costs /\ ComputeCost(x, priced) \in 0..x
      BY <1>0 DEF ComputeCost
    <3> QED
      BY <2>2, <3>1 DEF Answer, EnterFinally
  <2> QED
    BY <2>1, <2>2
<1> DEFINE r == [chat[c] EXCEPT !.at = "write", !.cost = seen]
<1>2. r \in Chats /\ r.at = "write" /\ r.since = chat[c].since /\ r.cost = seen
  BY <1>0 DEF Chats
<1> HIDE DEF r
<1> QED
  BY <1>1, <1>2 DEF r

(* The transaction of the row begins. *)
LEMMA DateMoves ==
  ASSUME TypeOK, NEW c \in Callers, OpenWrite(c)
  PROVE  \E r \in Chats : /\ chat' = [chat EXCEPT ![c] = r] /\ chat[c].at = "write"
                          /\ r.at = "commit" /\ r.since = day /\ r.cost = chat[c].cost
<1> DEFINE r == [chat[c] EXCEPT !.at = "commit", !.since = day]
<1>1. chat[c] \in Chats /\ day \in Days
  BY DEF TypeOK
<1>2. r \in Chats /\ r.at = "commit" /\ r.since = day /\ r.cost = chat[c].cost
  BY <1>1 DEF Chats
<1> QED
  BY <1>2 DEF OpenWrite

(* Every step keeps the types. *)
LEMMA TypeStep == TypeOK /\ [Next]_vars => TypeOK'
<1> SUFFICES ASSUME TypeOK, [Next]_vars PROVE TypeOK'
  OBVIOUS
<1>0. \A c \in Callers : chat[c] \in Chats
  BY DEF TypeOK
<1>1. ASSUME NEW c \in Callers, NEW k \in Kinds, Begin(c, k) PROVE TypeOK'
  <2>1. chat' \in [Callers -> Chats]
    BY <1>1, BegunType, ChatUpdate DEF Begin
  <2> QED
    BY <1>1, <2>1 DEF Begin, TypeOK
<1>2. ASSUME NEW c \in Callers, ReadSum(c) \/ CheckBudget(c) \/ StartStream(c) \/ OpenWrite(c)
      PROVE  TypeOK'
  <2>1. chat' \in [Callers -> Chats]
    BY <1>2, ReadMoves, CheckMoves, CallMoves, DateMoves, NoChatType, ChatUpdate
  <2> QED
    BY <1>2, <2>1 DEF ReadSum, CheckBudget, StartStream, OpenWrite, TypeOK
<1>3. ASSUME NEW c \in Callers, Abandon(c) PROVE TypeOK'
  BY <1>3, NoChatType DEF Abandon, TypeOK
<1>4. ASSUME NEW c \in Callers, NEW x \in Costs, Resend(c, x) \/ Retry(c, x) PROVE TypeOK'
  <2>1. chat' \in [Callers -> Chats]
    BY <1>4, CallMoves, ChatUpdate
  <2> QED
    BY <1>4, <2>1, CostAssumption DEF Resend, Retry, Lose, TypeOK, Costs
<1>5. ASSUME NEW c \in Callers, NEW x \in Costs,
             BreakOff(c, x) \/ \E priced \in BOOLEAN : Answer(c, x, priced)
      PROVE  TypeOK'
  <2>1. PICK r \in Chats : /\ chat' = [chat EXCEPT ![c] = r] /\ r.cost \in 0..x
                           /\ billed' = billed + x /\ lost' = lost + x - r.cost
    BY <1>5, EndMoves
  <2>2. chat' \in [Callers -> Chats]
    BY <2>1, ChatUpdate
  <2>3. UNCHANGED <<budget, day, spent, chats>>
    BY <1>5 DEF BreakOff, Answer
  <2>4. billed' \in Nat /\ lost' \in Nat
    BY <2>1, CostAssumption DEF TypeOK, Costs
  <2> QED
    BY <2>2, <2>3, <2>4 DEF TypeOK
<1>6. ASSUME NEW c \in Callers, WriteRow(c) PROVE TypeOK'
  <2>1. chat[c].cost \in Nat /\ chat[c].since \in Days
    BY <1>0, Fields, CostAssumption DEF Costs
  <2>2. spent' \in [Days -> Nat]
    BY <1>6, <2>1 DEF WriteRow, TypeOK
  <2> QED
    BY <1>6, <2>2, NoChatType DEF WriteRow, TypeOK
<1>7. ASSUME NEW c \in Callers, WriteFails(c) PROVE TypeOK'
  <2>1. chat[c].cost \in Nat
    BY <1>0, Fields, CostAssumption DEF Costs
  <2> QED
    BY <1>7, <2>1, NoChatType DEF WriteFails, TypeOK
<1>8. CASE NextDay
  BY <1>8, BoundsAssumption DEF NextDay, TypeOK, Days
<1>9. CASE UNCHANGED vars
  BY <1>9 DEF vars, TypeOK
<1> QED
  BY <1>1, <1>2, <1>3, <1>4, <1>5, <1>6, <1>7, <1>8, <1>9 DEF Next, Step

LEMMA TypeInit == Init => TypeOK
  BY BudgetsAssumption, CostAssumption, BoundsAssumption
     DEF Init, TypeOK, Days, Costs, Kinds, Chats, NoChat

(* The variables of the meter keep their types: in particular the recorded *)
(* cost of a chat never exceeds the dearest call.                          *)
THEOREM TypeCorrect == Spec => []TypeOK
  BY TypeInit, TypeStep, PTL DEF Spec
-----------------------------------------------------------------------------
(* Products of the price and a number of callers, for the provers. *)
LEMMA Monotone ==
  ASSUME NEW m \in Nat, NEW a \in Nat, NEW b \in Nat, a <= b
  PROVE  m * a \in Nat /\ m * b \in Nat /\ m * a <= m * b
  OBVIOUS

LEMMA OneLess ==
  ASSUME NEW m \in Nat, NEW a \in Nat, a > 0
  PROVE  m * (a - 1) \in Nat /\ m * (a - 1) = m * a - m
  OBVIOUS

LEMMA CountBounds ==
  ASSUME NEW S \in SUBSET Callers
  PROVE  /\ IsFiniteSet(S)
         /\ Cardinality(S) \in Nat /\ Cardinality(Callers) \in Nat \ {0}
         /\ Cardinality(S) <= Cardinality(Callers)
  BY CallersAssumption, FS_Subset, FS_CardinalityType, FS_EmptySet

(* A day's recorded spend as the numbers of the argument. *)
LEMMA Numbers ==
  ASSUME TypeOK, budget # NoBudget
  PROVE  /\ budget \in Nat /\ MaxCost \in Nat \ {0} /\ day \in Days
         /\ \A d \in Days : spent[d] \in Nat
         /\ \A c \in Callers : chat[c] \in Chats /\ chat[c].cost \in 0..MaxCost
         /\ Room \in Nat /\ budget < Room /\ 0 < Room
<1>1. {} \in SUBSET Callers
  OBVIOUS
<1>2. budget \in Nat /\ MaxCost \in Nat \ {0} /\ day \in Days
  BY BudgetsAssumption, CostAssumption DEF TypeOK
<1>3. \A d \in Days : spent[d] \in Nat
  BY DEF TypeOK
<1>4. \A c \in Callers : chat[c] \in Chats /\ chat[c].cost \in 0..MaxCost
  BY DEF TypeOK, Chats, Costs
<1>5. MaxCost * Cardinality(Callers) \in Nat /\ MaxCost * Cardinality(Callers) > 0
  BY <1>1, <1>2, CountBounds, Monotone
<1> QED
  BY <1>2, <1>3, <1>4, <1>5 DEF Room

(* What a set of claims amounts to. *)
LEMMA ClaimsBounds ==
  ASSUME NEW S \in SUBSET Callers, NEW T \in SUBSET S
  PROVE  /\ MaxCost * Cardinality(S) \in Nat /\ MaxCost * Cardinality(T) \in Nat
         /\ MaxCost * Cardinality(T) <= MaxCost * Cardinality(S)
<1>1. /\ Cardinality(S) \in Nat /\ Cardinality(T) \in Nat
      /\ Cardinality(T) <= Cardinality(S)
  BY CountBounds, FS_Subset
<1> QED
  BY <1>1, Monotone, CostAssumption

(* The room of a day, after a step that leaves its rows and adds no claim. *)
LEMMA DayKept ==
  ASSUME TypeOK, TypeOK', budget # NoBudget, budget' = budget, RoomForInFlight, NEW d \in Days,
         spent'[d] = spent[d], Claims'[d] \subseteq Claims[d]
  PROVE  spent'[d] + MaxCost * Cardinality(Claims'[d]) < Room'
<1>1. Claims[d] \in SUBSET Callers /\ Claims'[d] \in SUBSET Claims[d]
  BY DEF Claims, InFlight
<1>2. /\ MaxCost * Cardinality(Claims[d]) \in Nat /\ MaxCost * Cardinality(Claims'[d]) \in Nat
      /\ MaxCost * Cardinality(Claims'[d]) <= MaxCost * Cardinality(Claims[d])
  BY <1>1, ClaimsBounds
<1>3. spent[d] \in Nat /\ Room \in Nat /\ Room' = Room
  BY Numbers DEF Room
<1>4. spent[d] + MaxCost * Cardinality(Claims[d]) < Room
  BY DEF RoomForInFlight
<1> QED
  BY <1>2, <1>3, <1>4

(* A step that admits nobody, moves no claim to another day and records    *)
(* nothing leaves the room as it was.                                      *)
LEMMA RoomKept ==
  ASSUME IInv, TypeOK', UNCHANGED <<budget, spent>>, InFlight' \subseteq InFlight,
         \A d \in Days : Claims'[d] \subseteq Claims[d]
  PROVE  RoomForInFlight'
<1> SUFFICES ASSUME budget # NoBudget
             PROVE  /\ \A d \in Days : spent'[d] + MaxCost * Cardinality(Claims'[d]) < Room'
                    /\ budget = 0 => InFlight' = {}
  BY DEF RoomForInFlight, Days
<1>1. \A d \in Days : spent'[d] + MaxCost * Cardinality(Claims'[d]) < Room'
  BY DayKept DEF IInv
<1> QED
  BY <1>1 DEF IInv, RoomForInFlight

(* The locals of a caller, updated, decide whether it is in flight and     *)
(* what it claims.                                                         *)
Flies(r) == \/ r.at \in {"ready", "call", "write", "commit"}
            \/ r.at = "compare" /\ r.sum < budget
Dated(r, d) == IF r.at = "commit" THEN r.since = d ELSE d = day

LEMMA FlightUpdate ==
  ASSUME TypeOK, NEW c \in Callers, NEW r, chat' = [chat EXCEPT ![c] = r],
         UNCHANGED <<budget, day>>
  PROVE  /\ InFlight' = IF Flies(r) THEN InFlight \cup {c} ELSE InFlight \ {c}
         /\ \A d \in Days : Claims'[d] = IF Flies(r) /\ Dated(r, d)
                                  THEN Claims[d] \cup {c} ELSE Claims[d] \ {c}
  BY DEF TypeOK, InFlight, Claims, Flies, Dated

(* A caller that is not in flight any more adds nothing. *)
LEMMA Landed ==
  ASSUME TypeOK, NEW c \in Callers, NEW r, chat' = [chat EXCEPT ![c] = r],
         UNCHANGED <<budget, day>>, ~Flies(r)
  PROVE  InFlight' \subseteq InFlight /\ \A d \in Days : Claims'[d] \subseteq Claims[d]
<1>1. InFlight' = InFlight \ {c} /\ \A d \in Days : Claims'[d] = Claims[d] \ {c}
  BY FlightUpdate
<1> QED
  BY <1>1

(* A caller in flight that claims no other day adds nothing. *)
LEMMA Contained ==
  ASSUME TypeOK, NEW c \in Callers, NEW r, chat' = [chat EXCEPT ![c] = r],
         UNCHANGED <<budget, day>>, c \in InFlight, c \in Claims[day],
         \A d \in Days : Dated(r, d) => d = day
  PROVE  InFlight' \subseteq InFlight /\ \A d \in Days : Claims'[d] \subseteq Claims[d]
<1>1. /\ InFlight' = IF Flies(r) THEN InFlight \cup {c} ELSE InFlight \ {c}
      /\ \A d \in Days : Claims'[d] = IF Flies(r) /\ Dated(r, d)
                               THEN Claims[d] \cup {c} ELSE Claims[d] \ {c}
  BY FlightUpdate
<1>2. ASSUME NEW d \in Days PROVE Claims'[d] \subseteq Claims[d]
  <2>1. CASE d = day
    BY <1>1, <2>1
  <2>2. CASE d # day
    BY <1>1, <2>2
  <2> QED
    BY <2>1, <2>2
<1> QED
  BY <1>1, <1>2

LEMMA InvInit == Init => IInv
<1> SUFFICES ASSUME Init PROVE IInv
  OBVIOUS
<1>1. TypeOK
  BY TypeInit
<1>2. SinceIsPast /\ FutureIsEmpty
  BY BoundsAssumption DEF Init, SinceIsPast, FutureIsEmpty, NoChat, Days
<1>3. InFlight = {}
  BY DEF Init, InFlight, NoChat
<1>4. RoomForInFlight
  <2> SUFFICES ASSUME budget # NoBudget PROVE RoomForInFlight
    BY DEF RoomForInFlight
  <2>1. \A d \in Days : Claims[d] = {}
    BY <1>3 DEF Claims
  <2>2. \A d \in Days : MaxCost * Cardinality(Claims[d]) = 0
    BY <2>1, FS_EmptySet, CostAssumption
  <2>3. Room \in Nat /\ 0 < Room
    BY <1>1, Numbers
  <2> QED
    BY <1>3, <2>2, <2>3 DEF Init, RoomForInFlight
<1> QED
  BY <1>1, <1>2, <1>4 DEF IInv

(* A budget check lets its caller through only while what it sums, and so  *)
(* what is recorded for the current day, is below the budget.              *)
LEMMA SeesToday ==
  ASSUME IInv, budget # NoBudget, NEW c \in Callers
  PROVE  /\ spent[day] \in Nat /\ SpentSince(chat[c].since) \in Nat
         /\ spent[day] <= SpentSince(chat[c].since)
<1>1. chat[c].since \in Days /\ day \in Days /\ spent \in [Days -> Nat]
  BY DEF IInv, TypeOK, Chats
<1>2. chat[c].since <= day
  BY DEF IInv, SinceIsPast
<1>3. CASE chat[c].since < day
  BY <1>1, <1>3 DEF SpentSince, Days
<1>4. CASE chat[c].since = day
  BY <1>1, <1>4 DEF SpentSince, Days
<1> QED
  BY <1>1, <1>2, <1>3, <1>4, BoundsAssumption DEF Days

LEMMA CheckStep ==
  ASSUME IInv, NEW c \in Callers, ReadSum(c), budget # NoBudget
  PROVE  \/ InFlight' \subseteq InFlight /\ \A d \in Days : Claims'[d] \subseteq Claims[d]
         \/ /\ SpentSince(chat[c].since) < budget
            /\ \A d \in Days \ {day} : Claims'[d] = Claims[d]
<1>1. PICK r \in Chats : /\ chat' = [chat EXCEPT ![c] = r]
                         /\ r.at = "compare" /\ r.sum = SpentSince(chat[c].since)
  BY ReadMoves DEF IInv
<1>2. UNCHANGED <<budget, day>> /\ \A d \in Days : c \notin Claims[d]
  BY DEF ReadSum, Claims, InFlight
<1>3. /\ InFlight' = IF Flies(r) THEN InFlight \cup {c} ELSE InFlight \ {c}
      /\ \A d \in Days : Claims'[d] = IF Flies(r) /\ Dated(r, d)
                               THEN Claims[d] \cup {c} ELSE Claims[d] \ {c}
  BY <1>1, <1>2, FlightUpdate DEF IInv
<1>4. \A d \in Days \ {day} : ~Dated(r, d)
  BY <1>1 DEF Dated
<1>5. CASE Flies(r)
  <2>1. SpentSince(chat[c].since) < budget
    BY <1>1, <1>5 DEF Flies
  <2>2. ASSUME NEW d \in Days \ {day} PROVE Claims'[d] = Claims[d]
    <3>1. Claims'[d] = Claims[d] \ {c} /\ c \notin Claims[d]
      BY <1>2, <1>3, <1>4
    <3> QED
      BY <3>1
  <2> QED
    BY <2>1, <2>2
<1>6. CASE ~Flies(r)
  BY <1>3, <1>6
<1> QED
  BY <1>5, <1>6

(* The row adds no more to its day than the room its caller gives up.      *)
LEMMA WriteStep ==
  ASSUME IInv, TypeOK', NEW c \in Callers, WriteRow(c)
  PROVE  RoomForInFlight'
<1> SUFFICES ASSUME budget # NoBudget
             PROVE  /\ \A d \in Days : spent'[d] + MaxCost * Cardinality(Claims'[d]) < Room
                    /\ budget = 0 => InFlight' = {}
  BY DEF WriteRow, RoomForInFlight, Room, Days
<1> DEFINE e == chat[c].since
<1>0. IInv /\ TypeOK /\ e \in Days /\ UNCHANGED <<budget, day>>
  BY DEF IInv, TypeOK, Chats, WriteRow
<1>1. /\ InFlight' = InFlight \ {c}
      /\ \A d \in Days : Claims'[d] = Claims[d] \ {c}
  <2>1. chat' = [chat EXCEPT ![c] = NoChat] /\ ~Flies(NoChat)
    BY DEF WriteRow, NoChat, Flies
  <2> QED
    BY <1>0, <2>1, FlightUpdate
<1>2. Claims[e] \in SUBSET Callers /\ c \in Claims[e]
  BY <1>0 DEF Claims, InFlight, WriteRow
<1>3. /\ Cardinality(Claims[e]) \in Nat /\ Cardinality(Claims[e]) > 0
      /\ Cardinality(Claims'[e]) = Cardinality(Claims[e]) - 1
  <2> DEFINE S == Claims[e]
  <2>1. S \in SUBSET Callers /\ c \in S /\ Claims'[e] = S \ {c}
    BY <1>0, <1>1, <1>2
  <2> HIDE DEF S
  <2>2. IsFiniteSet(S) /\ Cardinality(S) \in Nat /\ Cardinality(S) > 0
    BY <2>1, CountBounds, FS_EmptySet
  <2>3. Cardinality(S \ {c}) = Cardinality(S) - 1
    BY <2>1, <2>2, FS_RemoveElement
  <2> QED
    BY <2>1, <2>2, <2>3 DEF S
<1>4. /\ MaxCost * Cardinality(Claims'[e]) = MaxCost * Cardinality(Claims[e]) - MaxCost
      /\ MaxCost * Cardinality(Claims[e]) \in Nat
  BY <1>2, <1>3, OneLess, ClaimsBounds, CostAssumption
<1>5. /\ spent[e] \in Nat /\ chat[c].cost \in 0..MaxCost /\ MaxCost \in Nat /\ Room \in Nat
  BY <1>0, Numbers
<1>6. /\ spent'[e] = spent[e] + chat[c].cost
      /\ \A d \in Days : d # e => spent'[d] = spent[d]
  BY <1>0 DEF WriteRow, TypeOK
<1>7. /\ spent[e] + MaxCost * Cardinality(Claims[e]) < Room
      /\ budget = 0 => InFlight = {}
  BY <1>0 DEF IInv, RoomForInFlight
<1>8. spent'[e] + MaxCost * Cardinality(Claims'[e]) < Room
  BY <1>4, <1>5, <1>6, <1>7
<1>9. \A d \in Days : d # e => spent'[d] + MaxCost * Cardinality(Claims'[d]) < Room'
  BY <1>0, <1>1, <1>6, DayKept DEF IInv
<1>10. Room' = Room
  BY <1>0 DEF Room
<1> QED
  BY <1>1, <1>7, <1>8, <1>9, <1>10

(* At midnight the new day starts from nothing, with the claims of the     *)
(* callers in flight that the old day admitted.                            *)
LEMMA MidnightStep ==
  ASSUME IInv, TypeOK', NextDay
  PROVE  RoomForInFlight'
<1> SUFFICES ASSUME budget # NoBudget
             PROVE  /\ \A d \in Days : spent'[d] + MaxCost * Cardinality(Claims'[d]) < Room'
                    /\ budget = 0 => InFlight' = {}
  BY DEF NextDay, RoomForInFlight, Days
<1>0. TypeOK /\ UNCHANGED <<budget, spent, chat>> /\ InFlight' = InFlight /\ Room' = Room
  BY DEF NextDay, InFlight, Room, IInv
<1>1. day' \in Days /\ day' > day
  BY BoundsAssumption DEF NextDay, IInv, TypeOK, Days
<1>2. spent[day'] = 0
  BY <1>1 DEF IInv, FutureIsEmpty
<1>3. budget = 0 => InFlight = {}
  BY DEF IInv, RoomForInFlight
<1>4. ASSUME NEW d \in Days, d # day' PROVE spent'[d] + MaxCost * Cardinality(Claims'[d]) < Room'
  <2>1. Claims'[d] \subseteq Claims[d]
    BY <1>0, <1>4 DEF Claims
  <2> QED
    BY <1>0, <2>1, DayKept DEF IInv
<1>5. ASSUME NEW d \in Days, d = day' PROVE spent'[d] + MaxCost * Cardinality(Claims'[d]) < Room'
  <2> DEFINE S == Claims'[d]
  <2>1. S \in SUBSET Callers /\ Callers \in SUBSET Callers /\ S \in SUBSET InFlight
    BY <1>0 DEF Claims, InFlight
  <2>2. budget \in Nat /\ Room \in Nat /\ 0 < Room
    BY <1>0, Numbers
  <2>3. /\ MaxCost * Cardinality(S) \in Nat /\ MaxCost * Cardinality(Callers) \in Nat
        /\ MaxCost * Cardinality(S) <= MaxCost * Cardinality(Callers)
    BY <2>1, ClaimsBounds
  <2>4. MaxCost * Cardinality(S) < Room
    <3>1. CASE budget = 0
      <4>1. MaxCost * Cardinality(S) = 0
        BY <1>3, <2>1, <3>1, FS_EmptySet, CostAssumption
      <4> QED
        BY <2>2, <4>1
    <3>2. CASE budget > 0
      BY <2>2, <2>3, <3>2 DEF Room
    <3> QED
      BY <2>2, <3>1, <3>2
  <2>5. spent'[d] = 0
    BY <1>0, <1>2, <1>5
  <2> HIDE DEF S
  <2>6. spent'[d] + MaxCost * Cardinality(S) < Room'
    BY <1>0, <2>3, <2>4, <2>5
  <2> QED
    BY <2>6 DEF S
<1> QED
  BY <1>0, <1>3, <1>4, <1>5

(* An admission below the budget: even if every caller is now in flight,   *)
(* the room suffices, for what is recorded is below the budget.            *)
LEMMA AdmitStep ==
  ASSUME IInv, TypeOK', NEW c \in Callers, ReadSum(c)
  PROVE  RoomForInFlight'
<1>0. UNCHANGED <<budget, day, spent>> /\ TypeOK /\ day \in Days
  BY DEF ReadSum, IInv, TypeOK
<1>1. CASE budget = NoBudget
  BY <1>0, <1>1 DEF RoomForInFlight
<1>2. CASE budget # NoBudget /\ InFlight' \subseteq InFlight /\ \A d \in Days : Claims'[d] \subseteq Claims[d]
  BY <1>0, <1>2, RoomKept
<1>3. CASE /\ budget # NoBudget
           /\ SpentSince(chat[c].since) < budget
           /\ \A d \in Days \ {day} : Claims'[d] = Claims[d]
  <2> DEFINE S == Claims'[day]
  <2>0. S \subseteq InFlight'
    BY <1>0 DEF Claims
  <2>1. S \in SUBSET Callers /\ Callers \in SUBSET Callers
    BY <2>0 DEF InFlight
  <2>2. /\ MaxCost * Cardinality(S) \in Nat /\ MaxCost * Cardinality(Callers) \in Nat
        /\ MaxCost * Cardinality(S) <= MaxCost * Cardinality(Callers)
    BY <2>1, ClaimsBounds
  <2>3. budget \in Nat /\ spent[day] \in Nat /\ spent[day] < budget
    BY <1>0, <1>3, SeesToday, Numbers
  <2> HIDE DEF S
  <2>4. spent[day] + MaxCost * Cardinality(S) < Room
    BY <2>2, <2>3 DEF Room
  <2>5. \A d \in Days \ {day} : spent'[d] + MaxCost * Cardinality(Claims'[d]) < Room'
    BY <1>0, <1>3, DayKept DEF IInv
  <2>6. \A d \in Days : spent'[d] + MaxCost * Cardinality(Claims'[d]) < Room'
    BY <1>0, <2>4, <2>5 DEF S, Room
  <2> QED
    BY <1>0, <2>3, <2>6 DEF RoomForInFlight, Days
<1> QED
  BY <1>1, <1>2, <1>3, CheckStep

(* The other steps of a caller move its chat within the callers in flight, *)
(* or out of them, and its claim not to another day.                       *)
LEMMA FlightShrinks ==
  ASSUME IInv, NEW c \in Callers,
         \/ CheckBudget(c) /\ budget # NoBudget
         \/ Abandon(c) \/ StartStream(c) \/ OpenWrite(c) \/ WriteRow(c) \/ WriteFails(c)
         \/ \E x \in Costs : Resend(c, x) \/ Retry(c, x) \/ BreakOff(c, x)
         \/ \E x \in Costs, priced \in BOOLEAN : Answer(c, x, priced)
  PROVE  InFlight' \subseteq InFlight /\ \A d \in Days : Claims'[d] \subseteq Claims[d]
<1>0. TypeOK /\ chat[c] \in Chats /\ day \in Days
  BY DEF IInv, TypeOK
<1>1. ~Flies(NoChat)
  BY DEF Flies, NoChat
<1>2. CASE CheckBudget(c) /\ budget # NoBudget
  <2>1. UNCHANGED <<budget, day>> /\ chat[c].at = "compare"
    BY <1>2 DEF CheckBudget
  <2>2. CASE chat' = [chat EXCEPT ![c] = NoChat]
    BY <1>0, <1>1, <2>1, <2>2, Landed
  <2>3. ASSUME ~ (chat[c].sum >= budget), NEW r \in Chats, chat' = [chat EXCEPT ![c] = r],
               r.at \in {"ready", "call"}
        PROVE  InFlight' \subseteq InFlight /\ \A d \in Days : Claims'[d] \subseteq Claims[d]
    <3>1. chat[c].sum \in Nat /\ budget \in Nat
      BY <1>0, <1>2, Fields, Numbers
    <3>2. c \in InFlight /\ c \in Claims[day]
      BY <1>0, <2>1, <2>3, <3>1 DEF InFlight, Claims
    <3>3. \A d \in Days : Dated(r, d) => d = day
      BY <2>3 DEF Dated
    <3> QED
      BY <1>0, <2>1, <2>3, <3>2, <3>3, Contained
  <2> QED
    BY <1>0, <1>2, <2>2, <2>3, CheckMoves
<1>3. CASE Abandon(c) \/ WriteRow(c) \/ WriteFails(c)
  <2>1. UNCHANGED <<budget, day>> /\ chat' = [chat EXCEPT ![c] = NoChat]
    BY <1>3 DEF Abandon, WriteRow, WriteFails
  <2> QED
    BY <1>0, <1>1, <2>1, Landed
<1>4. CASE \/ StartStream(c) \/ OpenWrite(c)
           \/ \E x \in Costs : Resend(c, x) \/ Retry(c, x) \/ BreakOff(c, x)
           \/ \E x \in Costs, priced \in BOOLEAN : Answer(c, x, priced)
  <2>1. c \in InFlight /\ c \in Claims[day] /\ UNCHANGED <<budget, day>>
    BY <1>0, <1>4 DEF InFlight, Claims, StartStream, OpenWrite, Resend, Retry, BreakOff, Answer
  <2>2. PICK r : /\ chat' = [chat EXCEPT ![c] = r]
                 /\ r.at \in {"call", "write"} \/ (r.at = "commit" /\ r.since = day)
    BY <1>0, <1>4, CallMoves, EndMoves, DateMoves
  <2>3. \A d \in Days : Dated(r, d) => d = day
    BY <2>2 DEF Dated
  <2> QED
    BY <1>0, <2>1, <2>2, <2>3, Contained
<1> QED
  BY <1>2, <1>3, <1>4

(* A chat begun under a budget is not in flight: its check comes first.    *)
LEMMA BeginStep ==
  ASSUME TypeOK, budget # NoBudget, NEW c \in Callers, NEW k \in Kinds, Begin(c, k)
  PROVE  InFlight' \subseteq InFlight /\ \A d \in Days : Claims'[d] \subseteq Claims[d]
<1> DEFINE r == [at |-> "check", kind |-> k, since |-> day, sum |-> 0, attempt |-> 0,
                 sent |-> 0, cost |-> 0]
<1>1. chat' = [chat EXCEPT ![c] = r] /\ UNCHANGED <<budget, day>> /\ r.at = "check"
  BY DEF Begin
<1>2. ~Flies(r)
  BY <1>1 DEF Flies
<1> HIDE DEF r
<1> QED
  BY <1>1, <1>2, Landed

LEMMA RoomStep == IInv /\ [Next]_vars => RoomForInFlight'
<1> SUFFICES ASSUME IInv, [Next]_vars PROVE RoomForInFlight'
  OBVIOUS
<1>0. TypeOK /\ TypeOK'
  BY TypeStep DEF IInv
<1>1. ASSUME budget = NoBudget PROVE RoomForInFlight'
  <2>1. budget' = budget
    BY DEF Next, Step, vars, Begin, ReadSum, CheckBudget, Abandon, StartStream, Resend, Retry,
           BreakOff, Answer, OpenWrite, WriteRow, WriteFails, NextDay
  <2> QED
    BY <1>1, <2>1 DEF RoomForInFlight
<1>2. ASSUME budget # NoBudget, NEW c \in Callers, NEW k \in Kinds, Begin(c, k)
      PROVE  RoomForInFlight'
  BY <1>0, <1>2, BeginStep, RoomKept DEF Begin
<1>3. ASSUME NEW c \in Callers, ReadSum(c) PROVE RoomForInFlight'
  BY <1>0, <1>3, AdmitStep
<1>4. ASSUME budget # NoBudget, NEW c \in Callers, Step(c), ~ReadSum(c), ~WriteRow(c)
      PROVE  RoomForInFlight'
  <2>1. UNCHANGED <<budget, spent>>
    BY <1>4 DEF Step, CheckBudget, Abandon, StartStream, OpenWrite, WriteFails, Resend, Retry,
                BreakOff, Answer
  <2> QED
    BY <1>0, <1>4, <2>1, FlightShrinks, RoomKept DEF Step
<1>5. ASSUME NEW c \in Callers, WriteRow(c) PROVE RoomForInFlight'
  BY <1>0, <1>5, WriteStep
<1>6. CASE NextDay
  BY <1>0, <1>6, MidnightStep
<1>7. CASE UNCHANGED vars
  BY <1>0, <1>7, RoomKept DEF vars, InFlight, Claims
<1> QED
  BY <1>1, <1>2, <1>3, <1>4, <1>5, <1>6, <1>7 DEF Next

(* Days only go forward, and no row is dated by one that has not come.     *)
LEMMA DayStep == IInv /\ [Next]_vars => SinceIsPast' /\ FutureIsEmpty'
<1> SUFFICES ASSUME IInv, [Next]_vars PROVE SinceIsPast' /\ FutureIsEmpty'
  OBVIOUS
<1>0. /\ TypeOK /\ SinceIsPast /\ FutureIsEmpty /\ day \in Int /\ 0 <= day
      /\ \A c \in Callers : chat[c] \in Chats /\ chat[c].since <= day
  BY BoundsAssumption DEF IInv, TypeOK, Days, SinceIsPast
<1>1. ASSUME NEW c \in Callers, NEW r, chat' = [chat EXCEPT ![c] = r], r.since <= day, day' = day
      PROVE  SinceIsPast'
  BY <1>0, <1>1 DEF SinceIsPast, TypeOK
<1>2. ASSUME NEW c \in Callers, NEW k \in Kinds, Begin(c, k)
      PROVE  SinceIsPast' /\ FutureIsEmpty'
  <2> DEFINE r == [at |-> IF budget = NoBudget THEN Admitted(k) ELSE "check", kind |-> k,
                   since |-> day, sum |-> 0, attempt |-> 0, sent |-> 0, cost |-> 0]
  <2>1. chat' = [chat EXCEPT ![c] = r] /\ r.since <= day /\ UNCHANGED <<day, spent>>
    BY <1>0, <1>2 DEF Begin
  <2> HIDE DEF r
  <2> QED
    BY <1>0, <1>1, <2>1 DEF FutureIsEmpty
<1>3. ASSUME NEW c \in Callers, Step(c) PROVE SinceIsPast' /\ FutureIsEmpty'
  <2>1. day' = day /\ NoChat.since <= day
    BY <1>0, <1>3 DEF Step, ReadSum, CheckBudget, Abandon, StartStream, OpenWrite, WriteRow,
                      WriteFails, Resend, Retry, BreakOff, Answer, NoChat
  <2>2. PICK r : chat' = [chat EXCEPT ![c] = r] /\ r.since <= day
    <3>1. CASE Abandon(c) \/ WriteRow(c) \/ WriteFails(c)
      BY <2>1, <3>1 DEF Abandon, WriteRow, WriteFails
    <3>2. CASE CheckBudget(c)
      BY <1>0, <2>1, <3>2, CheckMoves
    <3>3. CASE ~ (Abandon(c) \/ WriteRow(c) \/ WriteFails(c) \/ CheckBudget(c))
      BY <1>0, <1>3, <3>3, ReadMoves, CallMoves, EndMoves, DateMoves DEF Step
    <3> QED
      BY <3>1, <3>2, <3>3
  <2>3. SinceIsPast'
    BY <1>1, <2>1, <2>2
  <2>4. \A d \in Days : d > day => spent'[d] = spent[d]
    <3>1. CASE WriteRow(c)
      BY <1>0, <3>1 DEF WriteRow, TypeOK, Days
    <3>2. CASE spent' = spent
      BY <3>2
    <3> QED
      BY <1>3, <3>1, <3>2
         DEF Step, ReadSum, CheckBudget, Abandon, StartStream, OpenWrite, WriteFails, Resend,
             Retry, BreakOff, Answer
  <2> QED
    BY <1>0, <2>1, <2>3, <2>4 DEF FutureIsEmpty
<1>4. CASE NextDay
  BY <1>0, <1>4, BoundsAssumption
     DEF NextDay, TypeOK, Chats, Days, SinceIsPast, FutureIsEmpty
<1>5. CASE UNCHANGED vars
  BY <1>0, <1>5 DEF vars, SinceIsPast, FutureIsEmpty
<1> QED
  BY <1>2, <1>3, <1>4, <1>5 DEF Next

LEMMA InvStep == IInv /\ [Next]_vars => IInv'
  BY TypeStep, RoomStep, DayStep DEF IInv

LEMMA InvImplies == IInv => OvershootBounded
<1> SUFFICES ASSUME IInv, budget # NoBudget, NEW d \in Days PROVE spent[d] < Room
  BY DEF OvershootBounded, Room
<1>1. spent[d] \in Nat /\ Room \in Nat
  BY Numbers DEF IInv
<1>2. Claims[d] \in SUBSET Callers
  BY DEF Claims, InFlight
<1>3. MaxCost * Cardinality(Claims[d]) \in Nat
  BY <1>2, ClaimsBounds
<1> QED
  BY <1>1, <1>3 DEF IInv, RoomForInFlight

(* A budgeted tenant's recorded spend of any day stays below its budget    *)
(* plus one dearest call per concurrent caller, however the callers' steps *)
(* interleave with each other and with midnight.                           *)
THEOREM OvershootSafe == Spec => []OvershootBounded
  BY InvInit, InvStep, InvImplies, PTL DEF Spec

LEMMA GateStep ==
  ASSUME IInv, [Next]_vars, budget # NoBudget, spent[day] >= budget, day' = day
  PROVE  InFlight' \subseteq InFlight
<1>0. TypeOK
  BY DEF IInv
<1>1. ASSUME NEW c \in Callers, ReadSum(c) PROVE InFlight' \subseteq InFlight
  <2>1. ~ (SpentSince(chat[c].since) < budget)
    BY SeesToday, Numbers, <1>0
  <2> QED
    BY <1>1, <2>1, CheckStep
<1>2. CASE UNCHANGED vars
  BY <1>2 DEF vars, InFlight
<1>3. CASE NextDay
  BY <1>0, <1>3, BoundsAssumption DEF NextDay, TypeOK, Days
<1> QED
  BY <1>0, <1>1, <1>2, <1>3, BeginStep, FlightShrinks DEF Next, Step

(* Once a day's rows have reached the budget, only callers that had their  *)
(* sum before may still reach the provider that day.                       *)
THEOREM GateStaysClosed == Spec => GateClosed
<1>1. IInv /\ [Next]_vars =>
        [(budget # NoBudget /\ spent[day] >= budget /\ day' = day)
           => InFlight' \subseteq InFlight]_vars
  BY GateStep
<1> QED
  BY <1>1, InvInit, InvStep, PTL DEF Spec, GateClosed
-----------------------------------------------------------------------------
(* Sums over finite functions.  Induction is by the least counterexample,  *)
(* since a set of naturals that is not empty has a least element.          *)
LEMMA Least ==
  ASSUME NEW T \in SUBSET Nat, T # {}
  PROVE  \E m \in T : \A n \in T : m <= n
<1> DEFINE R == OpToRel(<, Nat)
<1>1. IsWellFoundedOn(R, Nat)
  BY NatLessThanWellFounded
<1>2. \A x, y \in Nat : <<y, x>> \in R <=> y < x
  BY DEF OpToRel
<1> HIDE DEF R
<1>3. PICK m \in T : \A n \in T : <<n, m>> \notin R
  BY <1>1, WFMin
<1>4. m \in Nat /\ \A n \in T : n \in Nat
  OBVIOUS
<1>5. \A n \in T : ~(n < m)
  BY <1>2, <1>3, <1>4
<1> QED
  BY <1>3, <1>4, <1>5

(* The library's sum, made explicit: the function it defines by recursion  *)
(* on sets, and its recursive clause.                                      *)
Pick(s) == CHOOSE x \in s : TRUE
SumStep(f, g, s) == IF s = {} THEN 0 ELSE f[Pick(s)] + g[s \ {Pick(s)}]
SumIter(f, S) == CHOOSE iter : iter = [s \in SUBSET S |-> SumStep(f, iter, s)]
SumOn(f, s) == SumIter(f, DOMAIN f)[s]

LEMMA SumUnfolds ==
  ASSUME NEW f
  PROVE  SumFunction(f) = SumOn(f, DOMAIN f)
  BY DEF SumFunction, SumFunctionOnSet, FoldFunction, FoldFunctionOnSet, MapThenFoldSet, SumOn,
        SumIter, SumStep, Pick

(* Over the subsets of a finite set the recursion has a solution: each     *)
(* step of the induction defines the sums of the subsets one larger.       *)
LEMMA SumExists ==
  ASSUME NEW f, NEW S, IsFiniteSet(S)
  PROVE  \E g : g = [s \in SUBSET S |-> SumStep(f, g, s)]
<1> DEFINE Upto(n) == {s \in SUBSET S : Cardinality(s) <= n}
           Good(n) == \E g : DOMAIN g = SUBSET S /\ g = [s \in SUBSET S |-> g[s]]
                 /\ \A s \in Upto(n) : g[s] = SumStep(f, g, s)
           Bad == {n \in Nat : ~Good(n)}
<1>1. \A s \in SUBSET S : IsFiniteSet(s) /\ Cardinality(s) \in Nat
      /\ Cardinality(s) <= Cardinality(S)
  BY FS_Subset, FS_CardinalityType
<1>2. \A s \in SUBSET S : s # {} =>
        /\ Pick(s) \in s /\ s \ {Pick(s)} \in SUBSET S
        /\ Cardinality(s \ {Pick(s)}) = Cardinality(s) - 1
  BY <1>1, FS_RemoveElement DEF Pick
<1>3. Good(0)
  <2> DEFINE g == [s \in SUBSET S |-> 0]
  <2>1. \A s \in Upto(0) : s = {}
    BY <1>1, FS_EmptySet
  <2>2. \A s \in Upto(0) : g[s] = SumStep(f, g, s)
    BY <2>1 DEF SumStep
  <2> QED
    BY <2>2
<1>4. ASSUME NEW n \in Nat, Good(n) PROVE Good(n + 1)
  <2> PICK g : DOMAIN g = SUBSET S /\ \A s \in Upto(n) : g[s] = SumStep(f, g, s)
    BY <1>4
  <2> DEFINE h == [s \in SUBSET S |-> SumStep(f, g, s)]
  <2>1. \A s \in Upto(n) : h[s] = g[s]
    OBVIOUS
  <2>2. ASSUME NEW s \in Upto(n + 1) PROVE h[s] = SumStep(f, h, s)
    <3>1. CASE s = {}
      BY <3>1 DEF SumStep
    <3>2. CASE s # {}
      <4>1. s \ {Pick(s)} \in Upto(n)
        <5>1. s \in SUBSET S /\ Cardinality(s) <= n + 1 /\ Cardinality(s) \in Nat
          BY <1>1
        <5>2. s \ {Pick(s)} \in SUBSET S /\ Cardinality(s \ {Pick(s)}) = Cardinality(s) - 1
          BY <1>2, <3>2, <5>1
        <5> QED
          BY <5>1, <5>2
      <4>2. h[s \ {Pick(s)}] = g[s \ {Pick(s)}]
        BY <2>1, <4>1
      <4> QED
        BY <4>2, <3>2 DEF SumStep
    <3> QED
      BY <3>1, <3>2
  <2> HIDE DEF h
  <2>3. DOMAIN h = SUBSET S /\ h = [s \in SUBSET S |-> h[s]]
    BY DEF h
  <2> QED
    BY <2>2, <2>3
<1>5. Good(Cardinality(S))
  <2> SUFFICES ASSUME ~Good(Cardinality(S)) PROVE FALSE
    OBVIOUS
  <2>1. Cardinality(S) \in Nat
    BY <1>1
  <2> HIDE DEF Good
  <2>2. Bad # {} /\ Bad \in SUBSET Nat
    BY <2>1
  <2> HIDE DEF Bad
  <2>3. PICK m \in Bad : \A n \in Bad : m <= n
    BY <2>2, Least
  <2>4. m \in Nat /\ ~Good(m)
    BY DEF Bad
  <2>5. m # 0
    BY <2>4, <1>3
  <2>6. m - 1 \in Nat /\ Good(m - 1)
    BY <2>3, <2>4, <2>5 DEF Bad
  <2>7. Good((m - 1) + 1)
    BY <2>6, <1>4
  <2> QED
    BY <2>4, <2>7
<1>6. PICK g : g = [s \in SUBSET S |-> g[s]]
      /\ \A s \in Upto(Cardinality(S)) : g[s] = SumStep(f, g, s)
  BY <1>5
<1>7. \A s \in SUBSET S : g[s] = SumStep(f, g, s)
  BY <1>1, <1>6
<1>8. g = [s \in SUBSET S |-> SumStep(f, g, s)]
  BY <1>6, <1>7
<1> QED
  BY <1>8
(* So the sum is what its recursive clause says.                           *)
LEMMA SumRecursion ==
  ASSUME NEW f, IsFiniteSet(DOMAIN f), NEW s \in SUBSET DOMAIN f
  PROVE  SumOn(f, s) = IF s = {} THEN 0 ELSE f[Pick(s)] + SumOn(f, s \ {Pick(s)})
<1> DEFINE g == SumIter(f, DOMAIN f)
<1>1. g = [t \in SUBSET DOMAIN f |-> SumStep(f, g, t)]
  BY SumExists DEF SumIter
<1> HIDE DEF g
<1>2. g[s] = SumStep(f, g, s)
  BY <1>1
<1> QED
  BY <1>2 DEF SumOn, SumStep, g

(* Induction on the subsets of a finite set, in the order of the sum.      *)
LEMMA Subsets ==
  ASSUME NEW S, IsFiniteSet(S), NEW Q,
         \A s \in SUBSET S : (s = {} \/ s \ {Pick(s)} \in Q) => s \in Q
  PROVE  S \in Q
<1> DEFINE Size == {Cardinality(s) : s \in (SUBSET S) \ Q}
<1>1. \A s \in SUBSET S : /\ Cardinality(s) \in Nat
                          /\ s # {} => /\ s \ {Pick(s)} \in SUBSET S
                                       /\ Cardinality(s \ {Pick(s)}) = Cardinality(s) - 1
  BY FS_Subset, FS_CardinalityType, FS_RemoveElement DEF Pick
<1> SUFFICES ASSUME S \notin Q PROVE FALSE
  OBVIOUS
<1>2. S \in (SUBSET S) \ Q
  OBVIOUS
<1>3. Size # {} /\ Size \in SUBSET Nat
  <2>1. Cardinality(S) \in Size
    BY <1>2
  <2>2. \A s \in (SUBSET S) \ Q : Cardinality(s) \in Nat
    BY <1>1
  <2>3. Size \in SUBSET Nat
    BY ONLY <2>2
  <2> QED
    BY <2>1, <2>3
<1>4. PICK m \in Size : \A n \in Size : m <= n
  BY <1>3, Least
<1>5. PICK s \in (SUBSET S) \ Q : m = Cardinality(s)
  OBVIOUS
<1>6. s # {} /\ s \ {Pick(s)} \in (SUBSET S) \ Q
  BY <1>1, <1>5
<1>7. Cardinality(s \ {Pick(s)}) \in Size
  BY <1>6
<1>8. Cardinality(s) \in Nat /\ Cardinality(s \ {Pick(s)}) = Cardinality(s) - 1
  BY <1>1, <1>5, <1>6
<1> HIDE DEF Size
<1> QED
  BY <1>4, <1>5, <1>7, <1>8

(* Functions that differ in one place differ in their sum by as much.      *)
LEMMA SumChange ==
  ASSUME NEW S, IsFiniteSet(S), NEW f \in [S -> Nat], NEW g \in [S -> Nat],
         NEW x \in S, \A y \in S \ {x} : g[y] = f[y]
  PROVE  /\ SumFunction(f) \in Nat /\ SumFunction(g) \in Nat
         /\ SumFunction(g) = SumFunction(f) + g[x] - f[x]
<1> DEFINE Holds(s) == /\ SumOn(f, s) \in Nat /\ SumOn(g, s) \in Nat
                       /\ SumOn(g, s) = SumOn(f, s) + (IF x \in s THEN g[x] - f[x] ELSE 0)
           Q == {s \in SUBSET S : Holds(s)}
<1>1. ASSUME NEW s \in SUBSET S, s # {} => Holds(s \ {Pick(s)}) PROVE Holds(s)
  <2>1. /\ SumOn(f, s) = IF s = {} THEN 0 ELSE f[Pick(s)] + SumOn(f, s \ {Pick(s)})
        /\ SumOn(g, s) = IF s = {} THEN 0 ELSE g[Pick(s)] + SumOn(g, s \ {Pick(s)})
    BY SumRecursion
  <2>2. CASE s = {}
    BY <2>1, <2>2
  <2>3. CASE s # {}
    <3> DEFINE p == Pick(s)
               a == SumOn(f, s \ {p})
               b == SumOn(g, s \ {p})
    <3>1. p \in s
      BY <2>3 DEF Pick
    <3>2. SumOn(f, s) = f[p] + a /\ SumOn(g, s) = g[p] + b
      BY <2>1, <2>3
    <3>3. a \in Nat /\ b \in Nat /\ b = a + (IF x \in s \ {p} THEN g[x] - f[x] ELSE 0)
      BY <1>1, <2>3
    <3>4. f[p] \in Nat /\ g[p] \in Nat /\ f[x] \in Nat /\ g[x] \in Nat
      BY <3>1
    <3> HIDE DEF p, a, b
    <3>5. CASE p = x
      BY <3>1, <3>2, <3>3, <3>4, <3>5
    <3>6. CASE p # x
      BY <3>1, <3>2, <3>3, <3>4, <3>6
    <3> QED
      BY <3>5, <3>6
  <2> QED
    BY <2>2, <2>3
<1> HIDE DEF Holds
<1>2. \A s \in SUBSET S : (s = {} \/ s \ {Pick(s)} \in Q) => s \in Q
  BY <1>1
<1> HIDE DEF Q
<1>3. S \in Q
  BY <1>2, Subsets
<1>4. SumFunction(f) = SumOn(f, S) /\ SumFunction(g) = SumOn(g, S)
  BY SumUnfolds
<1> QED
  BY <1>3, <1>4 DEF Holds, Q

(* The sum of nothing but zeros. *)
LEMMA SumZero ==
  ASSUME NEW S, IsFiniteSet(S), NEW f \in [S -> Nat], \A y \in S : f[y] = 0
  PROVE  SumFunction(f) = 0
<1> DEFINE Q == {s \in SUBSET S : SumOn(f, s) = 0}
<1>1. ASSUME NEW s \in SUBSET S, s = {} \/ s \ {Pick(s)} \in Q PROVE s \in Q
  <2>1. SumOn(f, s) = IF s = {} THEN 0 ELSE f[Pick(s)] + SumOn(f, s \ {Pick(s)})
    BY SumRecursion
  <2>2. s # {} => f[Pick(s)] = 0
    BY DEF Pick
  <2> QED
    BY <1>1, <2>1, <2>2
<1> HIDE DEF Q
<1>2. S \in Q
  BY <1>1, Subsets
<1> QED
  BY <1>2, SumUnfolds DEF Q

-----------------------------------------------------------------------------
(* Only a call that is writing its row holds a charge. *)
NothingHeld == \A c \in Callers : chat[c].at \notin {"write", "commit"} => chat[c].cost = 0

CostOf == [c \in Callers |-> chat[c].cost]
Balanced == ChargesAccounted /\ NothingHeld

LEMMA CostsType ==
  ASSUME TypeOK
  PROVE  /\ \A c \in Callers : chat[c] \in Chats /\ chat[c].cost \in Nat
         /\ CostOf \in [Callers -> Nat] /\ IsFiniteSet(Callers) /\ IsFiniteSet(Days)
         /\ billed \in Nat /\ lost \in Nat /\ day \in Days /\ spent \in [Days -> Nat]
<1>1. \A c \in Callers : chat[c] \in Chats /\ chat[c].cost \in Nat
  BY CostAssumption DEF TypeOK, Chats, Costs
<1>2. IsFiniteSet(Days)
  BY FS_Interval, BoundsAssumption DEF Days
<1> QED
  BY <1>1, <1>2, CallersAssumption DEF CostOf, TypeOK

(* The chats' charges change by those of the caller that moves. *)
LEMMA CostsChange ==
  ASSUME TypeOK, TypeOK', NEW c \in Callers, NEW r, chat' = [chat EXCEPT ![c] = r]
  PROVE  /\ SumFunction(CostOf) \in Nat /\ SumFunction(CostOf') \in Nat
         /\ SumFunction(CostOf') = SumFunction(CostOf) + r.cost - chat[c].cost
<1>1. CostOf \in [Callers -> Nat] /\ IsFiniteSet(Callers)
  BY CostsType
<1>2. CostOf' \in [Callers -> Nat]
  BY CostAssumption DEF CostOf, TypeOK, Chats, Costs
<1>3. \A e \in Callers : CostOf'[e] = IF e = c THEN r.cost ELSE CostOf[e]
  BY DEF CostOf, TypeOK
<1>4. CostOf[c] = chat[c].cost
  BY DEF CostOf
<1> DEFINE a == CostOf
           b == CostOf'
<1> HIDE DEF a, b
<1>5. /\ SumFunction(a) \in Nat /\ SumFunction(b) \in Nat
      /\ SumFunction(b) = SumFunction(a) + b[c] - a[c]
  BY <1>1, <1>2, <1>3, SumChange DEF a, b
<1> QED
  BY <1>3, <1>4, <1>5 DEF a, b


(* A caller's step that moves a charge between provider, chat, row and     *)
(* loss as the books require keeps the balance.                            *)
LEMMA MoneyMoves ==
  ASSUME TypeOK, TypeOK', Balanced,
         NEW c \in Callers, NEW r, chat' = [chat EXCEPT ![c] = r],
         r.at \notin {"write", "commit"} => r.cost = 0,
         NEW e \in Days, \A d \in Days \ {e} : spent'[d] = spent[d],
         billed' - billed + chat[c].cost = r.cost + (lost' - lost) + (spent'[e] - spent[e])
  PROVE  Balanced'
<1> DEFINE rows == spent'
<1>1. billed = SumFunction(spent) + SumFunction(CostOf) + lost /\ NothingHeld
  BY DEF Balanced, ChargesAccounted, CostOf
<1>2. /\ billed \in Nat /\ lost \in Nat /\ chat[c].cost \in Nat
      /\ spent \in [Days -> Nat] /\ spent[e] \in Nat /\ IsFiniteSet(Days)
      /\ billed' \in Nat /\ lost' \in Nat
  BY CostsType DEF TypeOK
<1>3. chat'[c] = r /\ chat'[c].cost \in Nat
  BY CostAssumption DEF TypeOK, Chats, Costs
<1>4. /\ SumFunction(CostOf) \in Nat /\ SumFunction(CostOf') \in Nat
      /\ SumFunction(CostOf') = SumFunction(CostOf) + r.cost - chat[c].cost
  BY CostsChange
<1>5. /\ rows \in [Days -> Nat] /\ rows[e] \in Nat /\ rows[e] = spent'[e]
      /\ \A d \in Days \ {e} : rows[d] = spent[d]
  BY <1>2 DEF TypeOK
<1> HIDE DEF rows
<1>6. /\ SumFunction(spent) \in Nat /\ SumFunction(rows) \in Nat
      /\ SumFunction(rows) = SumFunction(spent) + rows[e] - spent[e]
  BY <1>2, <1>5, SumChange
<1>7. billed' = SumFunction(rows) + SumFunction(CostOf') + lost'
  <2> DEFINE a == SumFunction(spent)
             b == SumFunction(rows)
             p == SumFunction(CostOf)
             q == SumFunction(CostOf')
  <2>1. /\ b = a + rows[e] - spent[e] /\ q = p + r.cost - chat[c].cost /\ billed = a + p + lost
        /\ a \in Nat /\ b \in Nat /\ p \in Nat /\ q \in Nat /\ r.cost \in Nat
    BY <1>1, <1>3, <1>4, <1>6
  <2> HIDE DEF a, b, p, q
  <2>2. billed' - billed + chat[c].cost = r.cost + (lost' - lost) + (rows[e] - spent[e])
    BY <1>5
  <2>3. billed' = b + q + lost'
    BY <1>2, <1>5, <2>1, <2>2
  <2> QED
    BY <2>3 DEF b, q
<1>8. NothingHeld'
  BY <1>1 DEF NothingHeld, TypeOK
<1> QED
  BY <1>7, <1>8 DEF Balanced, ChargesAccounted, CostOf, rows

LEMMA BalanceStep == TypeOK /\ Balanced /\ [Next]_vars => Balanced'
<1> SUFFICES ASSUME TypeOK, Balanced, [Next]_vars PROVE Balanced'
  OBVIOUS
<1>1. TypeOK'
  BY TypeStep
<1>2. /\ \A c \in Callers : chat[c] \in Chats /\ chat[c].cost \in Nat
      /\ \A c \in Callers : chat[c].at \notin {"write", "commit"} => chat[c].cost = 0
      /\ spent \in [Days -> Nat] /\ day \in Days /\ spent[day] \in Nat /\ billed \in Nat
            /\ lost \in Nat
  BY CostsType DEF Balanced, NothingHeld
<1>3. CASE UNCHANGED vars \/ NextDay
  <2>1. CostOf' = CostOf /\ UNCHANGED <<spent, billed, lost, chat>>
    BY <1>3 DEF vars, NextDay, CostOf
  <2> QED
    BY <2>1 DEF Balanced, ChargesAccounted, CostOf, NothingHeld
<1>4. ASSUME NEW c \in Callers, NEW r, chat' = [chat EXCEPT ![c] = r],
             r.cost = 0, chat[c].at \notin {"write", "commit"}, UNCHANGED <<spent, billed, lost>>
      PROVE  Balanced'
  <2>1. billed' - billed + chat[c].cost = r.cost + (lost' - lost) + (spent'[day] - spent[day])
    BY <1>2, <1>4
  <2> QED
    BY <1>1, <1>2, <1>4, <2>1, MoneyMoves
<1>5. ASSUME NEW c \in Callers, NEW k \in Kinds, Begin(c, k) PROVE Balanced'
  <2> DEFINE r == [at |-> IF budget = NoBudget THEN Admitted(k) ELSE "check",
                   kind |-> k, since |-> day, sum |-> 0, attempt |-> 0, sent |-> 0, cost |-> 0]
  <2>1. r.cost = 0 /\ chat' = [chat EXCEPT ![c] = r]
    BY <1>5 DEF Begin, Admitted
  <2> HIDE DEF r
  <2> QED
    BY <1>4, <1>5, <2>1 DEF Begin
<1>6. ASSUME NEW c \in Callers,
             ReadSum(c) \/ CheckBudget(c) \/ Abandon(c) \/ StartStream(c)
      PROVE Balanced'
  <2>1. chat[c].at # "write" /\ chat[c].at # "commit" /\ UNCHANGED <<spent, billed, lost>>
    BY <1>6 DEF ReadSum, CheckBudget, Abandon, StartStream
  <2>2. NoChat.cost = 0 /\ chat[c].cost = 0
    BY <1>2, <2>1 DEF NoChat
  <2>3. PICK r : chat' = [chat EXCEPT ![c] = r] /\ r.cost = 0
    <3>1. CASE Abandon(c)
      BY <2>2, <3>1 DEF Abandon
    <3>2. CASE CheckBudget(c)
      BY <2>2, <3>2, CheckMoves
    <3>3. CASE ReadSum(c) \/ StartStream(c)
      BY <2>2, <3>3, ReadMoves, CallMoves
    <3> QED
      BY <1>6, <3>1, <3>2, <3>3
  <2> QED
    BY <1>4, <2>1, <2>2, <2>3
<1>7. ASSUME NEW c \in Callers, NEW x \in Costs, Resend(c, x) \/ Retry(c, x) PROVE Balanced'
  <2>2. /\ chat[c].at = "call" /\ billed' = billed + x /\ lost' = lost + x
        /\ spent' = spent /\ x \in Nat
    BY <1>7, CostAssumption DEF Resend, Retry, Lose, Costs
  <2>3. PICK r : chat' = [chat EXCEPT ![c] = r] /\ r.at = "call" /\ r.cost = 0
    BY <1>2, <1>7, <2>2, CallMoves
  <2>4. billed' - billed + chat[c].cost = r.cost + (lost' - lost) + (spent'[day] - spent[day])
    BY <1>2, <2>2, <2>3
  <2> QED
    BY <1>1, <1>2, <2>2, <2>3, <2>4, MoneyMoves
<1>8. ASSUME NEW c \in Callers, NEW x \in Costs, NEW priced \in BOOLEAN,
             Answer(c, x, priced) \/ BreakOff(c, x)
      PROVE Balanced'
  <2>1. PICK r \in Chats :
          /\ chat' = [chat EXCEPT ![c] = r] /\ chat[c].at = "call"
          /\ r.at = "write" /\ r.cost \in 0..x
          /\ billed' = billed + x /\ lost' = lost + x - r.cost
    BY <1>8, EndMoves
  <2>2. x \in Nat /\ chat[c].cost = 0 /\ r.cost \in Nat /\ spent' = spent
    BY <1>2, <1>8, <2>1, CostAssumption DEF Costs, Answer, BreakOff
  <2>3. billed' - billed + chat[c].cost = r.cost + (lost' - lost) + (spent'[day] - spent[day])
    BY <1>2, <2>1, <2>2
  <2> QED
    BY <1>1, <1>2, <2>1, <2>2, <2>3, MoneyMoves
<1>9. ASSUME NEW c \in Callers, OpenWrite(c) PROVE Balanced'
  <2>1. UNCHANGED <<spent, billed, lost>>
    BY <1>9 DEF OpenWrite
  <2>2. PICK r \in Chats : /\ chat' = [chat EXCEPT ![c] = r]
                           /\ r.at = "commit" /\ r.cost = chat[c].cost
    BY <1>9, DateMoves
  <2>3. billed' - billed + chat[c].cost = r.cost + (lost' - lost) + (spent'[day] - spent[day])
    BY <1>2, <2>1, <2>2
  <2> QED
    BY <1>1, <1>2, <2>1, <2>2, <2>3, MoneyMoves
<1>10. ASSUME NEW c \in Callers, WriteRow(c) \/ WriteFails(c) PROVE Balanced'
  <2> DEFINE e == chat[c].since
  <2>0. e \in Days /\ spent[e] \in Nat
    BY <1>2 DEF Chats
  <2>1. /\ chat' = [chat EXCEPT ![c] = NoChat] /\ billed' = billed
        /\ \/ lost' = lost /\ spent' = [spent EXCEPT ![e] = @ + chat[c].cost]
           \/ lost' = lost + chat[c].cost /\ spent' = spent
    BY <1>10 DEF WriteRow, WriteFails
  <2>2. NoChat.cost = 0 /\ NoChat.at # "write" /\ NoChat.at # "commit"
    BY DEF NoChat
  <2>3. \A d \in Days \ {e} : spent'[d] = spent[d]
    BY <1>2, <2>1
  <2>4. billed' - billed + chat[c].cost = NoChat.cost + (lost' - lost) + (spent'[e] - spent[e])
    BY <1>2, <2>0, <2>1, <2>2
  <2> HIDE DEF e
  <2> QED
    BY <1>1, <2>0, <2>1, <2>2, <2>3, <2>4, MoneyMoves
<1> QED
  BY <1>3, <1>5, <1>6, <1>7, <1>8, <1>9, <1>10 DEF Next, Step

LEMMA BalanceInit == Init => Balanced
<1> SUFFICES ASSUME Init PROVE Balanced
  OBVIOUS
<1>1. TypeOK /\ \A c \in Callers : chat[c].cost = 0
  BY TypeInit DEF Init, NoChat
<1>2. CostOf \in [Callers -> Nat] /\ spent \in [Days -> Nat] /\ IsFiniteSet(Callers)
      /\ IsFiniteSet(Days)
  BY <1>1, CostsType
<1>3. SumFunction(CostOf) = 0
  BY <1>1, <1>2, SumZero DEF CostOf
<1>4. SumFunction(spent) = 0
  BY <1>2, SumZero DEF Init
<1> QED
  BY <1>1, <1>3, <1>4 DEF Init, Balanced, ChargesAccounted, NothingHeld, CostOf

(* Every charge of the provider is in one place: in a row, in the finally  *)
(* block of a call about to write it, or lost for good; none is counted    *)
(* twice, whatever the callers do at the same time.                        *)
THEOREM ChargesBalance == Spec => []ChargesAccounted
<1>1. Balanced => ChargesAccounted
  BY DEF Balanced
<1> QED
  BY <1>1, TypeInit, TypeStep, BalanceInit, BalanceStep, PTL DEF Spec
=============================================================================

------------------------------ MODULE LlmSpend ------------------------------
(***************************************************************************)
(* Metering of LLM calls for one tenant: TenantAwareAnthropicClient in     *)
(* src/app/integrations/anthropic_client.py.                               *)
(*                                                                         *)
(* A caller is a coroutine that holds a client of the tenant: a worker job *)
(* or a request of the agent test endpoint.  Each caller makes one chat at *)
(* a time and goes through the awaits of chat(): the sum query of          *)
(* _check_budget, the closing of its session, the requests of              *)
(* _call_with_retry, and the transaction of _write_llm_call.  Other        *)
(* callers run at each of these awaits, so the sum a caller has read may   *)
(* be stale when it is compared, and the more so at the provider.          *)
(*                                                                         *)
(* Money is counted in units of the cheapest call; a call costs 0..MaxCost *)
(* (tokens_in * rate + tokens_out * rate).  Each request to the provider   *)
(* may be charged, also one whose answer does not arrive.                  *)
(***************************************************************************)
EXTENDS Integers, FiniteSets, Functions

CONSTANTS
  Callers,        \* coroutines that may hold a client of the tenant at once
  Budgets,        \* the values daily_budget_usd may have, NoBudget for NULL
  NoBudget,
  MaxCost,        \* the dearest call
  MaxAttempts,    \* stop_after_attempt(3)
  MaxSends,       \* requests the SDK makes for one attempt (its max_retries + 1)
  DecimalBudget,  \* TRUE: the budget is the Decimal that create() loads from
                  \* the Numeric column; FALSE: the float given to __init__
  LastDay,        \* bound: the last UTC day of a behaviour
  MaxChats        \* bound: chats begun in a behaviour

ASSUME CallersAssumption == IsFiniteSet(Callers) /\ Callers # {}
ASSUME BudgetsAssumption == Budgets \subseteq Nat \cup {NoBudget} /\ NoBudget \notin Nat
ASSUME CostAssumption    == MaxCost \in Nat \ {0}
ASSUME BoundsAssumption  == /\ MaxAttempts \in Nat \ {0} /\ MaxSends \in Nat \ {0}
                            /\ DecimalBudget \in BOOLEAN
                            /\ LastDay \in Nat /\ MaxChats \in Nat

VARIABLES
  budget,   \* daily_budget_usd as the clients hold it
  day,      \* the current UTC day
  spent,    \* per day: the sum of cost_usd over its rows of llm_calls
  chat,     \* per caller: the locals of its chat
  billed,   \* ghost: what the provider has charged
  lost,     \* ghost: charges that will never be in a row
  chats     \* counts chats begun, for the bound MaxChats

vars == <<budget, day, spent, chat, billed, lost, chats>>

Days == 0..LastDay
Costs == 0..MaxCost
Kinds == {"chat", "stream"}    \* chat() and stream_chat()

(* at "idle": between chats.  "check": in _check_budget, the query not yet *)
(* answered; it sums from day since.  "compare": it answered sum, and the  *)
(* session is being closed.  "ready": stream_chat returned its generator,  *)
(* not yet iterated.  "call": at the provider; attempt attempts failed,    *)
(* and sent requests of the present one.  "write": in finally, about to    *)
(* record cost.  "commit": in the transaction of the row, begun on since.  *)
Chats == [at : {"idle", "check", "compare", "ready", "call", "write", "commit"},
          kind : Kinds, since : Days, sum : Nat, attempt : 0..(MaxAttempts - 1),
          sent : 0..(MaxSends - 1), cost : Costs]

NoChat == [at |-> "idle", kind |-> "chat", since |-> 0, sum |-> 0,
           attempt |-> 0, sent |-> 0, cost |-> 0]

Init ==
  /\ budget \in Budgets
  /\ day = 0
  /\ spent = [d \in Days |-> 0]
  /\ chat = [c \in Callers |-> NoChat]
  /\ billed = 0 /\ lost = 0 /\ chats = 0

-----------------------------------------------------------------------------
(* Mutant: the rows of date d, instead of those since midnight of it. *)
MutSpentOn(d) == spent[d]

(* The sum of cost_usd over rows created at or after midnight of day d.    *)
(* d is the current day, or the day before it (see NextDay).               *)
SpentSince(d) == spent[d] + (IF d < day THEN spent[day] ELSE 0)

(* Where a chat stands once its budget check is passed. *)
Admitted(k) == IF k = "stream" THEN "ready" ELSE "call"

(* chat() or stream_chat(): today is computed before the query is awaited. *)
(* Without a budget _check_budget returns at once.                         *)
Begin(c, k) ==
  /\ chat[c].at = "idle" /\ chats < MaxChats
  /\ chat' = [chat EXCEPT ![c] =
       [at |-> IF budget = NoBudget THEN Admitted(k) ELSE "check",
        kind |-> k, since |-> day, sum |-> 0, attempt |-> 0, sent |-> 0, cost |-> 0]]
  /\ chats' = chats + 1
  /\ UNCHANGED <<budget, day, spent, billed, lost>>

(* The query answers, with the rows committed by now. *)
ReadSum(c) ==
  /\ chat[c].at = "check"
  /\ chat' = [chat EXCEPT ![c] = [@ EXCEPT !.at = "compare", !.sum = SpentSince(chat[c].since)]]
  /\ UNCHANGED <<budget, day, spent, billed, lost, chats>>

(* Mutant: > for >=, and the limit itself admits a chat. *)
MutCheckBudget(c) ==
  /\ chat[c].at = "compare"
  /\ chat' = [chat EXCEPT ![c] =
       IF @.sum > budget \/ DecimalBudget
         THEN NoChat ELSE [@ EXCEPT !.at = Admitted(chat[c].kind), !.sum = 0]]
  /\ UNCHANGED <<budget, day, spent, billed, lost, chats>>

(* The session is closed and the sum compared.  At the limit               *)
(* BudgetExceededError; below it the soft warning multiplies the budget by *)
(* 0.8, which a Decimal refuses with a TypeError.  Either error leaves     *)
(* chat() before its try: no row.                                          *)
CheckBudget(c) ==
  /\ chat[c].at = "compare"
  /\ chat' = [chat EXCEPT ![c] =
       IF @.sum >= budget \/ DecimalBudget
         THEN NoChat ELSE [@ EXCEPT !.at = Admitted(chat[c].kind), !.sum = 0]]
  /\ UNCHANGED <<budget, day, spent, billed, lost, chats>>

(* The check's session fails or its job is cancelled inside it, or the     *)
(* generator of stream_chat is dropped before its first iteration: no call *)
(* and no row.                                                             *)
Abandon(c) ==
  /\ chat[c].at \in {"check", "compare", "ready"}
  /\ chat' = [chat EXCEPT ![c] = NoChat]
  /\ UNCHANGED <<budget, day, spent, billed, lost, chats>>

StartStream(c) ==
  /\ chat[c].at = "ready"
  /\ chat' = [chat EXCEPT ![c].at = "call"]
  /\ UNCHANGED <<budget, day, spent, billed, lost, chats>>

(* The call ends and finally is entered with the cost it has seen.         *)
EnterFinally(c, seen) == chat' = [chat EXCEPT ![c].at = "write", ![c].cost = seen]

(* A charge that no row will show. *)
Lose(x) == billed' = billed + x /\ lost' = lost + x

(* _compute_cost of a call charged x: 0 for a model it has no price of.    *)
ComputeCost(x, priced) == IF priced THEN x ELSE 0

(* The provider answers and charges x.  The model is the agent's, and its  *)
(* owner may set one that MODEL_COSTS does not know.                       *)
Answer(c, x, priced) ==
  /\ chat[c].at = "call"
  /\ EnterFinally(c, ComputeCost(x, priced))
  /\ billed' = billed + x
  /\ lost' = lost + x - ComputeCost(x, priced)
  /\ UNCHANGED <<budget, day, spent, chats>>

(* The SDK repeats a request that was refused or got no answer, in time or *)
(* at all; the provider may have carried it out.  Streams are opened so    *)
(* too.                                                                    *)
Resend(c, x) ==
  /\ chat[c].at = "call" /\ chat[c].sent + 1 < MaxSends
  /\ chat' = [chat EXCEPT ![c].sent = @ + 1]
  /\ Lose(x)
  /\ UNCHANGED <<budget, day, spent, chats>>

(* Mutant: the last attempt is one too late. *)
MutRetryOnceMore(c, x) ==
  /\ chat[c].at = "call" /\ chat[c].kind = "chat"
  /\ chat[c].attempt < MaxAttempts
  /\ chat' = [chat EXCEPT ![c].attempt = @ + 1, ![c].sent = 0]
  /\ Lose(x)
  /\ UNCHANGED <<budget, day, spent, chats>>

(* Mutant: no stop condition; the count of attempts wraps around. *)
MutRetryForever(c, x) ==
  /\ chat[c].at = "call" /\ chat[c].kind = "chat"
  /\ chat' = [chat EXCEPT ![c].attempt = (@ + 1) % MaxAttempts, ![c].sent = 0]
  /\ x = 0 /\ UNCHANGED <<budget, day, spent, billed, lost, chats>>

(* 429 or 5xx, the SDK has given up, and tenacity has an attempt left.     *)
(* Streams are not retried here.                                           *)
Retry(c, x) ==
  /\ chat[c].at = "call" /\ chat[c].kind = "chat"
  /\ chat[c].attempt + 1 < MaxAttempts
  /\ chat' = [chat EXCEPT ![c].attempt = @ + 1, ![c].sent = 0]
  /\ Lose(x)
  /\ UNCHANGED <<budget, day, spent, chats>>

(* An error that is not retried, the last attempt's, or a cancellation by  *)
(* the job's timeout: recorded at cost 0.  The provider may have charged   *)
(* for what it had done: of a stream that breaks off, or of a call that is *)
(* cancelled (token counts are read from a complete answer only).          *)
BreakOff(c, x) ==
  /\ chat[c].at = "call"
  /\ EnterFinally(c, 0)
  /\ Lose(x)
  /\ UNCHANGED <<budget, day, spent, chats>>

(* The session of _write_llm_call sets its tenant.  This begins the        *)
(* transaction, whose time is the created_at of the row.                   *)
OpenWrite(c) ==
  /\ chat[c].at = "write"
  /\ chat' = [chat EXCEPT ![c].at = "commit", ![c].since = day]
  /\ UNCHANGED <<budget, day, spent, billed, lost, chats>>

(* Mutant: metered inside the retried function, a row for each attempt. *)
MutWriteRowPerAttempt(c) ==
  /\ chat[c].at = "commit"
  /\ chat' = [chat EXCEPT ![c] = NoChat]
  /\ spent' = [spent EXCEPT ![chat[c].since] = @ + (chat[c].attempt + 1) * chat[c].cost]
  /\ UNCHANGED <<budget, day, billed, lost, chats>>

(* The row is committed. *)
WriteRow(c) ==
  /\ chat[c].at = "commit"
  /\ chat' = [chat EXCEPT ![c] = NoChat]
  /\ spent' = [spent EXCEPT ![chat[c].since] = @ + chat[c].cost]
  /\ UNCHANGED <<budget, day, billed, lost, chats>>

(* The session or the insert fails, which is only logged, or is cancelled. *)
WriteFails(c) ==
  /\ chat[c].at \in {"write", "commit"}
  /\ chat' = [chat EXCEPT ![c] = NoChat]
  /\ lost' = lost + chat[c].cost
  /\ UNCHANGED <<budget, day, spent, billed, chats>>

(* Midnight UTC.  A job ends within its timeout of 300 s, so no check      *)
(* outlives the day after the one it began on.                             *)
NextDay ==
  /\ day < LastDay
  /\ \A c \in Callers : chat[c].at = "check" => chat[c].since = day
  /\ day' = day + 1
  /\ UNCHANGED <<budget, spent, chat, billed, lost, chats>>

Step(c) ==
  \/ ReadSum(c) \/ CheckBudget(c) \/ Abandon(c) \/ StartStream(c)
  \/ OpenWrite(c) \/ WriteRow(c) \/ WriteFails(c)
  \/ \E x \in Costs : Resend(c, x) \/ Retry(c, x) \/ BreakOff(c, x)
  \/ \E x \in Costs, priced \in BOOLEAN : Answer(c, x, priced)

Next ==
  \/ \E c \in Callers : Step(c) \/ \E k \in Kinds : Begin(c, k)
  \/ NextDay

Spec == Init /\ [][Next]_vars

(* Every await of a chat ends: the database and the provider answer, fail, *)
(* or are cut off by the SDK's and the job's timeouts.                     *)
FairSpec == Spec /\ \A c \in Callers : WF_vars(Step(c))

-----------------------------------------------------------------------------
(* Callers whose sum left them below the budget, or that need none, and    *)
(* whose row is not written yet.                                           *)
InFlight == {c \in Callers : \/ chat[c].at \in {"ready", "call", "write", "commit"}
                             \/ chat[c].at = "compare" /\ chat[c].sum < budget}

TypeOK ==
  /\ budget \in Budgets
  /\ day \in Days
  /\ spent \in [Days -> Nat]
  /\ chat \in [Callers -> Chats]
  /\ billed \in Nat /\ lost \in Nat /\ chats \in Nat

(* The daily budget is checked before a call and recorded after it, so it  *)
(* is no hard cap; but what a day's rows add up to stays below the budget  *)
(* plus one dearest call for each concurrent caller.                       *)
OvershootBounded ==
  budget # NoBudget =>
    \A d \in Days : spent[d] < budget + MaxCost * Cardinality(Callers)

(* Once the day's rows have reached the budget, the callers that may still *)
(* reach the provider that day are those that had their sum before, each   *)
(* for one chat: the sums answered from then on refuse, also the sum of a  *)
(* caller whose "today" is yesterday.                                      *)
GateClosed ==
  [][(budget # NoBudget /\ spent[day] >= budget /\ day' = day) => InFlight' \subseteq InFlight]_vars

(* Every charge of the provider is in exactly one place: in a row, in the  *)
(* finally block of a call about to write its row, or lost for good: with  *)
(* a request that was repeated or broken off, a model without a price or a *)
(* failed insert.  So the rows never show more than was charged.           *)
ChargesAccounted ==
  billed = SumFunction(spent) + SumFunction([c \in Callers |-> chat[c].cost]) + lost

(* A chat that was begun returns or raises: the retries are bounded and    *)
(* the finally block ends whether its insert succeeds or not.              *)
ChatEnds == \A c \in Callers : chat[c].at # "idle" ~> chat[c].at = "idle"

(* README.md:331: "checks the daily budget before every LLM call. At 80%   *)
(* spend it logs a soft warning; at 100% it raises BudgetExceededError":   *)
(* a sum below the limit lets the chat pass.                               *)
ServedBelowBudget ==
  [][\A c \in Callers :
       (CheckBudget(c) /\ chat[c].sum < budget) => chat'[c].at # "idle"]_vars
=============================================================================

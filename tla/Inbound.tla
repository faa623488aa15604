------------------------------ MODULE Inbound ------------------------------
(***************************************************************************)
(* The webhooks of one tenant: process_update in                           *)
(* src/app/integrations/telegram/webhook_handler.py and                    *)
(* process_instagram_webhook in                                            *)
(* src/app/integrations/meta/webhook_handler.py.                           *)
(*                                                                         *)
(* The provider delivers an update until it is answered with 200.  Each    *)
(* delivery is a request with a session of its own, in which the events of *)
(* the update are handled in turn, each in one transaction (conversation,  *)
(* customer, message); after the commit the event's job is enqueued.       *)
(* Requests interleave at every statement.  Transactions are READ          *)
(* COMMITTED, and of these tables only customers has unique indices.       *)
(*                                                                         *)
(* Chats are private ones: sender and chat are the same handle.            *)
(***************************************************************************)
EXTENDS Integers, Sequences, FiniteSets

CONSTANTS
  Updates,     \* what the providers have to deliver
  Handles,     \* the customers' names in the channels
  Events,      \* per update: its events in order
  MaxTries,    \* bound: deliveries of an Instagram update, until Meta gives up
  MaxFaults    \* bound: overlapping deliveries and requests that break off

VARIABLES
  paused,      \* the tenant's status is paused
  expired,     \* updates whose handoff token has expired
  convs,       \* per channel and handle: how many conversations there are
  customers,   \* the channel and handle of each customer
  stored,      \* per update and event: its rows in messages
  queued,      \* per update and event: its jobs
  acked,       \* updates answered with 200
  dropped,     \* updates ignored because the tenant was paused
  tries,       \* counts the deliveries of an update, for the bound MaxTries
  req,         \* per update: a delivery (1) and one that overlaps it (2)
  faults       \* counts faults, for the bound MaxFaults

vars == <<paused, expired, convs, customers, stored, queued, acked, dropped, tries, req, faults>>

Slots == {1, 2}
Kinds == {"telegram", "start", "dm", "postback", "comment"}

Channel(kind) == CASE kind \in {"telegram", "start"} -> "telegram"
                   [] kind \in {"dm", "postback"}    -> "instagram"
                   [] kind = "comment"               -> "instagram_comment"

(* A Telegram update is one message; "start" is /start with a token.       *)
IsTelegram(u) == Channel(Events[u][1].kind) = "telegram"

ASSUME EventsAssumption ==
  /\ Events \in [Updates -> Seq([kind : Kinds, handle : Handles]) \ {<<>>}]
  /\ \A u \in Updates : IF IsTelegram(u) THEN Len(Events[u]) = 1
                        ELSE \A i \in DOMAIN Events[u] : Channel(Events[u][i].kind) # "telegram"
ASSUME BoundsAssumption == MaxTries \in Nat /\ MaxFaults \in Nat

(* What get_or_create_conversation and the unique indices go by.           *)
Key(e) == <<Channel(e.kind), e.handle>>
Keys == UNION {{Key(Events[u][i]) : i \in DOMAIN Events[u]} : u \in Updates}

(* "token", "conv", "customer", "store", "enqueue": the awaits of event i; *)
(* "insert": no customer was found; "respond": all events are handled.     *)
(* newConv, newCust: rows inserted in the open transaction.                *)
Requests == [at : {"idle", "token", "conv", "customer", "insert", "store", "enqueue", "respond"},
             i : Nat, newConv : BOOLEAN, newCust : BOOLEAN]

At(place, n) == [at |-> place, i |-> n, newConv |-> FALSE, newCust |-> FALSE]
Idle == At("idle", 0)

Init ==
  /\ paused \in BOOLEAN
  /\ expired = {}
  /\ convs = [k \in Keys |-> 0]
  /\ customers = {}
  /\ stored = [u \in Updates |-> [i \in DOMAIN Events[u] |-> 0]]
  /\ queued = stored
  /\ acked = {} /\ dropped = {}
  /\ tries = [u \in Updates |-> 0]
  /\ req = [u \in Updates |-> [s \in Slots |-> Idle]]
  /\ faults = 0

-----------------------------------------------------------------------------
Event(u, s) == Events[u][req[u][s].i]

Goto(u, s, r) == req' = [req EXCEPT ![u][s] = r]

(* The request goes on in its transaction. *)
Move(u, s, place) == Goto(u, s, [req[u][s] EXCEPT !.at = place])

(* Mutant: the exception is swallowed, and the request answered with 200.  *)
MutFail(u, s) == Goto(u, s, At("respond", req[u][s].i))

(* An exception leaves the handler: 500, and the session is rolled back.   *)
Fail(u, s) == Goto(u, s, Idle)

(* Mutant: the position runs past the last event. *)
MutHandle(u, s, n) ==
  Goto(u, s, IF n > Len(Events[u]) THEN At("respond", n)
             ELSE At(IF Events[u][n].kind = "start" THEN "token" ELSE "conv", n))

(* The handling of event n begins; behind the last one, 200.               *)
Handle(u, s, n) ==
  Goto(u, s, IF n > Len(Events[u]) THEN At("respond", n - 1)
             ELSE At(IF Events[u][n].kind = "start" THEN "token" ELSE "conv", n))

(* The provider delivers an update not answered yet; again while the first *)
(* delivery runs, when that took too long.  The webhook of Instagram       *)
(* ignores all events of a paused tenant, that of Telegram none.           *)
Deliver(u, s) ==
  /\ u \notin acked /\ req[u][s].at = "idle"
  /\ IF \E t \in Slots : req[u][t].at # "idle"
       THEN faults < MaxFaults /\ faults' = faults + 1
       ELSE s = 1 /\ UNCHANGED faults
  /\ IF IsTelegram(u) THEN UNCHANGED tries
     ELSE tries[u] < MaxTries /\ tries' = [tries EXCEPT ![u] = @ + 1]
  /\ IF paused /\ ~IsTelegram(u)
       THEN dropped' = dropped \cup {u} /\ Goto(u, s, At("respond", 1))
       ELSE UNCHANGED dropped /\ Handle(u, s, 1)
  /\ UNCHANGED <<paused, expired, convs, customers, stored, queued, acked>>

(* Mutant: the expiry of the token is not looked at. *)
MutReadToken(u, s) ==
  /\ req[u][s].at = "token"
  /\ Fail(u, s)
  /\ UNCHANGED <<paused, expired, convs, customers, stored, queued, acked, dropped, tries, faults>>

(* _redeem_handoff.  A token that can be redeemed is, in the transaction;  *)
(* then logger.info raises a TypeError, as the module's logger is the      *)
(* standard library's, enabled for all levels by configure_logging, and    *)
(* takes no keywords; so does the logger.error that is to report it.  An   *)
(* expired token is logged by structlog, and the text taken as it is.      *)
ReadToken(u, s) ==
  /\ req[u][s].at = "token"
  /\ IF u \in expired THEN Move(u, s, "conv") ELSE Fail(u, s)
  /\ UNCHANGED <<paused, expired, convs, customers, stored, queued, acked, dropped, tries, faults>>

(* get_or_create_conversation: scalar_one_or_none raises if there are two. *)
(* Postbacks and comments resolve no customer.                             *)
FindConv(u, s) ==
  /\ req[u][s].at = "conv"
  /\ LET n == convs[Key(Event(u, s))]
         next == IF Event(u, s).kind \in {"postback", "comment"} THEN "store" ELSE "customer"
     IN  \/ n > 1 /\ Fail(u, s)
         \/ n = 1 /\ Move(u, s, next)
         \/ n = 0 /\ Goto(u, s, [req[u][s] EXCEPT !.at = next, !.newConv = TRUE])
  /\ UNCHANGED <<paused, expired, convs, customers, stored, queued, acked, dropped, tries, faults>>

(* get_or_create_by_telegram, get_or_create_by_instagram: the query.       *)
FindCustomer(u, s) ==
  /\ req[u][s].at = "customer"
  /\ Move(u, s, IF Key(Event(u, s)) \in customers THEN "store" ELSE "insert")
  /\ UNCHANGED <<paused, expired, convs, customers, stored, queued, acked, dropped, tries, faults>>

(* A transaction has inserted the customer k and is still open. *)
Inserting(k) ==
  \E u \in Updates, s \in Slots : req[u][s].newCust /\ Key(Event(u, s)) = k

(* The insert waits for an open transaction that has inserted the same     *)
(* handle.  The unique index refuses it if that one commits: Telegram's    *)
(* handler raises in its log call, Instagram's at the next use of the      *)
(* session.                                                                *)
InsertCustomer(u, s) ==
  /\ req[u][s].at = "insert" /\ ~Inserting(Key(Event(u, s)))
  /\ IF Key(Event(u, s)) \in customers THEN Fail(u, s)
     ELSE Goto(u, s, [req[u][s] EXCEPT !.at = "store", !.newCust = TRUE])
  /\ UNCHANGED <<paused, expired, convs, customers, stored, queued, acked, dropped, tries, faults>>

(* Mutant: the job is enqueued first; its message never is if that fails.  *)
MutStore(u, s) ==
  /\ req[u][s].at = "store"
  /\ queued' = [queued EXCEPT ![u][req[u][s].i] = @ + 1]
  /\ Move(u, s, "enqueue")
  /\ UNCHANGED <<paused, expired, convs, customers, stored, acked, dropped, tries, faults>>

(* The message is inserted and the transaction commits. *)
Store(u, s) ==
  /\ req[u][s].at = "store"
  /\ LET r == req[u][s]
         k == Key(Event(u, s))
     IN  /\ convs' = IF r.newConv THEN [convs EXCEPT ![k] = @ + 1] ELSE convs
         /\ customers' = IF r.newCust THEN customers \cup {k} ELSE customers
         /\ stored' = [stored EXCEPT ![u][r.i] = @ + 1]
         /\ Goto(u, s, At("enqueue", r.i))
  /\ UNCHANGED <<paused, expired, queued, acked, dropped, tries, faults>>

Enqueue(u, s) ==
  /\ req[u][s].at = "enqueue"
  /\ queued' = [queued EXCEPT ![u][req[u][s].i] = @ + 1]
  /\ Handle(u, s, req[u][s].i + 1)
  /\ UNCHANGED <<paused, expired, convs, customers, stored, acked, dropped, tries, faults>>

(* Mutant: the log call at the end of the handler raises, so that no 200   *)
(* is sent for what is stored and queued.                                  *)
MutRespond(u, s) ==
  /\ req[u][s].at = "respond"
  /\ Fail(u, s)
  /\ UNCHANGED <<paused, expired, convs, customers, stored, queued, acked, dropped, tries, faults>>

Respond(u, s) ==
  /\ req[u][s].at = "respond"
  /\ acked' = acked \cup {u}
  /\ Goto(u, s, Idle)
  /\ UNCHANGED <<paused, expired, convs, customers, stored, queued, dropped, tries, faults>>

(* The database or Redis fail, the process stops, or the answer is lost:   *)
(* what is committed stays, and the provider sees no 200.                  *)
BreakOff(u, s) ==
  /\ req[u][s].at # "idle" /\ faults < MaxFaults
  /\ Goto(u, s, Idle)
  /\ faults' = faults + 1
  /\ UNCHANGED <<paused, expired, convs, customers, stored, queued, acked, dropped, tries>>

(* Ten minutes after it was created a token expires. *)
Expire(u) ==
  /\ Events[u][1].kind = "start" /\ u \notin expired
  /\ expired' = expired \cup {u}
  /\ UNCHANGED <<paused, convs, customers, stored, queued, acked, dropped, tries, req, faults>>

SwitchTenant ==
  /\ paused' = ~paused
  /\ UNCHANGED <<expired, convs, customers, stored, queued, acked, dropped, tries, req, faults>>

Step(u, s) ==
  \/ ReadToken(u, s) \/ FindConv(u, s) \/ FindCustomer(u, s) \/ InsertCustomer(u, s)
  \/ Store(u, s) \/ Enqueue(u, s) \/ Respond(u, s)

Next ==
  \/ \E u \in Updates, s \in Slots : Deliver(u, s) \/ Step(u, s) \/ BreakOff(u, s)
  \/ \E u \in Updates : Expire(u)
  \/ SwitchTenant

Spec == Init /\ [][Next]_vars

(* Requests end, time passes, and the providers deliver what has not been  *)
(* answered with 200.                                                      *)
FairSpec ==
  Spec /\ \A u \in Updates : /\ WF_vars(Deliver(u, 1)) /\ WF_vars(Expire(u))
                             /\ \A s \in Slots : WF_vars(Step(u, s))

-----------------------------------------------------------------------------
TypeOK ==
  /\ paused \in BOOLEAN
  /\ convs \in [Keys -> Nat] /\ customers \subseteq Keys
  /\ expired \subseteq Updates /\ acked \subseteq Updates /\ dropped \subseteq Updates
  /\ stored \in [Updates -> Seq(Nat)] /\ queued \in [Updates -> Seq(Nat)]
  /\ req \in [Updates -> [Slots -> Requests]]
  /\ \A u \in Updates : /\ Len(stored[u]) = Len(Events[u]) /\ Len(queued[u]) = Len(Events[u])
                        /\ \A s \in Slots : req[u][s].i \in 0..Len(Events[u])
  /\ tries \in [Updates -> 0..MaxTries]
  /\ faults \in 0..MaxFaults

(* The worker is never given a job whose message is not in the database.   *)
JobHasMessage == \A u \in Updates : \A i \in DOMAIN Events[u] : queued[u][i] <= stored[u][i]

(* What was answered with 200 is not delivered again: each event has its   *)
(* job then, unless the tenant was paused.                                 *)
AckedIsQueued ==
  \A u \in acked : u \in dropped \/ \A i \in DOMAIN Events[u] : queued[u][i] > 0

(* A Telegram message is stored once, and once more only for a delivery    *)
(* that overlapped another or broke off behind the commit: no refused      *)
(* delivery leaves a message behind.                                       *)
StoredOncePerFault == \A u \in Updates : IsTelegram(u) => stored[u][1] <= 1 + faults

(* Every Telegram message gets its job, also a /start whose token cannot   *)
(* be redeemed, and messages that collide on a customer, unless two        *)
(* requests created its conversation twice.                                *)
TelegramQueued ==
  \A u \in Updates : IsTelegram(u) =>
    <>(queued[u][1] > 0 \/ convs[Key(Events[u][1])] > 1)

(* src/app/api/v1/webhooks.py:40: "Returns 200 immediately (Telegram       *)
(* requires fast ACK)": every Telegram update is answered with 200.        *)
TelegramAnswered == \A u \in Updates : IsTelegram(u) => <>(u \in acked)

(* src/app/integrations/telegram/webhook_handler.py:90: "/start <token>    *)
(* redeems a cross-channel handoff and loads Instagram conversation        *)
(* history": a request that reads a token in time is not refused.          *)
StartRedeems ==
  [][\A u \in Updates, s \in Slots :
       ReadToken(u, s) /\ u \notin expired => req'[u][s].at # "idle"]_vars
=============================================================================

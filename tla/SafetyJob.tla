----------------------------- MODULE SafetyJob -----------------------------
(***************************************************************************)
(* The safety job of src/app/workers/tasks/safety_job.py, run by the       *)
(* worker's cron every five minutes over the tenants that were active when *)
(* the run began: pause at 95% of the daily budget, pause at an error rate *)
(* above 20%, disable agents that keep failing.                            *)
(*                                                                         *)
(* One tenant is checked in one database session, with an await at every   *)
(* query; a pause is committed at once in a session of its own, what is    *)
(* done to agents only when the tenant's checks are over.                  *)
(***************************************************************************)
EXTENDS Integers, Sequences, FiniteSets

CONSTANTS
  Tenants, Agents,     \* each tenant has every agent
  Budget,              \* per tenant: daily_budget_usd, NoBudget for NULL
  NoBudget,
  CallCost,            \* what a successful call costs
  MinCalls,            \* MIN_CALLS_FOR_RATE_CHECK
  FailureLimit,        \* CONSECUTIVE_FAILURE_LIMIT
  MaxCalls,            \* bound: llm_calls rows of a tenant
  MaxFaults            \* bound: failed transactions and worker restarts

ASSUME BudgetAssumption == Budget \in [Tenants -> Nat \cup {NoBudget}]
ASSUME BoundsAssumption == MaxFaults \in Nat

VARIABLES
  tenant,    \* per tenant: status and enabled
  agentOn,   \* per tenant and agent: agents.enabled
  calls,     \* per tenant: its llm_calls rows, oldest first
  recent,    \* per tenant: how many of them are in the 15 minute window
  today,     \* per tenant: how many of them are of the current day
  job,       \* the run in progress
  faults     \* counts faults, for the bound MaxFaults

vars == <<tenant, agentOn, calls, recent, today, job, faults>>

(* at "idle"; "next": between tenants; then the checks of tenant t.        *)
(* listed: tenants still to check.  loaded: agents whose failures are      *)
(* still to be counted.  off: agents disabled in the open session.         *)
NoJob == [at |-> "idle", listed |-> {}, t |-> {}, loaded |-> {}, off |-> {}]

Init ==
  /\ tenant = [t \in Tenants |-> [status |-> "trial", enabled |-> TRUE]]
  /\ agentOn = [t \in Tenants |-> [a \in Agents |-> TRUE]]
  /\ calls = [t \in Tenants |-> <<>>]
  /\ recent = [t \in Tenants |-> 0]
  /\ today = [t \in Tenants |-> 0]
  /\ job = NoJob
  /\ faults = 0

-----------------------------------------------------------------------------
(* The last n rows of tenant t, as indices. *)
Last(t, n) == {i \in 1..Len(calls[t]) : i > Len(calls[t]) - n}

Spent(t) == CallCost * Cardinality({i \in Last(t, today[t]) : calls[t][i].ok})

(* _check_budget: not (spent < budget * 0.95). *)
OverBudget(t) == Budget[t] # NoBudget /\ 100 * Spent(t) >= 95 * Budget[t]

(* _check_error_rate: enough calls in the window, above 20% of them failed.*)
Errors(t) == Cardinality({i \in Last(t, recent[t]) : ~calls[t][i].ok})
ErrorRateHigh(t) == recent[t] >= MinCalls /\ 5 * Errors(t) > recent[t]

(* _count_consecutive_failures: the agent's latest rows, newest first, up  *)
(* to FailureLimit + 5 of them, until one that succeeded.                  *)
Streak(t, a) ==
  LET own  == SelectSeq(calls[t], LAMBDA r : r.agent = a)
      read == {i \in 1..Len(own) : i > Len(own) - (FailureLimit + 5)}
  IN  Cardinality({i \in read : \A j \in i..Len(own) : ~own[j].ok})

Failing(t, a) == Streak(t, a) >= FailureLimit

(* Between tenants, with these still to check. *)
TurnTo(tenants) == [NoJob EXCEPT !.at = "next", !.listed = tenants]

-----------------------------------------------------------------------------
(* run_safety_checks lists the active tenants. *)
Start ==
  /\ job.at = "idle"
  /\ job' = TurnTo({t \in Tenants : tenant[t].status = "active"})
  /\ UNCHANGED <<tenant, agentOn, calls, recent, today, faults>>

(* The next listed tenant, or the end of the run. *)
NextTenant ==
  /\ job.at = "next"
  /\ \/ job.listed = {} /\ job' = NoJob
     \/ \E t \in job.listed :
          job' = [NoJob EXCEPT !.at = "budget", !.listed = job.listed \ {t}, !.t = {t}]
  /\ UNCHANGED <<tenant, agentOn, calls, recent, today, faults>>

(* Mutant: the exception of one tenant ends the run. *)
MutCheckBudget(t) ==
  /\ job.at = "budget" /\ job.t = {t}
  /\ job' = IF OverBudget(t) /\ Budget[t] = 0
              THEN NoJob
              ELSE [job EXCEPT !.at = IF OverBudget(t) THEN "pause" ELSE "rate"]
  /\ UNCHANGED <<tenant, agentOn, calls, recent, today, faults>>

(* The percentage of the warning divides by the budget: a budget of zero   *)
(* raises, and the run goes on with the next tenant.                       *)
CheckBudget(t) ==
  /\ job.at = "budget" /\ job.t = {t}
  /\ job' = CASE ~OverBudget(t) -> [job EXCEPT !.at = "rate"]
              [] OverBudget(t) /\ Budget[t] = 0 -> TurnTo(job.listed)
              [] OTHER -> [job EXCEPT !.at = "pause"]
  /\ UNCHANGED <<tenant, agentOn, calls, recent, today, faults>>

CheckErrorRate(t) ==
  /\ job.at = "rate" /\ job.t = {t}
  /\ job' = [job EXCEPT !.at = IF ErrorRateHigh(t) THEN "pause" ELSE "agents"]
  /\ UNCHANGED <<tenant, agentOn, calls, recent, today, faults>>

(* Mutant: it assigns to the detached tenant of the run, not to the row. *)
MutPauseTenant(t) ==
  /\ job.at = "pause" /\ job.t = {t}
  /\ job' = [job EXCEPT !.at = "agents"]
  /\ UNCHANGED <<tenant, agentOn, calls, recent, today, faults>>

(* Mutant: a tenant that is paused needs no further check. *)
MutPauseEndsChecks(t) ==
  /\ job.at = "pause" /\ job.t = {t}
  /\ tenant' = [tenant EXCEPT ![t] = [status |-> "paused", enabled |-> FALSE]]
  /\ job' = TurnTo(job.listed)
  /\ UNCHANGED <<agentOn, calls, recent, today, faults>>

(* _pause_tenant commits whatever the row says by now. *)
PauseTenant(t) ==
  /\ job.at = "pause" /\ job.t = {t}
  /\ tenant' = [tenant EXCEPT ![t] = [status |-> "paused", enabled |-> FALSE]]
  /\ job' = [job EXCEPT !.at = "agents"]
  /\ UNCHANGED <<agentOn, calls, recent, today, faults>>

(* _check_consecutive_failures loads the enabled agents, and counts the    *)
(* failures of one after the other.                                        *)
LoadAgents(t) ==
  /\ job.at = "agents" /\ job.t = {t}
  /\ job' = [job EXCEPT !.at = "count", !.loaded = {a \in Agents : agentOn[t][a]}]
  /\ UNCHANGED <<tenant, agentOn, calls, recent, today, faults>>

CountFailures(t, a) ==
  /\ job.at = "count" /\ job.t = {t} /\ a \in job.loaded
  /\ job' = [job EXCEPT !.loaded = @ \ {a},
                        !.off = IF Failing(t, a) THEN @ \cup {a} ELSE @]
  /\ UNCHANGED <<tenant, agentOn, calls, recent, today, faults>>

(* Mutant: the agents found failing are kept for the next tenant. *)
MutCommitKeepsState(t) ==
  /\ job.at = "count" /\ job.t = {t} /\ job.loaded = {}
  /\ agentOn' = [agentOn EXCEPT ![t] = [a \in Agents |-> agentOn[t][a] /\ a \notin job.off]]
  /\ job' = [job EXCEPT !.at = "next"]
  /\ UNCHANGED <<tenant, calls, recent, today, faults>>

(* The session of the tenant's checks commits. *)
CommitChecks(t) ==
  /\ job.at = "count" /\ job.t = {t} /\ job.loaded = {}
  /\ agentOn' = [agentOn EXCEPT ![t] = [a \in Agents |-> agentOn[t][a] /\ a \notin job.off]]
  /\ job' = TurnTo(job.listed)
  /\ UNCHANGED <<tenant, calls, recent, today, faults>>

(* A query or a commit fails: _check_tenant raises, the session is rolled  *)
(* back, the run goes on.  Or the worker restarts and the run is gone.     *)
Fault ==
  /\ faults < MaxFaults
  /\ \/ job.t # {} /\ job' = TurnTo(job.listed)
     \/ job.at # "idle" /\ job' = NoJob
  /\ faults' = faults + 1
  /\ UNCHANGED <<tenant, agentOn, calls, recent, today>>

JobStep ==
  \/ Start \/ NextTenant
  \/ \E t \in Tenants :
       \/ CheckBudget(t) \/ CheckErrorRate(t) \/ PauseTenant(t)
       \/ LoadAgents(t) \/ CommitChecks(t)
       \/ \E a \in Agents : CountFailures(t, a)

-----------------------------------------------------------------------------
(* A chat of agent a writes its row.  A budget of zero admits no chat.     *)
WriteCall(t, a, success) ==
  /\ Len(calls[t]) < MaxCalls /\ Budget[t] # 0
  /\ calls' = [calls EXCEPT ![t] = Append(@, [agent |-> a, ok |-> success])]
  /\ recent' = [recent EXCEPT ![t] = @ + 1]
  /\ today' = [today EXCEPT ![t] = @ + 1]
  /\ UNCHANGED <<tenant, agentOn, job, faults>>

(* The oldest row of the window becomes older than 15 minutes. *)
WindowMoves(t) ==
  /\ recent[t] > 0
  /\ recent' = [recent EXCEPT ![t] = @ - 1]
  /\ UNCHANGED <<tenant, agentOn, calls, today, job, faults>>

Midnight ==
  /\ today' = [t \in Tenants |-> 0]
  /\ UNCHANGED <<tenant, agentOn, calls, recent, job, faults>>

(* The owner throws or releases the kill switch (TenantControl has the     *)
(* races of these requests).                                               *)
OwnerSwitches(t, on) ==
  /\ tenant' = [tenant EXCEPT ![t] = [status |-> IF on THEN "active" ELSE "paused",
                                      enabled |-> on]]
  /\ UNCHANGED <<agentOn, calls, recent, today, job, faults>>

(* PATCH /agents/{id} with enabled, and POST /agents/{id}/disable. *)
OwnerSetsAgent(t, a, on) ==
  /\ agentOn' = [agentOn EXCEPT ![t][a] = on]
  /\ UNCHANGED <<tenant, calls, recent, today, job, faults>>

Next ==
  \/ JobStep \/ Fault \/ Midnight
  \/ \E t \in Tenants :
       \/ WindowMoves(t)
       \/ \E on \in BOOLEAN : OwnerSwitches(t, on)
       \/ \E a \in Agents, b \in BOOLEAN : WriteCall(t, a, b) \/ OwnerSetsAgent(t, a, b)

Spec == Init /\ [][Next]_vars

(* The cron starts a run every five minutes, and every query of a run ends.*)
FairSpec == Spec /\ WF_vars(JobStep)

-----------------------------------------------------------------------------
TypeOK ==
  /\ tenant \in [Tenants -> [status : {"trial", "active", "paused"}, enabled : BOOLEAN]]
  /\ agentOn \in [Tenants -> [Agents -> BOOLEAN]]
  /\ calls \in [Tenants -> Seq([agent : Agents, ok : BOOLEAN])]
  /\ \A t \in Tenants : recent[t] \in 0..Len(calls[t]) /\ today[t] \in 0..Len(calls[t])
  /\ job \in [at : {"idle", "next", "budget", "rate", "pause", "agents", "count"},
              listed : SUBSET Tenants, t : SUBSET Tenants,
              loaded : SUBSET Agents, off : SUBSET Agents]
  /\ job.at \in {"idle", "next"} => job.t = {} /\ job.off = {}
  /\ faults \in 0..MaxFaults

Active(t) == tenant[t].status = "active"
Overspent(t) == today[t] > 0 /\ OverBudget(t)

(* A tenant that has spent 95% of its budget is paused by the end of a     *)
(* later run, whatever happens to the other tenants' checks, unless the    *)
(* day ends or its owner stops it first.                                   *)
OverspentPaused ==
  \A t \in Tenants :
    Active(t) /\ Overspent(t) ~> ~Active(t) \/ ~Overspent(t)

(* So is a tenant whose window shows too many errors, unless it recovers.  *)
ErroringPaused ==
  \A t \in Tenants : Active(t) /\ ErrorRateHigh(t) ~> ~Active(t) \/ ~ErrorRateHigh(t)

(* The tenant is among those that the run has still to check. *)
Listed(t) == t \in job.listed

(* An agent that keeps failing is disabled, if runs list its tenant again  *)
(* and again, which its being active at their beginning is enough for.  It *)
(* does not save the agent that each of them also pauses the tenant, that  *)
(* the owner switches it off and on meanwhile, or that a run had paused it *)
(* and was then rolled back with the disabled agent.                       *)
FailingAgentDisabled ==
  \A t \in Tenants, a \in Agents :
    []<>Listed(t) =>
      (Failing(t, a) /\ agentOn[t][a] ~> ~Failing(t, a) \/ ~agentOn[t][a])

(* README.md:257: "Budget >= 95% of daily_budget_usd -> auto-pause tenant  *)
(* + alert", of every tenant, also one still in the trial it registers in. *)
OverspentStopped ==
  \A t \in Tenants : Overspent(t) ~> ~tenant[t].enabled \/ ~Overspent(t)
=============================================================================

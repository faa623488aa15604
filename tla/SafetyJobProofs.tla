-------------------------- MODULE SafetyJobProofs --------------------------
(***************************************************************************)
(* Proofs about SafetyJob for every set of tenants and agents, budget and  *)
(* limit: the types, with the windows inside what was called, and that a   *)
(* run holds nothing of a tenant once it has left it.                      *)
(***************************************************************************)
EXTENDS SafetyJob, SequenceTheorems, TLAPS

Rows == [agent : Agents, ok : BOOLEAN]
Places == {"idle", "next", "budget", "rate", "pause", "agents", "count"}
Jobs == [at : Places, listed : SUBSET Tenants, t : SUBSET Tenants,
         loaded : SUBSET Agents, off : SUBSET Agents]

(* A run between tenants, or none. *)
Left(j) == j.at \in {"idle", "next"} => j.t = {} /\ j.off = {}

LEMMA NoJobType == NoJob \in Jobs /\ Left(NoJob)
  BY DEF NoJob, Jobs, Places, Left

LEMMA TurnType ==
  ASSUME NEW tenants \in SUBSET Tenants
  PROVE  TurnTo(tenants) \in Jobs /\ Left(TurnTo(tenants))
<1>1. ASSUME NEW j \in Jobs, j.t = {}, j.off = {}
      PROVE  LET k == [j EXCEPT !.at = "next", !.listed = tenants]
             IN  k \in Jobs /\ k.t = {} /\ k.off = {}
  BY <1>1 DEF Jobs, Places
<1>2. NoJob.t = {} /\ NoJob.off = {}
  BY DEF NoJob
<1> QED
  BY <1>1, <1>2, NoJobType DEF TurnTo, Left

(* The next check of the tenant the run is at. *)
LEMMA OnType ==
  ASSUME NEW j \in Jobs, NEW p \in Places \ {"idle", "next"}
  PROVE  [j EXCEPT !.at = p] \in Jobs /\ Left([j EXCEPT !.at = p])
  BY DEF Jobs, Places, Left

(* A step of the run that only moves it, or disables agents at its end.    *)
LEMMA JobMoves ==
  ASSUME TypeOK, job' \in Jobs, Left(job'), UNCHANGED <<calls, recent, today>>,
         tenant' \in [Tenants -> [status : {"trial", "active", "paused"}, enabled : BOOLEAN]],
         agentOn' \in [Tenants -> [Agents -> BOOLEAN]], faults' \in 0..MaxFaults
  PROVE  TypeOK'
  BY DEF TypeOK, Jobs, Places, Left

LEMMA TypeInit == Init => TypeOK
<1> SUFFICES ASSUME Init PROVE TypeOK
  OBVIOUS
<1>1. NoJob \in Jobs /\ Left(NoJob)
  BY NoJobType
<1>2. <<>> \in Seq([agent : Agents, ok : BOOLEAN]) /\ Len(<<>>) = 0
  OBVIOUS
<1> QED
  BY <1>1, <1>2, BoundsAssumption DEF Init, TypeOK, Jobs, Places, Left

LEMMA JobStepType == TypeOK /\ JobStep => TypeOK'
<1> SUFFICES ASSUME TypeOK, JobStep PROVE TypeOK'
  OBVIOUS
<1>0. job \in Jobs /\ job.listed \subseteq Tenants /\ job.loaded \subseteq Agents
      /\ job.off \subseteq Agents
  BY DEF TypeOK, Jobs, Places
<1>a. /\ tenant \in [Tenants -> [status : {"trial", "active", "paused"}, enabled : BOOLEAN]]
      /\ agentOn \in [Tenants -> [Agents -> BOOLEAN]] /\ faults \in 0..MaxFaults
  BY DEF TypeOK
<1>1. CASE Start
  BY <1>a, <1>1, TurnType, JobMoves DEF Start
<1>2. CASE NextTenant
  <2>1. ASSUME NEW t \in job.listed,
               job' = [NoJob EXCEPT !.at = "budget", !.listed = job.listed \ {t}, !.t = {t}]
        PROVE  job' \in Jobs /\ Left(job')
    <3>1. job' = [at |-> "budget", listed |-> job.listed \ {t}, t |-> {t},
                  loaded |-> {}, off |-> {}]
      BY <2>1 DEF NoJob
    <3> QED
      BY <1>0, <3>1 DEF Jobs, Places, Left
  <2>2. job' \in Jobs /\ Left(job')
    BY <1>2, <2>1, NoJobType DEF NextTenant
  <2> QED
    BY <1>a, <1>2, <2>2, JobMoves DEF NextTenant
<1>3. ASSUME NEW t \in Tenants, CheckBudget(t) PROVE TypeOK'
  <2>1. job' \in Jobs /\ Left(job')
    <3>1. \/ job' = [job EXCEPT !.at = "rate"] \/ job' = [job EXCEPT !.at = "pause"]
          \/ job' = TurnTo(job.listed)
      BY <1>3 DEF CheckBudget
    <3>2. "rate" \in Places \ {"idle", "next"} /\ "pause" \in Places \ {"idle", "next"}
      BY DEF Places
    <3> QED
      BY <1>0, <3>1, <3>2, OnType, TurnType
  <2> QED
    BY <1>a, <1>3, <2>1, JobMoves DEF CheckBudget
<1>4. ASSUME NEW t \in Tenants, CheckErrorRate(t) PROVE TypeOK'
  <2>1. job' \in Jobs /\ Left(job')
    BY <1>0, <1>4, OnType DEF CheckErrorRate, Places
  <2> QED
    BY <1>a, <1>4, <2>1, JobMoves DEF CheckErrorRate
<1>5. ASSUME NEW t \in Tenants, PauseTenant(t) PROVE TypeOK'
  <2>1. job' \in Jobs /\ Left(job')
    BY <1>0, <1>5, OnType DEF PauseTenant, Places
  <2>2. tenant' \in [Tenants -> [status : {"trial", "active", "paused"}, enabled : BOOLEAN]]
    BY <1>a, <1>5 DEF PauseTenant
  <2> QED
    BY <1>a, <1>5, <2>1, <2>2, JobMoves DEF PauseTenant
<1>6. ASSUME NEW t \in Tenants, LoadAgents(t) PROVE TypeOK'
  <2>1. job' \in Jobs /\ Left(job')
    BY <1>0, <1>6 DEF LoadAgents, Jobs, Places, Left
  <2> QED
    BY <1>a, <1>6, <2>1, JobMoves DEF LoadAgents
<1>7. ASSUME NEW t \in Tenants, NEW a \in Agents, CountFailures(t, a) PROVE TypeOK'
  <2>1. PICK off \in SUBSET Agents :
          job' = [job EXCEPT !.loaded = job.loaded \ {a}, !.off = off]
    <3>1. job.off \cup {a} \in SUBSET Agents /\ job.off \in SUBSET Agents
      BY <1>0
    <3> QED
      BY <1>7, <3>1 DEF CountFailures
  <2>2. job.at = "count"
    BY <1>7 DEF CountFailures
  <2>3. job' \in Jobs /\ Left(job')
    BY <1>0, <2>1, <2>2 DEF Jobs, Places, Left
  <2> QED
    BY <1>a, <1>7, <2>3, JobMoves DEF CountFailures
<1>8. ASSUME NEW t \in Tenants, CommitChecks(t) PROVE TypeOK'
  <2>1. agentOn' \in [Tenants -> [Agents -> BOOLEAN]]
    BY <1>a, <1>8 DEF CommitChecks
  <2> QED
    BY <1>0, <1>a, <1>8, <2>1, TurnType, JobMoves DEF CommitChecks
<1> QED
  BY <1>1, <1>2, <1>3, <1>4, <1>5, <1>6, <1>7, <1>8 DEF JobStep

LEMMA TypeStep == TypeOK /\ [Next]_vars => TypeOK'
<1> SUFFICES ASSUME TypeOK, [Next]_vars PROVE TypeOK'
  OBVIOUS
<1>0. ASSUME NEW t \in Tenants PROVE calls[t] \in Seq(Rows) /\ Len(calls[t]) \in Nat
  <2>1. calls[t] \in Seq(Rows)
    BY DEF TypeOK, Rows
  <2> QED
    BY <2>1, LenProperties
<1>1. CASE JobStep
  BY <1>1, JobStepType
<1>2. CASE Fault
  <2>1. job' \in Jobs /\ Left(job')
    BY <1>2, NoJobType, TurnType DEF Fault, TypeOK
  <2>2. faults' \in 0..MaxFaults
    BY <1>2, BoundsAssumption DEF Fault, TypeOK
  <2> QED
    BY <1>2, <2>1, <2>2, JobMoves DEF Fault, TypeOK
<1>3. CASE Midnight
  <2>1. \A t \in Tenants : today'[t] = 0 /\ 0 \in 0..Len(calls[t])
    BY <1>0, <1>3 DEF Midnight
  <2> QED
    BY <1>3, <2>1 DEF Midnight, TypeOK
<1>4. ASSUME NEW t \in Tenants, WindowMoves(t) PROVE TypeOK'
  <2>1. \A s \in Tenants : recent'[s] \in 0..Len(calls[s])
    BY <1>0, <1>4 DEF WindowMoves, TypeOK
  <2> QED
    BY <1>4, <2>1 DEF WindowMoves, TypeOK
<1>5. ASSUME NEW t \in Tenants, NEW on \in BOOLEAN, OwnerSwitches(t, on) PROVE TypeOK'
  BY <1>5 DEF OwnerSwitches, TypeOK
<1>6. ASSUME NEW t \in Tenants, NEW a \in Agents, NEW b \in BOOLEAN, OwnerSetsAgent(t, a, b)
      PROVE  TypeOK'
  BY <1>6 DEF OwnerSetsAgent, TypeOK
<1>7. ASSUME NEW t \in Tenants, NEW a \in Agents, NEW b \in BOOLEAN, WriteCall(t, a, b)
      PROVE  TypeOK'
  <2> DEFINE r == [agent |-> a, ok |-> b]
  <2>1. r \in Rows
    BY DEF Rows
  <2>2. Append(calls[t], r) \in Seq(Rows) /\ Len(Append(calls[t], r)) = Len(calls[t]) + 1
    BY <1>0, <2>1, AppendProperties
  <2>3. /\ calls' = [calls EXCEPT ![t] = Append(calls[t], r)]
        /\ recent' = [recent EXCEPT ![t] = @ + 1] /\ today' = [today EXCEPT ![t] = @ + 1]
        /\ UNCHANGED <<tenant, agentOn, job, faults>>
    BY <1>7 DEF WriteCall
  <2> HIDE DEF r
  <2>4. calls' \in [Tenants -> Seq(Rows)]
    BY <2>2, <2>3 DEF TypeOK, Rows
  <2>5. \A s \in Tenants : recent'[s] \in 0..Len(calls'[s]) /\ today'[s] \in 0..Len(calls'[s])
    BY <1>0, <2>2, <2>3 DEF TypeOK
  <2> QED
    BY <2>3, <2>4, <2>5 DEF TypeOK, Rows
<1>8. CASE UNCHANGED vars
  BY <1>8 DEF vars, TypeOK
<1> QED
  BY <1>1, <1>2, <1>3, <1>4, <1>5, <1>6, <1>7, <1>8 DEF Next

(* run_safety_checks and _check_tenant keep their types, and nothing of    *)
(* one tenant's session is left when the next tenant's turn comes.         *)
THEOREM TypeCorrect == Spec => []TypeOK
  BY TypeInit, TypeStep, PTL DEF Spec
=============================================================================

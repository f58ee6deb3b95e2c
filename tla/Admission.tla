----------------------------- MODULE Admission -----------------------------
(***************************************************************************)
(* A job from its offer to the end of its session, as far as the limits    *)
(* see it: the filter stack AgentPool builds (circuit breaker, tenant cap, *)
(* agent cap, base filter), the session that starts later and counts       *)
(* itself in the gauges, its outcome in the tenant's breaker, and the      *)
(* worker's supervisor, which hears of it last.                            *)
(*                                                                         *)
(* The three upper filters run without suspending; the base filter may be  *)
(* an application's coroutine and take its time, and LiveKit assigns the   *)
(* accepted job later still.                                               *)
(***************************************************************************)
EXTENDS Routing, CircuitBreaker

CONSTANTS
  Jobs,          \* bound on the jobs offered
  Offers,        \* the shapes they may have
  Registry,      \* the registered agents, in order
  AgentCap,      \* max_sessions_per_agent
  TenantCap,     \* max_sessions_per_tenant
  OnlyOwnRooms,  \* accept_only_registered_rooms, else an application's request_fnc
  FailureLimit   \* consecutive_failure_limit

ASSUME AdmissionConstants ==
  /\ Offers \subseteq JobShapes
  /\ Registry \in Seq(Names)
  /\ TenantIds \cup {DefaultTenant} = Tenants
  /\ OnlyOwnRooms \in BOOLEAN
  /\ FailureLimit \in Nat \ {0}
  /\ \A a \in DOMAIN AgentCap : a \in Names /\ AgentCap[a] \in Nat \ {0}
  /\ \A t \in DOMAIN TenantCap : t \in Tenants /\ TenantCap[t] \in Nat \ {0}

VARIABLES
  shape,    \* what each job is, fixed
  stage,    \* how far each job is
  byAgent,  \* metrics.sessions_by_agent
  byTenant, \* metrics.sessions_by_tenant
  failures, \* CoroutinePool._consecutive_failures
  tripped,  \* CoroutinePool._failure_limit_fired
  failed,   \* history: the jobs whose executor ended FAILED since the last SUCCESS
  blamed,   \* history: the jobs reported to the breaker as failures
  burst     \* history: the most jobs ever underway at once, per agent and per tenant

worker == <<failures, tripped, failed>>
vars == <<shape, stage, byAgent, byTenant, worker, blamed, burst, breakerVars>>

Agent(j)  == ResolveAgent(Registry, shape[j])
Tenant(j) == SessionTenant(shape[j])
Startable(j) == Agent(j) # Error /\ Tenant(j) # Error

(* A job is underway between its screening and the start of its session:   *)
(* no gauge counts it yet.                                                 *)
Underway == {j \in Jobs : stage[j] \in {"screened", "accepted"}}

Full(caps, key, counts) == key \in DOMAIN caps /\ counts[key] >= caps[key]

Becomes(j, next) == stage' = [stage EXCEPT ![j] = next]

\* Mutant: the tenant filter replaces the agent filter instead of wrapping it.
WithinCapsOfTenant(j) == ~Full(TenantCap, RequestTenant(shape[j]), byTenant)

(* The tenant filter over the agent filter: headroom under both.           *)
WithinCaps(j) ==
  /\ ~Full(TenantCap, RequestTenant(shape[j]), byTenant)
  /\ ~Full(AgentCap, RequestAgent(Registry, shape[j]), byAgent)

CircuitOpen(j) == RequestTenant(shape[j]) \in Tenants /\ Rejects(RequestTenant(shape[j]))

(* The breaker is asked first, whatever the caps say, and may recover.     *)
Screen(j) ==
  /\ stage[j] = "offered"
  /\ IF RequestTenant(shape[j]) \in Tenants
     THEN Ask(RequestTenant(shape[j]))
     ELSE UNCHANGED breakerVars
  /\ CASE CircuitOpen(j) -> Becomes(j, "locked_out") /\ UNCHANGED burst
       [] ~CircuitOpen(j) /\ ~WithinCaps(j) -> Becomes(j, "rejected") /\ UNCHANGED burst
       [] ~CircuitOpen(j) /\ WithinCaps(j) ->
            /\ Becomes(j, "screened")
            /\ LET Alike(KeyOf(_)) == {k \in Underway : KeyOf(k) = KeyOf(j)} \cup {j}
                   Peak(old, KeyOf(_)) == Max({old, Cardinality(Alike(KeyOf))})
               IN  burst' = IF ~Startable(j) THEN burst
                            ELSE [burst EXCEPT !.agent[Agent(j)] = Peak(@, Agent),
                                               !.tenant[Tenant(j)] = Peak(@, Tenant)]
  /\ UNCHANGED <<shape, byAgent, byTenant, worker, blamed>>

\* The ownership filter, or whatever the application's request_fnc decides.
BaseDecides(j) ==
  /\ stage[j] = "screened"
  /\ \/ (OnlyOwnRooms => OwnsRoom(Registry, shape[j])) /\ Becomes(j, "accepted")
     \/ (OnlyOwnRooms => ~OwnsRoom(Registry, shape[j])) /\ Becomes(j, "rejected")
  /\ UNCHANGED <<shape, byAgent, byTenant, worker, blamed, burst, breakerVars>>

(* run_session: the resolver decides again, and the session counts itself. *)
StartSession(j) ==
  /\ stage[j] = "accepted" /\ Startable(j)
  /\ Becomes(j, "running")
  /\ byAgent' = [byAgent EXCEPT ![Agent(j)] = @ + 1]
  /\ byTenant' = [byTenant EXCEPT ![Tenant(j)] = @ + 1]
  /\ UNCHANGED <<shape, worker, blamed, burst, breakerVars>>

\* build_session raises: no gauge and no breaker hears of the job, its executor is FAILED.
RefuseSession(j) ==
  /\ stage[j] = "accepted" /\ ~Startable(j)
  /\ Becomes(j, "failing")
  /\ UNCHANGED <<shape, byAgent, byTenant, worker, blamed, burst, breakerVars>>

\* _decrement_locked stops at zero.
Decremented(counts, key) == [counts EXCEPT ![key] = Max({0, @ - 1})]

(* _finish_session.  A session that is ok for the breaker may still end    *)
(* FAILED: its verdict was taken when the entrypoint returned.             *)
EndSession(j, ok) ==
  /\ stage[j] = "running"
  /\ byAgent' = Decremented(byAgent, Agent(j))
  /\ byTenant' = Decremented(byTenant, Tenant(j))
  /\ RecordOutcome(Tenant(j), ok)
  /\ \E verdict \in {"ending", "failing"} : (~ok => verdict = "failing") /\ Becomes(j, verdict)
  /\ blamed' = IF ok THEN blamed ELSE blamed \cup {j}
  /\ UNCHANGED <<shape, worker, burst>>

(* _observe_executor_status, in the executor's done callback.              *)
Reap(j) ==
  /\ stage[j] \in {"ending", "failing"}
  /\ Becomes(j, "closed")
  /\ IF stage[j] = "ending"
     THEN failures' = 0 /\ tripped' = FALSE /\ failed' = {}
     ELSE /\ failures' = failures + 1
          /\ failed' = failed \cup {j}
          /\ tripped' = (tripped \/ failures' >= FailureLimit)
  /\ UNCHANGED <<shape, byAgent, byTenant, blamed, burst, breakerVars>>

AdmissionInit ==
  /\ BreakerInit
  /\ shape \in [Jobs -> Offers]
  /\ stage = [j \in Jobs |-> "offered"]
  /\ byAgent = [a \in Names |-> 0]
  /\ byTenant = [t \in Tenants |-> 0]
  /\ failures = 0 /\ tripped = FALSE /\ failed = {} /\ blamed = {}
  /\ burst = [agent |-> [a \in Names |-> 0], tenant |-> [t \in Tenants |-> 0]]

Job(j) ==
  \/ Screen(j) \/ BaseDecides(j)
  \/ StartSession(j) \/ RefuseSession(j)
  \/ \E ok \in BOOLEAN : EndSession(j, ok)
  \/ Reap(j)

ClockTicks == Tick /\ UNCHANGED <<shape, stage, byAgent, byTenant, worker, blamed, burst>>

AdmissionNext == ClockTicks \/ \E j \in Jobs : Job(j)
AdmissionSpec == AdmissionInit /\ [][AdmissionNext]_vars

----------------------------------------------------------------------------
AdmissionTypeOK ==
  /\ BreakerTypeOK
  /\ shape \in [Jobs -> Offers]
  /\ stage \in [Jobs -> {"offered", "locked_out", "rejected", "screened", "accepted",
                         "running", "ending", "failing", "closed"}]
  /\ byAgent \in [Names -> Nat] /\ byTenant \in [Tenants -> Nat]
  /\ failures \in Nat /\ tripped \in BOOLEAN /\ failed \subseteq Jobs /\ blamed \subseteq Jobs
  /\ burst \in [agent : [Names -> Nat], tenant : [Tenants -> Nat]]

(* The caps are soft by the burst and by nothing else: the sessions of an  *)
(* agent or of a tenant exceed its cap by no more than the jobs that were  *)
(* underway together, one of which found the last free place.              *)
SoftCaps ==
  /\ \A a \in DOMAIN AgentCap : byAgent[a] <= AgentCap[a] - 1 + Max({1, burst.agent[a]})
  /\ \A t \in DOMAIN TenantCap : byTenant[t] <= TenantCap[t] - 1 + Max({1, burst.tenant[t]})

\* A job is locked out for sessions of its own tenant that started and ended in failure.
LockoutNamesItsTenant ==
  \A j \in Jobs : stage[j] = "locked_out" =>
    Cardinality({k \in blamed : Tenant(k) = RequestTenant(shape[j])}) * RatioDen
      > RatioNum * MinSamples

(* While a tenant's breaker stays open its calls only drain: no job of it  *)
(* joins those that were underway when the breaker opened; and no job is   *)
(* refused for what a neighbour's sessions did.                            *)
InHand(t) == {j \in Underway \cup {k \in Jobs : stage[k] = "running"} : Tenant(j) = t}
LockedOutTenantDrains ==
  /\ []LockoutNamesItsTenant
  /\ [][\A t \in Tenants :
       \A until \in openUntil[t] : now < until => InHand(t)' \subseteq InHand(t)]_vars

----------------------------------------------------------------------------
(* What the repository says and the code does not do.                      *)

(* The breaker lets "one noisy client never tear down the worker for the   *)
(* others": one tenant's failing sessions alone do not trip it.            *)
NoisyTenantSparesWorker ==
  tripped => \E j, k \in failed : Tenant(j) # Tenant(k)
=============================================================================

-------------------------- MODULE SessionLifecycle --------------------------
(***************************************************************************)
(* One session inside its task: core/wiring.py's run_session, which the    *)
(* executor calls as the entrypoint, and run_session_end, which it calls   *)
(* as session_end_fnc.  They keep the gauge of active sessions and tell    *)
(* the observers, the metrics and the circuit breaker how a session ended. *)
(* A held session's end is deferred: run_session leaves a _finish_session  *)
(* with the outcome it has seen, and run_session_end calls it.             *)
(*                                                                         *)
(* CoroutinePool sees all this as an opaque entrypoint; TaskSteps checks   *)
(* that every step here is one it allows.  As there, an action is the code *)
(* between two suspension points.                                          *)
(***************************************************************************)
EXTENDS Naturals, Sequences, FiniteSets

CONSTANTS
  Sessions,
  Agents,
  FakeJobs,    \* the sessions of simulate_job: never held open
  Observers,   \* how many observers are registered; called in order, 1 .. Observers
  MaxCancels   \* bound: cancellations aimed at one session's task

ASSUME LifecycleConstants ==
  /\ "none" \notin Agents
  /\ FakeJobs \subseteq Sessions
  /\ Observers \in Nat \ {0}
  /\ MaxCancels \in Nat

VARIABLES
  phase,      \* where the session's task is suspended
  hook,       \* the observer whose hook is running, in the phases that call hooks
  status,     \* the executor's _status
  cancel,     \* a cancellation is pending on the task
  cancels,    \* task.cancelling(): the cancellations requested, never undone
  absorbed,   \* history: cancellations the code at a suspension point swallowed
  shutdown,   \* _shutdown_fut is resolved
  entered,    \* history: the entrypoint was reached
  primary,    \* ctx._primary_agent_session is set
  agent,      \* the agent the session was routed to, "none" before
  error,      \* sys.exc_info() at the finally of an entrypoint that ends inline
  finish,     \* ctx._openrtc_session_finish: "none", or the outcome it will report
  active,     \* metrics.sessions_by_agent
  failures,   \* metrics.total_session_failures
  reports,    \* history: the calls of _finish_session, in order
  cut         \* history: the CancelledError that ended the round of end hooks, "none"
              \* or what raised it

taskVars == <<phase, hook, status, cancel, cancels, absorbed, shutdown, entered>>
callVars == <<primary, agent, error, finish, cut>>
sharedVars == <<active, failures, reports>>
vars == <<taskVars, callVars, sharedVars>>

EntryPhases == {"starting", "startHooks", "greeting", "inlineEnd"}
HookPhases  == {"startHooks", "inlineEnd", "ending"}
UserPhases  == EntryPhases \cup {"teardown", "ending"}
Unfinished  == UserPhases \cup {"scheduled", "held"}
Outcomes    == {"success", "failed", "cancelled"}
Causes      == {"cancellation", "timeout", "hook"}

HeldOpen(s) == primary[s] /\ s \notin FakeJobs

\* Mutant: a status of its own for a session that is cancelled.
SettleCancelled(s, verdict) ==
  status' = [status EXCEPT ![s] = IF @ # "RUNNING" THEN @
                                  ELSE IF cancel[s] THEN "CANCELLED" ELSE verdict]

Settle(s, verdict) ==
  status' = [status EXCEPT ![s] = IF @ = "RUNNING" THEN verdict ELSE @]

At(s, p, h) == phase' = [phase EXCEPT ![s] = p] /\ hook' = [hook EXCEPT ![s] = h]

(* One from the gauge, the clamp at zero of _decrement_locked included.    *)
Decrement(a) == [active EXCEPT ![a] = IF @ > 0 THEN @ - 1 ELSE 0]

(* _finish_session up to its first await: the gauge, the breaker's outcome *)
(* and the outcome observers get are all made from the same error.         *)
RecordFinish(s, outcome) ==
  /\ active' = Decrement(agent[s])
  /\ reports' = Append(reports, [session |-> s, outcome |-> outcome])

----------------------------------------------------------------------------
\* Mutant: run_session_end is not registered as the per-job end hook.
LeaveTryForgetsFinish(s, pending) ==
  /\ At(s, "ending", Observers + 1)
  /\ finish' = [finish EXCEPT ![s] = "none"]
  /\ UNCHANGED <<active, reports>>

(* The executor's finally: run_session_end takes the deferred finish off   *)
(* the context and calls it, or has nothing to do.                         *)
LeaveTry(s, pending) ==
  /\ finish' = [finish EXCEPT ![s] = "none"]
  /\ IF pending = "none"
     THEN At(s, "ending", Observers + 1) /\ UNCHANGED <<active, reports>>
     ELSE At(s, "ending", 1) /\ RecordFinish(s, pending)

\* Mutant: a held session is reported finished where its entrypoint returns.
LeaveEntryAtGreeting(s, outcome) ==
  /\ UNCHANGED error
  /\ IF HeldOpen(s) /\ outcome = "success"
     THEN /\ RecordFinish(s, outcome)
          /\ At(s, IF shutdown[s] THEN "teardown" ELSE "held", 1)
          /\ UNCHANGED <<status, finish>>
     ELSE LeaveTry(s, outcome) /\ Settle(s, "FAILED")

(* The finally of run_session.  A session the executor will hold open only *)
(* leaves its finish behind, and the executor goes on in the same step: it *)
(* holds the session, or marks it FAILED and calls the finish at once.     *)
(* Any other session reports its end here, inside the entrypoint.          *)
LeaveEntry(s, outcome) ==
  IF HeldOpen(s)
  THEN /\ UNCHANGED error
       /\ IF outcome = "success"
          THEN /\ finish' = [finish EXCEPT ![s] = outcome]
               /\ At(s, IF shutdown[s] THEN "teardown" ELSE "held", 1)
               /\ UNCHANGED <<status, active, reports>>
          ELSE LeaveTry(s, outcome) /\ Settle(s, "FAILED")
  ELSE /\ RecordFinish(s, outcome)
       /\ error' = [error EXCEPT ![s] = outcome]
       /\ At(s, "inlineEnd", 1)
       /\ UNCHANGED <<status, finish>>

(* The inline end is over: the error goes on up, or the executor sees a    *)
(* session it need not hold return.                                        *)
LeaveInlineEnd(s, outcome) ==
  /\ Settle(s, IF outcome = "success" THEN "SUCCESS" ELSE "FAILED")
  /\ LeaveTry(s, "none")
  /\ UNCHANGED error

----------------------------------------------------------------------------
(* Up to the first await: setup may fail before the entrypoint, and        *)
(* build_session (routing, tenant, providers) may raise inside it, before  *)
(* anything is counted.                                                    *)
FirstStep(s) ==
  /\ phase[s] = "scheduled" /\ ~cancel[s]
  /\ \/ /\ At(s, "finished", 1)
        /\ UNCHANGED <<entered, agent, active, status, finish, reports>>
     \/ /\ entered' = [entered EXCEPT ![s] = TRUE]
        /\ Settle(s, "FAILED")
        /\ LeaveTry(s, "none")
        /\ UNCHANGED agent
     \/ /\ entered' = [entered EXCEPT ![s] = TRUE]
        /\ \E a \in Agents : /\ agent' = [agent EXCEPT ![s] = a]
                             /\ active' = [active EXCEPT ![a] = @ + 1]
        /\ At(s, "starting", 1)
        /\ UNCHANGED <<status, finish, reports>>
  /\ UNCHANGED <<cancel, cancels, absorbed, shutdown, primary, error, failures, cut>>

(* AgentSession.start() makes itself the job's primary session on its way. *)
BecomesPrimary(s) ==
  /\ phase[s] = "starting" /\ ~primary[s] /\ ~cancel[s]
  /\ primary' = [primary EXCEPT ![s] = TRUE]
  /\ UNCHANGED <<taskVars, agent, error, finish, cut, sharedVars>>

StartReturns(s) ==
  /\ phase[s] = "starting" /\ primary[s] /\ ~cancel[s]
  /\ At(s, "startHooks", 1)
  /\ UNCHANGED <<status, cancel, cancels, absorbed, shutdown, entered, callVars, sharedVars>>

(* connect(), the agent's constructor, start() or the greeting raised.     *)
EntryRaises(s) ==
  /\ phase[s] \in {"starting", "greeting"} /\ ~cancel[s]
  /\ failures' = failures + 1
  /\ LeaveEntry(s, "failed")
  /\ UNCHANGED <<cancel, cancels, absorbed, shutdown, entered, primary, agent, cut>>

\* Mutant: the future of a hangup is made where the session is held.
GreetingReturnsForgetsHangup(s) ==
  /\ phase[s] = "greeting" /\ ~cancel[s] /\ HeldOpen(s)
  /\ finish' = [finish EXCEPT ![s] = "success"]
  /\ At(s, "held", 1)
  /\ shutdown' = [shutdown EXCEPT ![s] = FALSE]
  /\ UNCHANGED <<status, error, active, reports, cancel, cancels, absorbed, entered, primary,
                 agent, cut, failures>>

GreetingReturns(s) ==
  /\ phase[s] = "greeting" /\ ~cancel[s]
  /\ LeaveEntry(s, "success")
  /\ UNCHANGED <<cancel, cancels, absorbed, shutdown, entered, primary, agent, cut, failures>>

Hangup(s) ==
  /\ phase[s] \in EntryPhases \cup {"held"} /\ ~shutdown[s]
  /\ phase[s] = "held" => ~cancel[s]
  /\ shutdown' = [shutdown EXCEPT ![s] = TRUE]
  /\ UNCHANGED <<phase, hook, status, cancel, cancels, absorbed, entered, callVars, sharedVars>>

ShutdownWakes(s) ==
  /\ phase[s] = "held" /\ shutdown[s] /\ ~cancel[s]
  /\ At(s, "teardown", 1)
  /\ UNCHANGED <<status, cancel, cancels, absorbed, shutdown, entered, callVars, sharedVars>>

\* Mutant: session_end_fnc is not called after an orderly teardown.
TeardownEndsSilently(s) ==
  /\ phase[s] = "teardown" /\ ~cancel[s]
  /\ Settle(s, "SUCCESS")
  /\ At(s, "finished", 1)
  /\ UNCHANGED <<cancel, cancels, absorbed, shutdown, entered, callVars, sharedVars>>

(* _teardown returns, or lets a CancelledError of its own through.         *)
TeardownEnds(s) ==
  /\ phase[s] = "teardown" /\ ~cancel[s]
  /\ Settle(s, "SUCCESS") \/ UNCHANGED status
  /\ LeaveTry(s, finish[s])
  /\ UNCHANGED <<cancel, cancels, absorbed, shutdown, entered, primary, agent, error, cut, failures>>

----------------------------------------------------------------------------
(* The observers' hooks, one after the other.                              *)

(* A hook returned, raised, ran out of its own timeout, or was cancelled   *)
(* by nobody: the next observer is called.  After the last one run_session *)
(* greets, or has no greeting to give, and an inline end goes on up.       *)
HookReturns(s) ==
  /\ phase[s] \in HookPhases /\ hook[s] <= Observers /\ ~cancel[s]
  /\ \/ /\ hook[s] < Observers \/ phase[s] = "ending"
        /\ At(s, phase[s], hook[s] + 1)
        /\ UNCHANGED <<status, error, finish, active, reports>>
     \/ /\ hook[s] = Observers /\ phase[s] = "startHooks"
        /\ \/ At(s, "greeting", 1) /\ UNCHANGED <<status, error, finish, active, reports>>
           \/ LeaveEntry(s, "success")
     \/ /\ hook[s] = Observers /\ phase[s] = "inlineEnd"
        /\ LeaveInlineEnd(s, error[s])
  /\ UNCHANGED <<cancel, cancels, absorbed, shutdown, entered, primary, agent, cut, failures>>

(* Where a CancelledError goes that leaves the code at a suspension point. *)
Propagate(s, cause) ==
  \/ /\ phase[s] \in {"starting", "startHooks", "greeting"}
     /\ LeaveEntry(s, "cancelled")
     /\ UNCHANGED cut
  \/ /\ phase[s] = "inlineEnd"
     /\ LeaveInlineEnd(s, "cancelled")
     /\ cut' = [cut EXCEPT ![s] = cause]
  \/ /\ phase[s] = "ending"
     /\ At(s, "finished", hook[s])
     /\ cut' = [cut EXCEPT ![s] = IF hook[s] <= Observers THEN cause ELSE @]
     /\ UNCHANGED <<status, error, finish, active, reports>>

\* Mutant: _invoke_observer lets every CancelledError through.
HookCancelsItselfAlways(s) ==
  /\ phase[s] \in HookPhases /\ hook[s] <= Observers /\ ~cancel[s]
  /\ Propagate(s, "hook")
  /\ UNCHANGED <<cancel, cancels, absorbed, shutdown, entered, primary, agent, failures>>

(* A hook raises a CancelledError of its own.  _invoke_observer tells it   *)
(* from the task's by cancelling() > 0, which stays true once a real       *)
(* cancellation was swallowed: the error is taken for that cancellation.   *)
HookCancelsItself(s) ==
  /\ phase[s] \in HookPhases /\ hook[s] <= Observers /\ ~cancel[s]
  /\ cancels[s] > 0
  /\ Propagate(s, "hook")
  /\ UNCHANGED <<cancel, cancels, absorbed, shutdown, entered, primary, agent, failures>>

(* session_end_timeout cancels run_session_end: the hook lets the error    *)
(* through and the rest of the observers are not called, or swallows it.   *)
EndTimesOut(s) ==
  /\ phase[s] = "ending" /\ hook[s] <= Observers /\ ~cancel[s]
  /\ cancels[s] <= MaxCancels
  /\ cancels' = [cancels EXCEPT ![s] = @ + 1]
  /\ \/ Propagate(s, "timeout")
     \/ UNCHANGED <<phase, hook, cut, status, error, finish, active, reports>>
  /\ UNCHANGED <<cancel, absorbed, shutdown, entered, primary, agent, failures>>

SessionEndReturns(s) ==
  /\ phase[s] = "ending" /\ hook[s] > Observers /\ ~cancel[s]
  /\ At(s, "finished", hook[s])
  /\ UNCHANGED <<status, cancel, cancels, absorbed, shutdown, entered, callVars, sharedVars>>

----------------------------------------------------------------------------
(* Cancellation.                                                           *)

(* executor.aclose(), whoever calls it.                                    *)
Cancel(s) ==
  /\ phase[s] \in Unfinished /\ cancels[s] < MaxCancels
  /\ cancel' = [cancel EXCEPT ![s] = TRUE]
  /\ cancels' = [cancels EXCEPT ![s] = @ + 1]
  /\ UNCHANGED <<phase, hook, status, absorbed, shutdown, entered, callVars, sharedVars>>

(* An entrypoint cancelled before its session is held reports its end      *)
(* before it lets the CancelledError go: to the executor it looks like     *)
(* user code that has swallowed the cancellation for now.                  *)
CancelRaised(s) ==
  /\ phase[s] \in Unfinished /\ cancel[s]
  /\ cancel' = [cancel EXCEPT ![s] = FALSE]
  /\ \/ /\ phase[s] = "scheduled"
        /\ At(s, "finished", 1)
        /\ UNCHANGED <<status, error, finish, active, reports, cut>>
     \/ Propagate(s, "cancellation")
     \/ /\ phase[s] = "held"
        /\ Settle(s, "FAILED")
        /\ LeaveTry(s, finish[s])
        /\ UNCHANGED <<error, cut>>
     \/ /\ phase[s] = "teardown"
        /\ LeaveTry(s, finish[s])
        /\ UNCHANGED <<status, error, cut>>
  /\ absorbed' = IF phase'[s] = "inlineEnd" THEN [absorbed EXCEPT ![s] = @ + 1] ELSE absorbed
  /\ UNCHANGED <<cancels, shutdown, entered, primary, agent, failures>>

CancelAbsorbed(s) ==
  /\ phase[s] \in UserPhases /\ cancel[s]
  /\ cancel' = [cancel EXCEPT ![s] = FALSE]
  /\ absorbed' = [absorbed EXCEPT ![s] = @ + 1]
  /\ UNCHANGED <<phase, hook, status, cancels, shutdown, entered, callVars, sharedVars>>

----------------------------------------------------------------------------
Init ==
  /\ phase = [s \in Sessions |-> "scheduled"]
  /\ hook = [s \in Sessions |-> 1]
  /\ status = [s \in Sessions |-> "RUNNING"]
  /\ cancel = [s \in Sessions |-> FALSE]
  /\ cancels = [s \in Sessions |-> 0]
  /\ absorbed = [s \in Sessions |-> 0]
  /\ shutdown = [s \in Sessions |-> FALSE]
  /\ entered = [s \in Sessions |-> FALSE]
  /\ primary = [s \in Sessions |-> FALSE]
  /\ agent = [s \in Sessions |-> "none"]
  /\ error = [s \in Sessions |-> "success"]
  /\ finish = [s \in Sessions |-> "none"]
  /\ cut = [s \in Sessions |-> "none"]
  /\ active = [a \in Agents |-> 0]
  /\ failures = 0
  /\ reports = <<>>

Session(s) ==
  \/ FirstStep(s) \/ BecomesPrimary(s) \/ StartReturns(s) \/ EntryRaises(s) \/ GreetingReturns(s)
  \/ Hangup(s) \/ ShutdownWakes(s) \/ TeardownEnds(s)
  \/ HookReturns(s) \/ HookCancelsItself(s) \/ EndTimesOut(s) \/ SessionEndReturns(s)
  \/ Cancel(s) \/ CancelRaised(s) \/ CancelAbsorbed(s)

(* All sessions are over.                                                  *)
Over == (\A s \in Sessions : phase[s] = "finished") /\ UNCHANGED vars

Next == (\E s \in Sessions : Session(s)) \/ Over

Spec == Init /\ [][Next]_vars

(* The loop runs, and a hook is under a timeout.  LiveKit's connect() and  *)
(* start(), the greeting and the shutdown callbacks are under none.        *)
LoopFairness ==
  \A s \in Sessions :
    /\ WF_vars(FirstStep(s)) /\ WF_vars(ShutdownWakes(s))
    /\ WF_vars(HookReturns(s)) /\ WF_vars(SessionEndReturns(s))
    /\ WF_vars(CancelRaised(s) \/ CancelAbsorbed(s))
FairSpec == Spec /\ LoopFairness

----------------------------------------------------------------------------
TypeOK ==
  /\ phase \in [Sessions -> Unfinished \cup {"finished"}]
  /\ hook \in [Sessions -> 1 .. (Observers + 1)]
  /\ status \in [Sessions -> {"RUNNING", "SUCCESS", "FAILED"}]
  /\ cancel \in [Sessions -> BOOLEAN]
  /\ cancels \in [Sessions -> 0 .. (MaxCancels + 1)]
  /\ absorbed \in [Sessions -> 0 .. MaxCancels]
  /\ shutdown \in [Sessions -> BOOLEAN]
  /\ entered \in [Sessions -> BOOLEAN]
  /\ primary \in [Sessions -> BOOLEAN]
  /\ agent \in [Sessions -> Agents \cup {"none"}]
  /\ error \in [Sessions -> Outcomes]
  /\ finish \in [Sessions -> Outcomes \cup {"none"}]
  /\ cut \in [Sessions -> Causes \cup {"none"}]
  /\ active \in [Agents -> Nat]
  /\ failures \in Nat
  /\ reports \in Seq([session : Sessions, outcome : Outcomes])

Reported(s) == \E i \in DOMAIN reports : reports[i].session = s
ReportOf(s, outcome) == \E i \in DOMAIN reports : reports[i] = [session |-> s, outcome |-> outcome]

(* The gauge that per-agent caps and the dashboard read counts exactly the *)
(* calls that are up, from the start of run_session to the real end of the *)
(* call, however a session fails, is cancelled or is held.                 *)
Live(s) == phase[s] \in {"starting", "startHooks", "greeting", "held", "teardown"}
GaugeCountsLiveCalls ==
  \A a \in Agents : active[a] = Cardinality({s \in Sessions : agent[s] = a /\ Live(s)})

\* A failure is counted, reported and told to LiveKit, or none of the three.
FailureIsReportedAsSuch ==
  /\ failures = Cardinality({s \in Sessions : ReportOf(s, "failed")})
  /\ \A s \in Sessions :
       phase[s] \in {"ending", "finished"} /\ (ReportOf(s, "failed") \/ ReportOf(s, "cancelled"))
         => status[s] = "FAILED"

(* _finish_session runs once for every counted session, never for another, *)
(* and a finish left on the context is never called a second time.  What   *)
(* observers and the breaker are told of a failure is what the executor    *)
(* tells LiveKit, and every counted failure is reported as one.            *)
FinishedExactlyOnce ==
  /\ FailureIsReportedAsSuch
  /\ \A i, k \in DOMAIN reports : reports[i].session = reports[k].session => i = k
  /\ \A s \in Sessions : Reported(s) <=> agent[s] # "none" /\ ~Live(s)

(* All observers are told the end of a session, unless a CancelledError    *)
(* leaves one of their hooks, and that happens only to a session whose task *)
(* was cancelled or whose session_end timed out.  So a hook that raises or *)
(* hangs costs the others nothing, ever, and one that cancels itself costs *)
(* them nothing while nobody has cancelled the session.                    *)
EndReachesEveryObserver ==
  \A s \in Sessions : phase[s] = "finished" /\ Reported(s) =>
    \/ cut[s] = "none" /\ hook[s] = Observers + 1
    \/ cut[s] # "none" /\ cancels[s] > 0

(* A session's end is reported after its hangup, also when the hangup      *)
(* comes while the entrypoint is still greeting; unless LiveKit's start(), *)
(* the greeting or a shutdown callback never comes back.                   *)
HangupIsReported ==
  \A s \in Sessions :
    (shutdown[s] ~> Reported(s)) \/ <>[](phase[s] \in {"starting", "greeting", "teardown"})

(* run_session is an entrypoint, and run_session_end a session_end_fnc, as *)
(* CoroutinePool knows them.  An inline end is part of the entrypoint; an  *)
(* entrypoint that raises at once makes two of its steps in one.           *)
TaskPc(s) == IF phase[s] \in EntryPhases THEN "entry" ELSE phase[s]
Task == INSTANCE CoroutinePool WITH
  Jobs <- Sessions, Terminable <- {}, Stray <- Sessions, FailureLimit <- 1, MaxAbsorb <- MaxCancels,
  pc <- [s \in Sessions |-> TaskPc(s)],
  ends <- [s \in Sessions |-> IF entered[s] /\ phase[s] \in {"ending", "finished"} THEN 1 ELSE 0],
  aclosing <- <<>>, startPc <- "up", started <- TRUE, draining <- FALSE, executors <- Sessions,
  drainPc <- "idle", drainSet <- {}, closePc <- "idle", closeRequested <- FALSE,
  limitFired <- FALSE, supervisorCalls <- 0, outcomes <- <<>>, failures <- 0

FirstStepRaises(s) ==
  /\ phase[s] = "scheduled" /\ ~cancel[s]
  /\ entered' = [entered EXCEPT ![s] = TRUE]
  /\ Task!Settle(s, "FAILED") /\ Task!EnterSessionEnd(s)
  /\ UNCHANGED <<cancel, absorbed, shutdown>>
Cancelled(s) ==
  /\ Task!CancelTasks({s})
  /\ \A t \in Sessions : TaskPc(t)' = TaskPc(t)
  /\ UNCHANGED <<status, absorbed, shutdown, entered>>
TaskSteps ==
  [][\E s \in Sessions :
       \/ Task!FirstStep(s) \/ FirstStepRaises(s) \/ Task!Hangup(s)
       \/ Task!EntryReturns(s) \/ Task!EntryRaises(s) \/ Task!ShutdownWakes(s)
       \/ Task!TeardownReturns(s) \/ Task!TeardownRaises(s) \/ Task!SessionEndReturns(s)
       \/ Task!CancelRaised(s) \/ Task!CancelAbsorbed(s) \/ Cancelled(s)]_(Task!taskVars)

----------------------------------------------------------------------------
(* What the repository says and the code does not do.                      *)

(* "How an observed session ended", with "status is the source of truth".  *)
SuccessIsTheVerdict ==
  \A s \in Sessions : phase[s] = "finished" /\ ReportOf(s, "success") => status[s] # "FAILED"

(* "An observer that raises CancelledError on its own is isolated too":    *)
(* it does not end the round, nor the task.                                *)
OwnCancellationIsIsolated == \A s \in Sessions : cut[s] # "hook"
=============================================================================

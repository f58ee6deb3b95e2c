--------------------------- MODULE CoroutinePool ---------------------------
(***************************************************************************)
(* The coroutine worker: one process that hosts every voice session as an  *)
(* asyncio task.  runtime/coroutine_runtime.py has two classes, the pool   *)
(* (CoroutinePool) and one executor per session (CoroutineJobExecutor),    *)
(* and both are modelled here because each holds half of every hazard.     *)
(*                                                                         *)
(* An action is the code that runs between two suspension points of the    *)
(* event loop.  Task.cancel() only marks the task; the CancelledError is   *)
(* raised by the task's next step, so the two are separate actions and     *)
(* everything else the loop has ready may run in between.                  *)
(***************************************************************************)
EXTENDS Naturals, Sequences, FiniteSets

CONSTANTS
  Jobs,          \* the jobs LiveKit dispatches, one executor per job
  Terminable,    \* bound: the jobs LiveKit may terminate
  Stray,         \* the jobs whose teardown may raise a CancelledError of its own
  FailureLimit,  \* consecutive_failure_limit
  MaxAbsorb      \* bound: cancellations one session's user code may swallow

ASSUME PoolConstants ==
  /\ FailureLimit \in Nat \ {0}
  /\ MaxAbsorb \in Nat
  /\ Terminable \subseteq Jobs
  /\ Stray \subseteq Jobs

VARIABLES
  \* One executor per job.
  pc,            \* where its task is suspended
  status,        \* _status
  cancel,        \* a cancellation is pending on the task
  shutdown,      \* _shutdown_fut is resolved (hangup or ctx.shutdown())
  absorbed,      \* cancellations its user code has swallowed
  entered,       \* history: the try block of _run_entrypoint was reached
  ends,          \* history: times session_end_fnc was started
  aclosing,      \* the coroutines inside executor.aclose(), by caller
  \* The pool.
  startPc,       \* progress of start()
  started,       \* _started
  draining,      \* _draining
  executors,     \* _executors
  drainPc,       \* progress of drain()
  drainSet,      \* the executors drain() is joining
  closePc,       \* progress of aclose()
  closeRequested,\* AgentServer.aclose() is scheduled
  failures,      \* _consecutive_failures
  limitFired,    \* _failure_limit_fired
  supervisorCalls, \* history: on_consecutive_failure_limit invocations
  outcomes       \* history: the process_closed events, with the status observed

taskVars  == <<pc, status, cancel, shutdown, absorbed, entered, ends>>
countVars == <<failures, limitFired, supervisorCalls, outcomes>>
drainVars == <<draining, drainPc, drainSet>>
lifeVars  == <<startPc, started, closePc>>
vars == <<taskVars, aclosing, lifeVars, drainVars, executors, closeRequested, countVars>>

(* Who calls executor.aclose(): the pool's own aclose(), or the worker      *)
(* handling a LiveKit job termination.                                      *)
Callers == {"pool", "termination"}

Statuses   == {"RUNNING", "SUCCESS", "FAILED"}
Unfinished == {"scheduled", "entry", "held", "teardown", "ending"}
TaskStates == Unfinished \cup {"idle", "finished", "closed", "refused"}

(* Code of the user's runs at these suspension points, so a cancellation   *)
(* can be swallowed there; `await shutdown_fut` cannot swallow one.        *)
UserCode == {"entry", "teardown", "ending"}

\* Mutants of Settle: a fourth status the enum does not have; no RUNNING check.
SettleCancelled(j, verdict) ==
  status' = [status EXCEPT ![j] = IF @ # "RUNNING" THEN @
                                  ELSE IF verdict = "FAILED" THEN "CANCELLED" ELSE verdict]
SettleAlways(j, verdict) == status' = [status EXCEPT ![j] = verdict]

\* `if self._status is JobStatus.RUNNING: self._status = verdict`
Settle(j, verdict) ==
  status' = [status EXCEPT ![j] = IF @ = "RUNNING" THEN verdict ELSE @]

(* The finally clause: session_end_fnc starts in the step that leaves the   *)
(* try block, whatever made it leave.                                       *)
EnterSessionEnd(j) ==
  /\ pc' = [pc EXCEPT ![j] = "ending"]
  /\ ends' = [ends EXCEPT ![j] = @ + 1]

----------------------------------------------------------------------------
(* The supervisor, run by the done callback of every session.              *)

\* Mutant: every failure from the limit on calls the supervisor.
ObserveStatusEveryFailure(j) ==
  LET s      == status[j]
      failed == s # "SUCCESS"
      run    == IF failed THEN failures + 1 ELSE 0
      trips  == failed /\ run >= FailureLimit
  IN  /\ failures' = run
      /\ limitFired' = (failed /\ (limitFired \/ trips))
      /\ supervisorCalls' = IF trips THEN supervisorCalls + 1 ELSE supervisorCalls
      /\ closeRequested' = (closeRequested \/ trips)
      /\ outcomes' = Append(outcomes, [job |-> j, status |-> s])

ObserveStatus(j) ==
  LET s      == status[j]
      failed == s # "SUCCESS"
      run    == IF failed THEN failures + 1 ELSE 0
      trips  == failed /\ run >= FailureLimit /\ ~limitFired
  IN  /\ failures' = run
      /\ limitFired' = (failed /\ (limitFired \/ trips))
      /\ supervisorCalls' = IF trips THEN supervisorCalls + 1 ELSE supervisorCalls
      /\ closeRequested' = (closeRequested \/ trips)
      /\ outcomes' = Append(outcomes, [job |-> j, status |-> s])

(* _on_executor_done: leave the list, emit process_closed, observe.        *)
OnExecutorDone(j) ==
  /\ executors' = executors \ {j}
  /\ ObserveStatus(j)

\* Mutant: executor.aclose() leaves the status as the task left it.
DoneCallbackUnsettled(j) ==
  /\ pc[j] = "finished"
  /\ pc' = [pc EXCEPT ![j] = "closed"]
  /\ OnExecutorDone(j)
  /\ aclosing' = [c \in Callers |-> [k \in Jobs |->
                    IF k = j /\ aclosing[c][k] = "awaiting" THEN "returned" ELSE aclosing[c][k]]]
  /\ UNCHANGED <<status, cancel, shutdown, absorbed, entered, ends, lifeVars, drainVars>>

(* The callbacks of a finished task run back to back, in the order they    *)
(* were added: the pool's own, then every executor.aclose() that awaits    *)
(* the task, which marks a session still RUNNING as FAILED.                *)
DoneCallback(j) ==
  LET waiters == {c \in Callers : aclosing[c][j] = "awaiting"}
  IN  /\ pc[j] = "finished"
      /\ pc' = [pc EXCEPT ![j] = "closed"]
      /\ OnExecutorDone(j)
      /\ IF waiters = {} THEN UNCHANGED status ELSE Settle(j, "FAILED")
      /\ aclosing' = [c \in Callers |-> [k \in Jobs |->
                        IF k = j /\ c \in waiters THEN "returned" ELSE aclosing[c][k]]]
      /\ UNCHANGED <<cancel, shutdown, absorbed, entered, ends, lifeVars, drainVars>>

----------------------------------------------------------------------------
(* start(), launch_job().                                                  *)

BeginStart ==
  /\ startPc = "new"
  /\ startPc' = "setup"
  /\ UNCHANGED <<taskVars, aclosing, started, closePc, drainVars, executors,
                 closeRequested, countVars>>

(* setup_fnc returned, or raised or timed out and start() re-raised.       *)
SetupReturns ==
  /\ startPc = "setup"
  /\ \E ok \in BOOLEAN :
       /\ startPc' = IF ok THEN "up" ELSE "failed"
       /\ started' = ok
  /\ UNCHANGED <<taskVars, aclosing, closePc, drainVars, executors,
                 closeRequested, countVars>>

\* Mutants: a refused launch keeps its slot; a launch ignores _draining.
LaunchJobLeaksSlot(j) ==
  /\ started /\ ~draining
  /\ pc[j] = "idle"
  /\ executors' = executors \cup {j}
  /\ \E state \in {"scheduled", "refused"} : pc' = [pc EXCEPT ![j] = state]
  /\ UNCHANGED <<status, cancel, shutdown, absorbed, entered, ends, aclosing,
                 lifeVars, drainVars, closeRequested, countVars>>
LaunchJobWhileDraining(j) ==
  /\ started
  /\ pc[j] = "idle"
  /\ pc' = [pc EXCEPT ![j] = "scheduled"]
  /\ executors' = executors \cup {j}
  /\ UNCHANGED <<status, cancel, shutdown, absorbed, entered, ends, aclosing,
                 lifeVars, drainVars, closeRequested, countVars>>

(* launch_job never suspends: it appends the executor, and either creates  *)
(* the session task, or (the context factory raised) gives the slot back   *)
(* and re-raises; the status observed then is still RUNNING.               *)
LaunchJob(j) ==
  /\ started /\ ~draining
  /\ pc[j] = "idle"
  /\ \/ /\ pc' = [pc EXCEPT ![j] = "scheduled"]
        /\ executors' = executors \cup {j}
        /\ UNCHANGED <<closeRequested, countVars>>
     \/ /\ pc' = [pc EXCEPT ![j] = "refused"]
        /\ OnExecutorDone(j)
  /\ UNCHANGED <<status, cancel, shutdown, absorbed, entered, ends, aclosing,
                 lifeVars, drainVars>>

----------------------------------------------------------------------------
(* The session task, _run_entrypoint.                                      *)

(* Everything up to the call of the entrypoint.  ctx._on_setup() and the   *)
(* room.on() registration are outside the try: if one raises, the task is  *)
(* over with no status and no session_end_fnc.                             *)
FirstStep(j) ==
  /\ pc[j] = "scheduled" /\ ~cancel[j]
  /\ \/ /\ pc' = [pc EXCEPT ![j] = "entry"]
        /\ entered' = [entered EXCEPT ![j] = TRUE]
     \/ /\ pc' = [pc EXCEPT ![j] = "finished"]
        /\ UNCHANGED entered
  /\ UNCHANGED <<status, cancel, shutdown, absorbed, ends, aclosing, lifeVars,
                 drainVars, executors, closeRequested, countVars>>

(* ctx.shutdown() or the room's "disconnected" event; the first one wins.  *)
(* A task cancelled while held has cancelled the future it awaits.         *)
Hangup(j) ==
  /\ pc[j] \in {"entry", "held"} /\ ~shutdown[j]
  /\ pc[j] = "held" => ~cancel[j]
  /\ shutdown' = [shutdown EXCEPT ![j] = TRUE]
  /\ UNCHANGED <<pc, status, cancel, absorbed, entered, ends, aclosing, lifeVars,
                 drainVars, executors, closeRequested, countVars>>

(* The entrypoint returned.  A real job with a primary AgentSession is     *)
(* held open until shutdown; a fake or setup-only job completes.           *)
EntryReturns(j) ==
  /\ pc[j] = "entry" /\ ~cancel[j]
  /\ \/ /\ pc' = [pc EXCEPT ![j] = IF shutdown[j] THEN "teardown" ELSE "held"]
        /\ UNCHANGED <<status, ends>>
     \/ /\ Settle(j, "SUCCESS")
        /\ EnterSessionEnd(j)
  /\ UNCHANGED <<cancel, shutdown, absorbed, entered, aclosing, lifeVars,
                 drainVars, executors, closeRequested, countVars>>

EntryRaises(j) ==
  /\ pc[j] = "entry" /\ ~cancel[j]
  /\ Settle(j, "FAILED")
  /\ EnterSessionEnd(j)
  /\ UNCHANGED <<cancel, shutdown, absorbed, entered, aclosing, lifeVars,
                 drainVars, executors, closeRequested, countVars>>

ShutdownWakes(j) ==
  /\ pc[j] = "held" /\ shutdown[j] /\ ~cancel[j]
  /\ pc' = [pc EXCEPT ![j] = "teardown"]
  /\ UNCHANGED <<status, cancel, shutdown, absorbed, entered, ends, aclosing,
                 lifeVars, drainVars, executors, closeRequested, countVars>>

TeardownReturns(j) ==
  /\ pc[j] = "teardown" /\ ~cancel[j]
  /\ Settle(j, "SUCCESS")
  /\ EnterSessionEnd(j)
  /\ UNCHANGED <<cancel, shutdown, absorbed, entered, aclosing, lifeVars,
                 drainVars, executors, closeRequested, countVars>>

(* A shutdown callback awaited something that was cancelled: CancelledError *)
(* is no Exception, so it passes every handler and sets no status.         *)
TeardownRaises(j) ==
  /\ pc[j] = "teardown" /\ ~cancel[j] /\ j \in Stray
  /\ EnterSessionEnd(j)
  /\ UNCHANGED <<status, cancel, shutdown, absorbed, entered, aclosing, lifeVars,
                 drainVars, executors, closeRequested, countVars>>

(* session_end_fnc returned, raised or ran into session_end_timeout.       *)
SessionEndReturns(j) ==
  /\ pc[j] = "ending" /\ ~cancel[j]
  /\ pc' = [pc EXCEPT ![j] = "finished"]
  /\ UNCHANGED <<status, cancel, shutdown, absorbed, entered, ends, aclosing,
                 lifeVars, drainVars, executors, closeRequested, countVars>>

\* Mutant: session_end_fnc is called after teardown instead of in a finally.
CancelRaisedSkipsEnd(j) ==
  /\ pc[j] \in Unfinished /\ cancel[j]
  /\ cancel' = [cancel EXCEPT ![j] = FALSE]
  /\ pc' = [pc EXCEPT ![j] = "finished"]
  /\ Settle(j, "FAILED")
  /\ UNCHANGED <<ends, shutdown, absorbed, entered, aclosing, lifeVars, drainVars,
                 executors, closeRequested, countVars>>

(* The pending cancellation is raised where the task is suspended: before  *)
(* the first step the body never runs; the entrypoint and the hold mark    *)
(* FAILED; teardown has no handler; in the finally clause it ends the task.*)
CancelRaised(j) ==
  /\ pc[j] \in Unfinished /\ cancel[j]
  /\ cancel' = [cancel EXCEPT ![j] = FALSE]
  /\ \/ /\ pc[j] \in {"scheduled", "ending"}
        /\ pc' = [pc EXCEPT ![j] = "finished"]
        /\ UNCHANGED <<status, ends>>
     \/ /\ pc[j] \in {"entry", "held"}
        /\ Settle(j, "FAILED")
        /\ EnterSessionEnd(j)
     \/ /\ pc[j] = "teardown"
        /\ EnterSessionEnd(j)
        /\ UNCHANGED status
  /\ UNCHANGED <<shutdown, absorbed, entered, aclosing, lifeVars, drainVars,
                 executors, closeRequested, countVars>>

(* User code catches the CancelledError and carries on.                    *)
CancelAbsorbed(j) ==
  /\ pc[j] \in UserCode /\ cancel[j]
  /\ absorbed[j] < MaxAbsorb
  /\ cancel' = [cancel EXCEPT ![j] = FALSE]
  /\ absorbed' = [absorbed EXCEPT ![j] = @ + 1]
  /\ UNCHANGED <<pc, status, shutdown, entered, ends, aclosing, lifeVars,
                 drainVars, executors, closeRequested, countVars>>

----------------------------------------------------------------------------
(* executor.aclose(), its two callers, and executor.kill().                *)

\* task.cancel() on a set of executors: a no-op on a finished task.
CancelTasks(S) ==
  cancel' = [j \in Jobs |-> cancel[j] \/ (j \in S /\ pc[j] \in Unfinished)]

(* Up to `await task`: nothing to wait for when the task is done already.  *)
CallAclose(c, j) ==
  /\ CancelTasks({j})
  /\ aclosing' = [aclosing EXCEPT ![c][j] =
                    IF pc[j] \in Unfinished THEN "awaiting" ELSE "returned"]

(* LiveKit ends the job: get_by_job_id(...) then aclose() on what it found.*)
Terminate(j) ==
  /\ j \in executors \cap Terminable /\ aclosing["termination"][j] = "none"
  /\ CallAclose("termination", j)
  /\ UNCHANGED <<pc, status, shutdown, absorbed, entered, ends, lifeVars,
                 drainVars, executors, closeRequested, countVars>>

\* kill(): cancel without waiting, and mark FAILED at once.
KillTasks(S) ==
  LET live == {j \in S : pc[j] \in Unfinished}
  IN  /\ CancelTasks(live)
      /\ status' = [j \in Jobs |-> IF j \in live /\ status[j] = "RUNNING"
                                   THEN "FAILED" ELSE status[j]]

----------------------------------------------------------------------------
(* drain() and begin_drain().                                              *)

BeginDrain ==
  /\ ~draining
  /\ draining' = TRUE
  /\ UNCHANGED <<taskVars, aclosing, lifeVars, drainPc, drainSet, executors,
                 closeRequested, countVars>>

\* `while self._executors:` join every one in flight now.
JoinInFlight ==
  IF executors = {}
  THEN drainPc' = "done" /\ drainSet' = {}
  ELSE drainPc' = "joining" /\ drainSet' = executors

Drain ==
  /\ drainPc = "idle"
  /\ draining' = TRUE
  /\ JoinInFlight
  /\ UNCHANGED <<taskVars, aclosing, lifeVars, executors, closeRequested, countVars>>

(* gather() hears of the joins behind the done callbacks of their tasks.   *)
DrainLoops ==
  /\ drainPc = "joining"
  /\ \A j \in drainSet : pc[j] \notin Unfinished \cup {"finished"}
  /\ JoinInFlight
  /\ UNCHANGED <<taskVars, aclosing, lifeVars, draining, executors,
                 closeRequested, countVars>>

----------------------------------------------------------------------------
(* pool.aclose().                                                          *)

(* SIGTERM, the memory limit, or anybody else who closes the worker.       *)
RequestClose ==
  /\ ~closeRequested
  /\ closeRequested' = TRUE
  /\ UNCHANGED <<taskVars, aclosing, lifeVars, drainVars, executors, countVars>>

\* Mutant: _started is left set while introspection.aclose() is awaited.
AcloseKeepsStarted ==
  /\ closeRequested /\ started /\ closePc = "idle"
  /\ closePc' = "introspection"
  /\ UNCHANGED <<started, closeRequested, taskVars, aclosing, startPc, drainVars,
                 executors, countVars>>

(* The first part, up to the await of introspection.aclose().  On a pool   *)
(* that is not started the call returns at once.                           *)
Aclose ==
  /\ closeRequested
  /\ IF started
     THEN closePc' = "introspection" /\ started' = FALSE /\ UNCHANGED closeRequested
     ELSE closePc = "idle" /\ closeRequested' = FALSE /\ UNCHANGED <<closePc, started>>
  /\ UNCHANGED <<taskVars, aclosing, startPc, drainVars, executors, countVars>>

(* The executors are listed after that await; gather() queues one          *)
(* executor.aclose() task for each.                                        *)
SnapshotExecutors ==
  /\ closePc = "introspection"
  /\ aclosing' = [aclosing EXCEPT !["pool"] =
                    [j \in Jobs |-> IF j \in executors THEN "queued" ELSE "none"]]
  /\ closePc' = IF executors = {} THEN "done" ELSE "gathering"
  /\ UNCHANGED <<taskVars, startPc, started, drainVars, executors,
                 closeRequested, countVars>>

PoolAcloses(j) ==
  /\ aclosing["pool"][j] = "queued"
  /\ CallAclose("pool", j)
  /\ UNCHANGED <<pc, status, shutdown, absorbed, entered, ends, lifeVars,
                 drainVars, executors, closeRequested, countVars>>

(* gather() hears of its children through callbacks of its own, which the  *)
(* loop runs behind the done callback of a task that finished before them. *)
Gathered ==
  \A j \in Jobs :
    \/ aclosing["pool"][j] = "none"
    \/ aclosing["pool"][j] = "returned" /\ pc[j] # "finished"

\* Mutant: the timeout is noticed and nothing is cancelled a second time.
CloseTimesOutSilently ==
  /\ closePc = "gathering" /\ ~Gathered
  /\ closePc' = "timedOut"
  /\ UNCHANGED <<taskVars, aclosing, startPc, started, drainVars, executors,
                 closeRequested, countVars>>

(* wait_for ran out of close_timeout: it cancels gather(), gather cancels  *)
(* its children, and each child passes the cancellation on to the session  *)
(* task it awaits.  wait_for itself goes on waiting for them.  The timer   *)
(* fires behind the ready callbacks: the first cancellation was delivered. *)
CloseTimesOut ==
  /\ closePc = "gathering" /\ ~Gathered
  /\ \A j \in Jobs : aclosing["pool"][j] # "queued"
  /\ \A j \in Jobs : aclosing["pool"][j] = "awaiting" => ~cancel[j]
  /\ CancelTasks({j \in Jobs : aclosing["pool"][j] = "awaiting"})
  /\ closePc' = "timedOut"
  /\ UNCHANGED <<pc, status, shutdown, absorbed, entered, ends, aclosing, startPc,
                 started, drainVars, executors, closeRequested, countVars>>

CloseReturns ==
  /\ closePc = "gathering" /\ Gathered
  /\ closePc' = "done"
  /\ UNCHANGED <<taskVars, aclosing, startPc, started, drainVars, executors,
                 closeRequested, countVars>>

(* `except TimeoutError:` kill every executor of the snapshot.             *)
CloseKills ==
  /\ closePc = "timedOut" /\ Gathered
  /\ KillTasks({j \in Jobs : aclosing["pool"][j] # "none"})
  /\ closePc' = "done"
  /\ UNCHANGED <<pc, shutdown, absorbed, entered, ends, aclosing, startPc, started,
                 drainVars, executors, closeRequested, countVars>>

----------------------------------------------------------------------------
Init ==
  /\ pc = [j \in Jobs |-> "idle"]
  /\ status = [j \in Jobs |-> "RUNNING"]
  /\ cancel = [j \in Jobs |-> FALSE]
  /\ shutdown = [j \in Jobs |-> FALSE]
  /\ absorbed = [j \in Jobs |-> 0]
  /\ entered = [j \in Jobs |-> FALSE]
  /\ ends = [j \in Jobs |-> 0]
  /\ aclosing = [c \in Callers |-> [j \in Jobs |-> "none"]]
  /\ startPc = "new" /\ started = FALSE
  /\ draining = FALSE /\ drainPc = "idle" /\ drainSet = {}
  /\ executors = {}
  /\ closePc = "idle" /\ closeRequested = FALSE
  /\ failures = 0 /\ limitFired = FALSE /\ supervisorCalls = 0
  /\ outcomes = <<>>

(* The worker process is over.                                             *)
Exited ==
  /\ closePc = "done" \/ startPc = "failed"
  /\ executors = {}
  /\ UNCHANGED vars

Session(j) ==
  \/ LaunchJob(j) \/ FirstStep(j) \/ Hangup(j) \/ EntryReturns(j) \/ EntryRaises(j)
  \/ ShutdownWakes(j) \/ TeardownReturns(j) \/ TeardownRaises(j) \/ SessionEndReturns(j)
  \/ CancelRaised(j) \/ CancelAbsorbed(j) \/ DoneCallback(j)
  \/ Terminate(j) \/ PoolAcloses(j)

Pool ==
  \/ BeginStart \/ SetupReturns \/ BeginDrain \/ Drain \/ DrainLoops
  \/ RequestClose \/ Aclose \/ SnapshotExecutors
  \/ CloseTimesOut \/ CloseReturns \/ CloseKills

Next == (\E j \in Jobs : Session(j)) \/ Pool \/ Exited

Spec == Init /\ [][Next]_vars

(* The event loop runs every ready callback, timers fire, and              *)
(* session_end_fnc, under its timeout, comes back.  How long a call or a   *)
(* shutdown callback lasts, and who hangs up, is nobody's promise.         *)
LoopFairness ==
  /\ WF_vars(SetupReturns) /\ WF_vars(DrainLoops)
  /\ WF_vars(Aclose) /\ WF_vars(SnapshotExecutors)
  /\ WF_vars(CloseTimesOut) /\ WF_vars(CloseReturns) /\ WF_vars(CloseKills)
  /\ \A j \in Jobs :
       /\ WF_vars(FirstStep(j)) /\ WF_vars(ShutdownWakes(j))
       /\ WF_vars(SessionEndReturns(j)) /\ WF_vars(DoneCallback(j))
       /\ WF_vars(CancelRaised(j) \/ CancelAbsorbed(j)) /\ WF_vars(PoolAcloses(j))

FairSpec == Spec /\ LoopFairness

----------------------------------------------------------------------------
TypeOK ==
  /\ pc \in [Jobs -> TaskStates]
  /\ status \in [Jobs -> Statuses]
  /\ cancel \in [Jobs -> BOOLEAN]
  /\ shutdown \in [Jobs -> BOOLEAN]
  /\ absorbed \in [Jobs -> 0 .. MaxAbsorb]
  /\ entered \in [Jobs -> BOOLEAN]
  /\ ends \in [Jobs -> Nat]
  /\ aclosing \in [Callers -> [Jobs -> {"none", "queued", "awaiting", "returned"}]]
  /\ startPc \in {"new", "setup", "up", "failed"}
  /\ started \in BOOLEAN
  /\ draining \in BOOLEAN
  /\ drainPc \in {"idle", "joining", "done"}
  /\ drainSet \subseteq Jobs
  /\ executors \subseteq Jobs
  /\ closePc \in {"idle", "introspection", "gathering", "timedOut", "done"}
  /\ closeRequested \in BOOLEAN
  /\ failures \in Nat
  /\ limitFired \in BOOLEAN
  /\ supervisorCalls \in Nat
  /\ outcomes \in Seq([job : Jobs, status : Statuses])

(* The slot accounting LiveKit's load and status reports are made from:    *)
(* `processes` holds exactly the sessions whose task has not been reaped,  *)
(* and every executor that left it was reported by one process_closed.     *)
SlotAccounting ==
  /\ executors = {j \in Jobs : pc[j] \in Unfinished \cup {"finished"}}
  /\ {outcomes[i].job : i \in DOMAIN outcomes} = {j \in Jobs : pc[j] \in {"closed", "refused"}}
  /\ \A i, k \in DOMAIN outcomes : outcomes[i].job = outcomes[k].job => i = k

(* However a session ends (return, error, cancellation in any phase, a     *)
(* second cancellation during the first one's cleanup), session_end_fnc is *)
(* started exactly once after the entrypoint was reached, and not at all   *)
(* when it was not.                                                        *)
SessionEndExactlyOnce ==
  \A j \in Jobs :
    /\ ends[j] = IF entered[j] /\ pc[j] \in {"ending", "finished", "closed"} THEN 1 ELSE 0
    /\ pc[j] = "ending" => entered[j]

(* No session that reached its entrypoint is left RUNNING once its task is *)
(* reaped, although a cancellation during teardown sets no status: only    *)
(* executor.aclose() cancels, and it settles the status after the task.    *)
(* (Teardown code that raises a CancelledError of its own does leave it.)  *)
ReapedIsSettled ==
  \A j \in Jobs \ Stray : pc[j] = "closed" /\ entered[j] => status[j] # "RUNNING"

(* When pool.aclose() has returned, no session task is left on the loop:   *)
(* none slipped in during the await before the executors are listed, and   *)
(* none survived the close timeout.                                        *)
ClosedPoolIsQuiet ==
  closePc = "done" => \A j \in Jobs : pc[j] \in {"idle", "closed", "refused"}

(* The supervisor is called once per run of failures that reaches the      *)
(* limit: at the close that completes it, not again while the run goes on, *)
(* and again for a later run.                                              *)
Failed(i) == outcomes[i].status # "SUCCESS"
ReachesLimitAt(i) ==
  /\ i >= FailureLimit
  /\ \A k \in (i - FailureLimit + 1) .. i : Failed(k)
  /\ i = FailureLimit \/ ~Failed(i - FailureLimit)
SupervisorOncePerRun ==
  supervisorCalls = Cardinality({i \in DOMAIN outcomes : ReachesLimitAt(i)})

(* A verdict is final: once SUCCESS or FAILED, a later cancellation, kill  *)
(* or return does not change the status LiveKit is told.                   *)
VerdictIsFinal ==
  [][\A j \in Jobs : status[j] # "RUNNING" => status'[j] = status[j]]_vars

(* A pool.aclose() that began, or that a supervisor trip has asked for,    *)
(* finishes, also when a session swallows its first cancellation:          *)
(* close_timeout cancels it a second time.                                 *)
CloseCompletes == closePc # "idle" \/ supervisorCalls > 0 ~> closePc = "done"

(* The pool as a set of slots: see WorkerSlots.                            *)
Slots == INSTANCE WorkerSlots WITH
  slot <- [j \in Jobs |-> IF j \in executors THEN "held"
                          ELSE IF pc[j] = "idle" THEN "none" ELSE "released"],
  door <- IF draining \/ closePc # "idle" THEN "shut" ELSE IF started THEN "open" ELSE "new"
ImplementsSlots == Slots!Spec

(* A drain() that waits for calls ends, and behind a door that was shut by *)
(* drain(), begin_drain() or a close the slots empty, though sessions end  *)
(* together, are refused or are cancelled meanwhile; unless some call, its *)
(* entrypoint or its teardown, goes on for ever.                           *)
NeverEnds(j) == <>[](pc[j] \in {"entry", "held", "teardown"})
DrainCompletes ==
  \/ (drainPc = "joining" ~> drainPc = "done") /\ Slots!EmptiesWhenShut
  \/ \E j \in Jobs : NeverEnds(j)

----------------------------------------------------------------------------
(* What the repository says of the pool and the code does not do.          *)

(* The status a process_closed event is observed with is a verdict, for a  *)
(* session that ran: cancellations are reported as FAILED.                 *)
ClosedWithVerdict ==
  \A i \in DOMAIN outcomes : entered[outcomes[i].job] => outcomes[i].status # "RUNNING"
=============================================================================

----------------------- MODULE CoroutinePool_proofs -----------------------
(***************************************************************************)
(* Safety of CoroutinePool for every set of jobs and every value of the    *)
(* constants that PoolConstants allows.                                    *)
(***************************************************************************)
EXTENDS ServerDrain, FiniteSetTheorems, TLAPS

(* What the helpers the actions are built from do to the type invariant.   *)
LEMMA SettleType ==
  ASSUME TypeOK, NEW j \in Jobs, NEW verdict \in Statuses, Settle(j, verdict)
  PROVE  status' \in [Jobs -> Statuses]
<1>1. status \in [Jobs -> Statuses]
  BY DEF TypeOK
<1> QED BY <1>1 DEF Settle, Statuses

(* Entering the finally clause moves the task and counts one call.         *)
LEMMA EnterSessionEndType ==
  ASSUME TypeOK, NEW j \in Jobs, EnterSessionEnd(j)
  PROVE  pc' \in [Jobs -> TaskStates] /\ ends' \in [Jobs -> Nat]
<1>1. pc \in [Jobs -> TaskStates] /\ ends \in [Jobs -> Nat]
  BY DEF TypeOK
<1> QED BY <1>1 DEF EnterSessionEnd, TaskStates, Unfinished

(* Leaving the list writes the list, the counters and the history.         *)
LEMMA OnExecutorDoneType ==
  ASSUME TypeOK, NEW j \in Jobs, OnExecutorDone(j)
  PROVE  /\ executors' \subseteq Jobs
         /\ failures' \in Nat /\ limitFired' \in BOOLEAN /\ supervisorCalls' \in Nat
         /\ closeRequested' \in BOOLEAN
         /\ outcomes' \in Seq([job : Jobs, status : Statuses])
<1> DEFINE e == [job |-> j, status |-> status[j]]
<1>1. e \in [job : Jobs, status : Statuses]
  BY DEF TypeOK
<1>2. outcomes' = Append(outcomes, e)
  BY DEF OnExecutorDone, ObserveStatus
<1>3. outcomes' \in Seq([job : Jobs, status : Statuses])
  BY <1>1, <1>2 DEF TypeOK
<1>4. failures' \in Nat /\ supervisorCalls' \in Nat
  BY DEF OnExecutorDone, ObserveStatus, TypeOK
<1>5. limitFired' \in BOOLEAN /\ closeRequested' \in BOOLEAN
  BY DEF OnExecutorDone, ObserveStatus, TypeOK
<1>6. executors' \subseteq Jobs
  BY DEF OnExecutorDone, TypeOK
<1> QED BY <1>3, <1>4, <1>5, <1>6

(* The state the worker is created in is well typed.                       *)
LEMMA TypedAtFirst == ASSUME Init PROVE TypeOK
<1>1. outcomes \in Seq([job : Jobs, status : Statuses])
  BY DEF Init
<1>2. aclosing \in [Callers -> [Jobs -> {"none", "queued", "awaiting", "returned"}]]
  BY DEF Init
<1>3. absorbed \in [Jobs -> 0 .. MaxAbsorb]
  BY PoolConstants DEF Init
<1>4. pc \in [Jobs -> TaskStates] /\ status \in [Jobs -> Statuses] /\ ends \in [Jobs -> Nat]
  BY DEF Init, TaskStates, Unfinished, Statuses
<1>5. /\ cancel \in [Jobs -> BOOLEAN] /\ shutdown \in [Jobs -> BOOLEAN]
      /\ entered \in [Jobs -> BOOLEAN]
  BY DEF Init
<1> QED
  BY <1>1, <1>2, <1>3, <1>4, <1>5 DEF Init, TypeOK

(* Every step leaves every variable in its type.                           *)
LEMMA TypeStep ==
  ASSUME TypeOK, [Next]_vars
  PROVE  TypeOK'
<1> USE PoolConstants DEF TypeOK, TaskStates, Unfinished, Statuses, Callers,
      taskVars, lifeVars, drainVars, countVars
<1>1. ASSUME NEW j \in Jobs, LaunchJob(j) PROVE TypeOK'
  <2>1. pc' \in [Jobs -> TaskStates]
    BY <1>1 DEF LaunchJob
  <2>2. CASE executors' = executors \cup {j} /\ UNCHANGED <<closeRequested, countVars>>
    BY <1>1, <2>1, <2>2 DEF LaunchJob
  <2>3. CASE OnExecutorDone(j)
    BY <1>1, <2>1, <2>3, OnExecutorDoneType DEF LaunchJob
  <2> QED BY <1>1, <2>2, <2>3 DEF LaunchJob
<1>2. ASSUME NEW j \in Jobs, FirstStep(j) PROVE TypeOK'
  <2>1. pc' \in [Jobs -> TaskStates] /\ entered' \in [Jobs -> BOOLEAN]
    BY <1>2 DEF FirstStep
  <2>2. UNCHANGED <<status, cancel, shutdown, absorbed, ends, aclosing, lifeVars,
                    drainVars, executors, closeRequested, countVars>>
    BY <1>2 DEF FirstStep
  <2> QED BY <2>1, <2>2
<1>3. ASSUME NEW j \in Jobs, Hangup(j) PROVE TypeOK'
  BY <1>3 DEF Hangup
<1>4. ASSUME NEW j \in Jobs, EntryReturns(j) PROVE TypeOK'
  <2>1. CASE UNCHANGED <<status, ends>>
    <3>1. pc' = [pc EXCEPT ![j] = IF shutdown[j] THEN "teardown" ELSE "held"]
      BY <1>4, <2>1 DEF EntryReturns, EnterSessionEnd
    <3> QED BY <1>4, <2>1, <3>1 DEF EntryReturns
  <2>2. CASE Settle(j, "SUCCESS") /\ EnterSessionEnd(j)
    BY <1>4, <2>2, SettleType, EnterSessionEndType, SMTT(30) DEF EntryReturns
  <2> QED BY <1>4, <2>1, <2>2 DEF EntryReturns
<1>5. ASSUME NEW j \in Jobs, EntryRaises(j) PROVE TypeOK'
  BY <1>5, SettleType, EnterSessionEndType DEF EntryRaises
<1>6. ASSUME NEW j \in Jobs, ShutdownWakes(j) PROVE TypeOK'
  BY <1>6 DEF ShutdownWakes
<1>7. ASSUME NEW j \in Jobs, TeardownReturns(j) PROVE TypeOK'
  BY <1>7, SettleType, EnterSessionEndType DEF TeardownReturns
<1>22. ASSUME NEW j \in Jobs, TeardownRaises(j) PROVE TypeOK'
  BY <1>22, EnterSessionEndType, SMTT(30) DEF TeardownRaises
<1>8. ASSUME NEW j \in Jobs, SessionEndReturns(j) PROVE TypeOK'
  BY <1>8 DEF SessionEndReturns
<1>9. ASSUME NEW j \in Jobs, CancelRaised(j) PROVE TypeOK'
  <2>1. CASE pc' = [pc EXCEPT ![j] = "finished"] /\ UNCHANGED <<status, ends>>
    BY <1>9, <2>1 DEF CancelRaised
  <2>2. CASE Settle(j, "FAILED") /\ EnterSessionEnd(j)
    BY <1>9, <2>2, SettleType, EnterSessionEndType, SMTT(30) DEF CancelRaised
  <2>3. CASE EnterSessionEnd(j) /\ UNCHANGED status
    BY <1>9, <2>3, EnterSessionEndType DEF CancelRaised
  <2> QED BY <1>9, <2>1, <2>2, <2>3 DEF CancelRaised
<1>10. ASSUME NEW j \in Jobs, CancelAbsorbed(j) PROVE TypeOK'
  BY <1>10 DEF CancelAbsorbed
<1>11. ASSUME NEW j \in Jobs, DoneCallback(j) PROVE TypeOK'
  <2>1. status' \in [Jobs -> Statuses]
    BY <1>11, SettleType DEF DoneCallback
  <2>2. aclosing' \in [Callers -> [Jobs -> {"none", "queued", "awaiting", "returned"}]]
    BY <1>11 DEF DoneCallback
  <2>3. pc' \in [Jobs -> TaskStates]
    BY <1>11 DEF DoneCallback
  <2> QED BY <1>11, <2>1, <2>2, <2>3, OnExecutorDoneType DEF DoneCallback
<1>12. ASSUME NEW j \in Jobs, Terminate(j) PROVE TypeOK'
  BY <1>12 DEF Terminate, CallAclose, CancelTasks
<1>13. ASSUME NEW j \in Jobs, PoolAcloses(j) PROVE TypeOK'
  BY <1>13 DEF PoolAcloses, CallAclose, CancelTasks
<1>14. CASE BeginStart \/ SetupReturns
  BY <1>14 DEF BeginStart, SetupReturns
<1>15. CASE BeginDrain \/ Drain \/ DrainLoops
  <2>1. drainPc' \in {"idle", "joining", "done"} /\ drainSet' \subseteq Jobs
    BY <1>15 DEF BeginDrain, Drain, DrainLoops, JoinInFlight
  <2>2. draining' \in BOOLEAN
    BY <1>15 DEF BeginDrain, Drain, DrainLoops
  <2>3. UNCHANGED <<taskVars, aclosing, lifeVars, executors, closeRequested, countVars>>
    BY <1>15 DEF BeginDrain, Drain, DrainLoops
  <2> QED BY <2>1, <2>2, <2>3
<1>16. CASE RequestClose \/ Aclose
  <2>1. /\ started' \in BOOLEAN /\ closeRequested' \in BOOLEAN
        /\ closePc' \in {"idle", "introspection", "gathering", "timedOut", "done"}
    BY <1>16 DEF RequestClose, Aclose
  <2>2. UNCHANGED <<taskVars, aclosing, startPc, drainVars, executors, countVars>>
    BY <1>16 DEF RequestClose, Aclose
  <2> QED BY <2>1, <2>2
<1>17. CASE SnapshotExecutors
  BY <1>17 DEF SnapshotExecutors
<1>18. CASE CloseTimesOut
  BY <1>18 DEF CloseTimesOut, CancelTasks
<1>19. CASE CloseReturns
  BY <1>19 DEF CloseReturns
<1>20. CASE CloseKills
  BY <1>20 DEF CloseKills, KillTasks, CancelTasks
<1>21. CASE UNCHANGED vars
  BY <1>21 DEF vars
<1> QED
  BY <1>1, <1>2, <1>3, <1>4, <1>5, <1>6, <1>7, <1>8, <1>9, <1>10, <1>11, <1>12,
     <1>13, <1>14, <1>15, <1>16, <1>17, <1>18, <1>19, <1>20, <1>21, <1>22
     DEF Next, Session, Pool, Exited

(* TypeOK is an invariant, for any set of jobs, any failure limit and any   *)
(* number of swallowed cancellations: in particular _status only ever holds *)
(* one of the three JobStatus values the code assigns.                      *)
THEOREM TypeCorrect == Spec => []TypeOK
<1>1. Init => TypeOK
  BY TypedAtFirst
<1>2. TypeOK /\ [Next]_vars => TypeOK'
  BY TypeStep
<1> QED
  BY <1>1, <1>2, PTL DEF Spec
----------------------------------------------------------------------------
(* What a step can do to the slots: move sessions that are in flight, take  *)
(* a slot, refuse a job, or give a slot back.                               *)
SlotsKept ==
  /\ UNCHANGED <<executors, outcomes>>
  /\ \A j \in Jobs : pc'[j] # pc[j] =>
       pc[j] \in Unfinished /\ pc'[j] \in Unfinished \cup {"finished"}
SlotTaken(j) ==
  /\ pc[j] = "idle" /\ pc' = [pc EXCEPT ![j] = "scheduled"]
  /\ started /\ ~draining
  /\ executors' = executors \cup {j} /\ UNCHANGED outcomes
  /\ UNCHANGED <<started, draining, closePc>>
SlotDenied(j) ==
  /\ pc[j] = "idle" /\ pc' = [pc EXCEPT ![j] = "refused"]
  /\ started /\ ~draining
  /\ OnExecutorDone(j)
  /\ UNCHANGED <<started, draining, closePc>>
SlotGivenBack(j) ==
  /\ pc[j] = "finished" /\ pc' = [pc EXCEPT ![j] = "closed"]
  /\ OnExecutorDone(j)
  /\ UNCHANGED <<started, draining, closePc>>

(* Every step is one of these four kinds.                                  *)
LEMMA SlotSteps ==
  ASSUME TypeOK, [Next]_vars
  PROVE  SlotsKept \/ \E j \in Jobs : SlotTaken(j) \/ SlotDenied(j) \/ SlotGivenBack(j)
<1> USE DEF taskVars, countVars, lifeVars, drainVars
<1>1. pc \in [Jobs -> TaskStates]
  BY DEF TypeOK
<1>2. ASSUME NEW j \in Jobs, LaunchJob(j) PROVE SlotTaken(j) \/ SlotDenied(j)
  BY <1>2 DEF LaunchJob, SlotTaken, SlotDenied
<1>3. ASSUME NEW j \in Jobs, DoneCallback(j) PROVE SlotGivenBack(j)
  BY <1>3 DEF DoneCallback, SlotGivenBack
<1>4. ASSUME NEW j \in Jobs,
             FirstStep(j) \/ EntryReturns(j) \/ EntryRaises(j) \/ ShutdownWakes(j)
             \/ TeardownReturns(j) \/ TeardownRaises(j) \/ SessionEndReturns(j) \/ CancelRaised(j)
      PROVE  SlotsKept
  <2>1. UNCHANGED <<executors, outcomes>>
    BY <1>4 DEF FirstStep, EntryReturns, EntryRaises, ShutdownWakes, TeardownReturns,
                TeardownRaises, SessionEndReturns, CancelRaised
  <2>2. /\ pc[j] \in Unfinished
        /\ \E to \in Unfinished \cup {"finished"} : pc' = [pc EXCEPT ![j] = to]
    BY <1>4 DEF FirstStep, EntryReturns, EntryRaises, ShutdownWakes, TeardownReturns,
                TeardownRaises, SessionEndReturns, CancelRaised, EnterSessionEnd, Unfinished
  <2> QED BY <1>1, <2>1, <2>2 DEF SlotsKept
<1>5. ASSUME NEW j \in Jobs,
             Hangup(j) \/ CancelAbsorbed(j) \/ Terminate(j) \/ PoolAcloses(j)
      PROVE  SlotsKept
  BY <1>5 DEF Hangup, CancelAbsorbed, Terminate, PoolAcloses, SlotsKept
<1>6. CASE Pool \/ UNCHANGED vars
  <2>1. UNCHANGED <<pc, executors, outcomes>>
    BY <1>6 DEF Pool, BeginStart, SetupReturns, BeginDrain, Drain, DrainLoops, RequestClose,
                Aclose, SnapshotExecutors, CloseTimesOut, CloseReturns, CloseKills, vars
  <2> QED BY <2>1 DEF SlotsKept
<1> QED
  BY <1>2, <1>3, <1>4, <1>5, <1>6 DEF Next, Session, Exited

(* Every step keeps the list and the process_closed events exact.          *)
LEMMA SlotAccountingStep ==
  ASSUME TypeOK, SlotAccounting, [Next]_vars
  PROVE  SlotAccounting'
<1>1. pc \in [Jobs -> TaskStates] /\ outcomes \in Seq([job : Jobs, status : Statuses])
  BY DEF TypeOK
<1>2. CASE SlotsKept
  BY <1>1, <1>2 DEF SlotsKept, SlotAccounting, Unfinished
<1>3. ASSUME NEW j \in Jobs, SlotTaken(j) PROVE SlotAccounting'
  BY <1>1, <1>3 DEF SlotTaken, SlotAccounting, Unfinished
<1>4. ASSUME NEW j \in Jobs, SlotDenied(j) \/ SlotGivenBack(j) PROVE SlotAccounting'
  <2> DEFINE e == [job |-> j, status |-> status[j]]
  <2>1. executors' = executors \ {j} /\ outcomes' = Append(outcomes, e)
    BY <1>4 DEF SlotDenied, SlotGivenBack, OnExecutorDone, ObserveStatus
  <2>2. \E to \in {"closed", "refused"} : pc' = [pc EXCEPT ![j] = to]
    BY <1>4 DEF SlotDenied, SlotGivenBack
  <2>3. pc[j] \in {"idle", "finished"}
    BY <1>4 DEF SlotDenied, SlotGivenBack
  <2>4. executors' = {k \in Jobs : pc'[k] \in Unfinished \cup {"finished"}}
    BY <1>1, <2>1, <2>2, <2>3 DEF SlotAccounting, Unfinished
  <2>5. /\ DOMAIN outcomes' = DOMAIN outcomes \cup {Len(outcomes) + 1}
        /\ Len(outcomes) + 1 \notin DOMAIN outcomes
        /\ outcomes'[Len(outcomes) + 1].job = j
        /\ \A i \in DOMAIN outcomes : outcomes'[i] = outcomes[i]
    BY <1>1, <2>1
  <2>6. \A i \in DOMAIN outcomes : outcomes[i].job # j
    BY <2>3 DEF SlotAccounting
  <2>7. {outcomes'[i].job : i \in DOMAIN outcomes'}
          = {k \in Jobs : pc'[k] \in {"closed", "refused"}}
    BY <1>1, <2>2, <2>3, <2>5 DEF SlotAccounting
  <2>8. \A i, k \in DOMAIN outcomes' : outcomes'[i].job = outcomes'[k].job => i = k
    BY <2>5, <2>6 DEF SlotAccounting
  <2> QED BY <2>4, <2>7, <2>8 DEF SlotAccounting
<1> QED BY <1>2, <1>3, <1>4, SlotSteps

(* `processes` is exact, and every executor that left it was reported by    *)
(* exactly one process_closed event.                                        *)
THEOREM SlotsBalance == Spec => []SlotAccounting
<1>1. Init => SlotAccounting
  BY DEF Init, SlotAccounting, Unfinished
<1>2. TypeOK /\ SlotAccounting /\ [Next]_vars => SlotAccounting'
  BY SlotAccountingStep
<1> QED BY <1>1, <1>2, TypeCorrect, PTL DEF Spec
----------------------------------------------------------------------------
(* Every assignment of _status is guarded by `is JobStatus.RUNNING`, in     *)
(* whichever of the task, executor.aclose() and kill() it is made.          *)
LEMMA SettleKeepsVerdicts ==
  ASSUME TypeOK, NEW j \in Jobs, NEW verdict, Settle(j, verdict)
  PROVE  \A k \in Jobs : status[k] # "RUNNING" => status'[k] = status[k]
BY DEF Settle, TypeOK

VerdictsKept == \A j \in Jobs : status[j] # "RUNNING" => status'[j] = status[j]

(* Every step leaves a status that is no longer RUNNING alone.             *)
LEMMA VerdictStep ==
  ASSUME TypeOK, [Next]_vars
  PROVE  VerdictsKept
<1> USE DEF VerdictsKept
<1>1. ASSUME NEW j \in Jobs, Session(j) PROVE VerdictsKept
  <2>1. CASE UNCHANGED status
    BY <2>1
  <2>2. ASSUME NEW verdict, Settle(j, verdict) PROVE VerdictsKept
    BY <2>2, SettleKeepsVerdicts
  <2> QED
    BY <1>1, <2>1, <2>2
    DEF Session, LaunchJob, FirstStep, Hangup, EntryReturns, EntryRaises, ShutdownWakes,
        TeardownReturns, TeardownRaises, SessionEndReturns, CancelRaised, CancelAbsorbed, DoneCallback,
        Terminate, PoolAcloses
<1>2. CASE CloseKills
  BY <1>2 DEF CloseKills, KillTasks
<1>3. CASE BeginStart \/ SetupReturns \/ BeginDrain \/ Drain \/ DrainLoops \/ RequestClose
           \/ Aclose \/ SnapshotExecutors \/ CloseTimesOut \/ CloseReturns \/ Exited
  <2>1. UNCHANGED status
    BY <1>3 DEF BeginStart, SetupReturns, BeginDrain, Drain, DrainLoops, RequestClose,
                Aclose, SnapshotExecutors, CloseTimesOut, CloseReturns, Exited, vars, taskVars
  <2> QED BY <2>1
<1>4. CASE UNCHANGED vars
  BY <1>4 DEF vars, taskVars
<1> QED BY <1>1, <1>2, <1>3, <1>4 DEF Next, Pool

(* No step changes a verdict: a SUCCESS is not turned into FAILED by a      *)
(* later cancellation or kill, nor a FAILED into SUCCESS by a late return.  *)
THEOREM VerdictsAreFinal == Spec => VerdictIsFinal
<1>1. TypeOK /\ [Next]_vars => [VerdictsKept]_vars
  BY VerdictStep
<1> QED BY <1>1, TypeCorrect, PTL DEF Spec, VerdictIsFinal, VerdictsKept

----------------------------------------------------------------------------
(* session_end_fnc runs in a finally clause, so what is to be known is      *)
(* where each task state can have come from.                                *)
BodyReached ==
  \A j \in Jobs :
    /\ pc[j] \in {"idle", "scheduled", "refused"} => ~entered[j]
    /\ pc[j] \in {"entry", "held", "teardown", "ending"} => entered[j]

EndInv == BodyReached /\ SessionEndExactlyOnce

(* Every step counts session_end_fnc where the task enters its finally.    *)
LEMMA SessionEndStep ==
  ASSUME TypeOK, EndInv, [Next]_vars
  PROVE  EndInv'
<1> USE DEF EndInv, BodyReached, SessionEndExactlyOnce
<1>1. /\ pc \in [Jobs -> TaskStates] /\ ends \in [Jobs -> Nat]
      /\ entered \in [Jobs -> BOOLEAN]
  BY DEF TypeOK
<1>2. ASSUME NEW j \in Jobs, LaunchJob(j) PROVE EndInv'
  BY <1>1, <1>2 DEF LaunchJob
<1>3. ASSUME NEW j \in Jobs, FirstStep(j) PROVE EndInv'
  BY <1>1, <1>3 DEF FirstStep
<1>4. ASSUME NEW j \in Jobs, EntryReturns(j) PROVE EndInv'
  BY <1>1, <1>4 DEF EntryReturns, EnterSessionEnd
<1>5. ASSUME NEW j \in Jobs, EntryRaises(j) \/ TeardownReturns(j) \/ TeardownRaises(j)
      PROVE  EndInv'
  BY <1>1, <1>5 DEF EntryRaises, TeardownReturns, TeardownRaises, EnterSessionEnd
<1>6. ASSUME NEW j \in Jobs, ShutdownWakes(j) PROVE EndInv'
  BY <1>1, <1>6 DEF ShutdownWakes
<1>7. ASSUME NEW j \in Jobs, SessionEndReturns(j) PROVE EndInv'
  BY <1>1, <1>7 DEF SessionEndReturns
<1>8. ASSUME NEW j \in Jobs, CancelRaised(j) PROVE EndInv'
  BY <1>1, <1>8 DEF CancelRaised, EnterSessionEnd
<1>9. ASSUME NEW j \in Jobs, DoneCallback(j) PROVE EndInv'
  BY <1>1, <1>9 DEF DoneCallback
<1>10. CASE UNCHANGED <<pc, ends, entered>>
  BY <1>10
<1>11. ASSUME NEW j \in Jobs,
              Hangup(j) \/ CancelAbsorbed(j) \/ Terminate(j) \/ PoolAcloses(j)
       PROVE  UNCHANGED <<pc, ends, entered>>
  BY <1>11 DEF Hangup, CancelAbsorbed, Terminate, PoolAcloses
<1>12. Pool \/ UNCHANGED vars => UNCHANGED <<pc, ends, entered>>
  BY DEF Pool, BeginStart, SetupReturns, BeginDrain, Drain, DrainLoops, RequestClose,
         Aclose, SnapshotExecutors, CloseTimesOut, CloseReturns, CloseKills, vars, taskVars
<1> QED
  BY <1>2, <1>3, <1>4, <1>5, <1>6, <1>7, <1>8, <1>9, <1>10, <1>11, <1>12
  DEF Next, Session, Exited

(* The count of session_end_fnc calls follows the task states.             *)
LEMMA BodiesAreReached == Spec => []EndInv
<1>1. Init => EndInv
  BY DEF Init, EndInv, BodyReached, SessionEndExactlyOnce
<1>2. TypeOK /\ EndInv /\ [Next]_vars => EndInv'
  BY SessionEndStep
<1> QED BY <1>1, <1>2, TypeCorrect, PTL DEF Spec

(* However a session that reached its entrypoint ends, session_end_fnc is   *)
(* started once; it is never started for one that did not.                  *)
THEOREM EndStartsOnce == Spec => []SessionEndExactlyOnce
<1>1. EndInv => SessionEndExactlyOnce
  BY DEF EndInv
<1> QED BY <1>1, BodiesAreReached, PTL
----------------------------------------------------------------------------
(* A pool is closed once: aclose() on a pool that is not started returns,   *)
(* and start() comes up once.                                               *)
ClosedOnce ==
  /\ started => startPc = "up" /\ closePc = "idle"
  /\ closePc # "idle" => startPc = "up"
  /\ closePc \in {"idle", "introspection"} => \A j \in Jobs : aclosing["pool"][j] = "none"

(* Every step keeps the order of start() and aclose().                     *)
LEMMA ClosedOnceStep ==
  ASSUME TypeOK, ClosedOnce, [Next]_vars
  PROVE  ClosedOnce'
<1> USE DEF ClosedOnce
<1>1. aclosing \in [Callers -> [Jobs -> {"none", "queued", "awaiting", "returned"}]]
  BY DEF TypeOK
<1>2. CASE UNCHANGED <<lifeVars, aclosing>>
  BY <1>2 DEF lifeVars
<1>3. CASE BeginStart \/ SetupReturns
  BY <1>3 DEF BeginStart, SetupReturns
<1>4. CASE Aclose
  BY <1>4 DEF Aclose
<1>5. CASE SnapshotExecutors \/ CloseTimesOut \/ CloseReturns \/ CloseKills
  BY <1>1, <1>5 DEF SnapshotExecutors, CloseTimesOut, CloseReturns, CloseKills
<1>6. ASSUME NEW j \in Jobs, Terminate(j) \/ PoolAcloses(j) \/ DoneCallback(j)
      PROVE  ClosedOnce'
  <2>1. UNCHANGED lifeVars
    BY <1>6 DEF Terminate, PoolAcloses, DoneCallback
  <2>2. CASE Terminate(j)
    BY <1>1, <2>1, <2>2 DEF Terminate, CallAclose, lifeVars, Callers
  <2>3. CASE PoolAcloses(j)
    BY <1>1, <2>1, <2>3 DEF PoolAcloses, CallAclose, lifeVars, Callers
  <2>4. CASE DoneCallback(j)
    BY <1>1, <2>1, <2>4 DEF DoneCallback, lifeVars, Callers
  <2> QED BY <1>6, <2>2, <2>3, <2>4
<1>7. ASSUME NEW j \in Jobs,
             LaunchJob(j) \/ FirstStep(j) \/ Hangup(j) \/ EntryReturns(j) \/ EntryRaises(j)
             \/ ShutdownWakes(j) \/ TeardownReturns(j) \/ TeardownRaises(j) \/ SessionEndReturns(j)
             \/ CancelRaised(j) \/ CancelAbsorbed(j)
      PROVE  UNCHANGED <<lifeVars, aclosing>>
  BY <1>7 DEF LaunchJob, FirstStep, Hangup, EntryReturns, EntryRaises, ShutdownWakes,
              TeardownReturns, TeardownRaises, SessionEndReturns, CancelRaised, CancelAbsorbed
<1>8. BeginDrain \/ Drain \/ DrainLoops \/ RequestClose \/ UNCHANGED vars
        => UNCHANGED <<lifeVars, aclosing>>
  BY DEF BeginDrain, Drain, DrainLoops, RequestClose, vars
<1> QED
  BY <1>2, <1>3, <1>4, <1>5, <1>6, <1>7, <1>8 DEF Next, Session, Pool, Exited

(* start() comes up once and aclose() runs once.                           *)
LEMMA PoolClosesOnce == Spec => []ClosedOnce
<1>1. Init => ClosedOnce
  BY DEF Init, ClosedOnce, Callers
<1>2. TypeOK /\ ClosedOnce /\ [Next]_vars => ClosedOnce'
  BY ClosedOnceStep
<1> QED BY <1>1, <1>2, TypeCorrect, PTL DEF Spec

(* An executor.aclose() awaits the task until it is reaped, is called on a  *)
(* session that was launched, and returns when its task is over.            *)
AclosesAreCurrent ==
  \A j \in Jobs, c \in Callers :
    /\ aclosing[c][j] = "awaiting" => pc[j] \in Unfinished \cup {"finished"}
    /\ aclosing[c][j] # "none" => pc[j] # "idle"
    /\ aclosing[c][j] = "returned" => pc[j] \notin Unfinished

(* Every step keeps the awaiting aclose() calls and the tasks in step.     *)
LEMMA AclosesStep ==
  ASSUME TypeOK, SlotAccounting, ClosedOnce, AclosesAreCurrent, [Next]_vars
  PROVE  AclosesAreCurrent'
<1> USE DEF AclosesAreCurrent
<1>1. /\ pc \in [Jobs -> TaskStates] /\ executors \subseteq Jobs
      /\ aclosing \in [Callers -> [Jobs -> {"none", "queued", "awaiting", "returned"}]]
      /\ Callers = {"pool", "termination"}
  BY DEF TypeOK, Callers
<1>2. CASE SlotsKept /\ UNCHANGED aclosing
  BY <1>1, <1>2 DEF SlotsKept, Unfinished
<1>3. ASSUME NEW j \in Jobs, LaunchJob(j) PROVE AclosesAreCurrent'
  <2>1. pc[j] = "idle" /\ (\E to \in {"scheduled", "refused"} : pc' = [pc EXCEPT ![j] = to])
    BY <1>3 DEF LaunchJob
  <2>2. UNCHANGED aclosing
    BY <1>3 DEF LaunchJob
  <2>3. \A c \in Callers : aclosing[c][j] = "none"
    BY <1>1, <2>1
  <2> QED BY <1>1, <2>1, <2>2, <2>3
<1>4. ASSUME NEW j \in Jobs, DoneCallback(j) PROVE AclosesAreCurrent'
  <2>1. pc[j] = "finished" /\ pc' = [pc EXCEPT ![j] = "closed"]
    BY <1>4 DEF DoneCallback
  <2>2. \A c \in Callers : \A k \in Jobs :
          aclosing'[c][k] = IF k = j /\ aclosing[c][k] = "awaiting" THEN "returned"
                            ELSE aclosing[c][k]
    BY <1>4 DEF DoneCallback
  <2> QED BY <1>1, <2>1, <2>2 DEF Unfinished
<1>5. ASSUME NEW j \in Jobs, Terminate(j) \/ PoolAcloses(j) PROVE AclosesAreCurrent'
  <2>1. PICK c \in Callers : CallAclose(c, j)
    BY <1>1, <1>5 DEF Terminate, PoolAcloses
  <2>2. UNCHANGED pc
    BY <1>5 DEF Terminate, PoolAcloses
  <2>3. pc[j] # "idle"
    BY <1>1, <1>5 DEF Terminate, PoolAcloses, SlotAccounting, Unfinished
  <2>4. aclosing' = [aclosing EXCEPT ![c][j] =
                      IF pc[j] \in Unfinished THEN "awaiting" ELSE "returned"]
    BY <2>1 DEF CallAclose
  <2> QED BY <1>1, <2>2, <2>3, <2>4
<1>6. CASE SnapshotExecutors
  <2>1. UNCHANGED pc
    BY <1>6 DEF SnapshotExecutors, taskVars
  <2>2. \A k \in Jobs : /\ aclosing'["pool"][k] = IF k \in executors THEN "queued" ELSE "none"
                        /\ aclosing'["termination"][k] = aclosing["termination"][k]
    BY <1>1, <1>6 DEF SnapshotExecutors
  <2>3. \A k \in executors : pc[k] # "idle"
    BY DEF SlotAccounting, Unfinished
  <2> QED BY <1>1, <2>1, <2>2, <2>3
<1>7. CASE UNCHANGED <<pc, aclosing>>
  BY <1>7
<1>8. ASSUME NEW j \in Jobs,
             FirstStep(j) \/ Hangup(j) \/ EntryReturns(j) \/ EntryRaises(j)
             \/ ShutdownWakes(j) \/ TeardownReturns(j) \/ TeardownRaises(j) \/ SessionEndReturns(j)
             \/ CancelRaised(j) \/ CancelAbsorbed(j)
      PROVE  SlotsKept /\ UNCHANGED aclosing
  <2>1. UNCHANGED <<aclosing, executors, outcomes>>
    BY <1>8 DEF FirstStep, Hangup, EntryReturns, EntryRaises, ShutdownWakes, TeardownReturns,
                TeardownRaises, SessionEndReturns, CancelRaised, CancelAbsorbed, countVars
  <2>2. pc[j] \in Unfinished
    BY <1>8 DEF FirstStep, Hangup, EntryReturns, EntryRaises, ShutdownWakes, TeardownReturns,
                TeardownRaises, SessionEndReturns, CancelRaised, CancelAbsorbed, UserCode, Unfinished
  <2>3. \E to \in Unfinished \cup {"finished"} : pc' = [pc EXCEPT ![j] = to]
    BY <1>1, <1>8, <2>2
       DEF FirstStep, Hangup, EntryReturns, EntryRaises, ShutdownWakes, TeardownReturns,
           TeardownRaises, SessionEndReturns, CancelRaised, CancelAbsorbed, EnterSessionEnd, Unfinished
  <2> QED BY <1>1, <2>1, <2>2, <2>3 DEF SlotsKept
<1>9. Pool \/ UNCHANGED vars => SnapshotExecutors \/ UNCHANGED <<pc, aclosing>>
  BY DEF Pool, BeginStart, SetupReturns, BeginDrain, Drain, DrainLoops, RequestClose,
         Aclose, CloseTimesOut, CloseReturns, CloseKills, vars, taskVars
<1> QED
  BY <1>2, <1>3, <1>4, <1>5, <1>6, <1>7, <1>8, <1>9 DEF Next, Session, Exited

(* A cancellation has an owner: only executor.aclose() cancels a session,   *)
(* and it stays there, awaiting the task, until the task is reaped.  This   *)
(* is what makes up for teardown having no handler for CancelledError.      *)
Awaited(j) == \E c \in Callers : aclosing[c][j] = "awaiting"
CancelHasOwner ==
  \A j \in Jobs :
    /\ cancel[j] => pc[j] \in Unfinished /\ Awaited(j)
    /\ j \notin Stray /\ pc[j] \in {"ending", "finished"} /\ entered[j] /\ status[j] = "RUNNING"
         => Awaited(j)

SettleInv == CancelHasOwner /\ ReapedIsSettled

(* Every step of the pool leaves each cancellation with its aclose().      *)
LEMMA SettleStep ==
  ASSUME TypeOK, SlotAccounting, ClosedOnce, BodyReached, AclosesAreCurrent, SettleInv,
         [Next]_vars
  PROVE  SettleInv'
<1> USE DEF SettleInv, BodyReached, AclosesAreCurrent, CancelHasOwner, ReapedIsSettled,
              Awaited, Unfinished
<1>1. /\ pc \in [Jobs -> TaskStates] /\ status \in [Jobs -> Statuses]
      /\ entered \in [Jobs -> BOOLEAN] /\ cancel \in [Jobs -> BOOLEAN]
      /\ aclosing \in [Callers -> [Jobs -> {"none", "queued", "awaiting", "returned"}]]
      /\ executors \subseteq Jobs
  BY DEF TypeOK
<1>2. ASSUME NEW j \in Jobs, LaunchJob(j) PROVE SettleInv'
  BY <1>1, <1>2 DEF LaunchJob
<1>3. ASSUME NEW j \in Jobs, FirstStep(j) PROVE SettleInv'
  BY <1>1, <1>3 DEF FirstStep
<1>4. ASSUME NEW j \in Jobs, EntryReturns(j) PROVE SettleInv'
  <2>1. CASE /\ pc' = [pc EXCEPT ![j] = IF shutdown[j] THEN "teardown" ELSE "held"]
             /\ UNCHANGED <<status, ends>>
    <3>1. \E to \in {"teardown", "held"} : pc' = [pc EXCEPT ![j] = to]
      BY <2>1
    <3> QED BY <1>1, <1>4, <2>1, <3>1 DEF EntryReturns
  <2>2. CASE Settle(j, "SUCCESS") /\ EnterSessionEnd(j)
    BY <1>1, <1>4, <2>2 DEF EntryReturns, Settle, EnterSessionEnd
  <2> QED BY <1>4, <2>1, <2>2 DEF EntryReturns
<1>5. ASSUME NEW j \in Jobs, EntryRaises(j) PROVE SettleInv'
  BY <1>1, <1>5 DEF EntryRaises, Settle, EnterSessionEnd
<1>6. ASSUME NEW j \in Jobs, ShutdownWakes(j) PROVE SettleInv'
  BY <1>1, <1>6 DEF ShutdownWakes
<1>7. ASSUME NEW j \in Jobs, TeardownReturns(j) PROVE SettleInv'
  BY <1>1, <1>7 DEF TeardownReturns, Settle, EnterSessionEnd
<1>19. ASSUME NEW j \in Jobs, TeardownRaises(j) PROVE SettleInv'
  BY <1>1, <1>19 DEF TeardownRaises, EnterSessionEnd
<1>8. ASSUME NEW j \in Jobs, SessionEndReturns(j) PROVE SettleInv'
  BY <1>1, <1>8 DEF SessionEndReturns
<1>9. ASSUME NEW j \in Jobs, CancelRaised(j) PROVE SettleInv'
  <2>1. /\ cancel' = [cancel EXCEPT ![j] = FALSE] /\ UNCHANGED <<entered, aclosing>>
        /\ cancel[j] /\ Awaited(j)
    BY <1>9 DEF CancelRaised
  <2>2. CASE /\ pc[j] \in {"scheduled", "ending"}
             /\ pc' = [pc EXCEPT ![j] = "finished"] /\ UNCHANGED <<status, ends>>
    BY <1>1, <2>1, <2>2
  <2>3. CASE pc[j] \in {"entry", "held"} /\ Settle(j, "FAILED") /\ EnterSessionEnd(j)
    BY <1>1, <2>1, <2>3 DEF Settle, EnterSessionEnd
  <2>4. CASE pc[j] = "teardown" /\ EnterSessionEnd(j) /\ UNCHANGED status
    BY <1>1, <2>1, <2>4 DEF EnterSessionEnd
  <2> QED BY <1>9, <2>2, <2>3, <2>4 DEF CancelRaised
<1>10. ASSUME NEW j \in Jobs, CancelAbsorbed(j) PROVE SettleInv'
  BY <1>1, <1>10 DEF CancelAbsorbed
<1>11. ASSUME NEW j \in Jobs, DoneCallback(j) PROVE SettleInv'
  <2>1. pc[j] = "finished" /\ pc' = [pc EXCEPT ![j] = "closed"] /\ UNCHANGED <<cancel, entered>>
    BY <1>11 DEF DoneCallback
  <2>2. j \notin Stray /\ entered[j] => status'[j] # "RUNNING"
    BY <1>1, <1>11 DEF DoneCallback, Settle
  <2>3. \A k \in Jobs \ {j} : status'[k] = status[k]
    BY <1>1, <1>11 DEF DoneCallback, Settle
  <2>4. /\ \A c \in Callers : \A k \in Jobs \ {j} : aclosing'[c][k] = aclosing[c][k]
        /\ \A c \in Callers : aclosing'[c][j] = IF aclosing[c][j] = "awaiting"
                                                THEN "returned" ELSE aclosing[c][j]
    BY <1>11 DEF DoneCallback
  <2>5. \A k \in Jobs \ {j} : Awaited(k)' <=> Awaited(k)
    BY <2>4
  <2>6. ReapedIsSettled'
    BY <1>1, <2>1, <2>2, <2>3
  <2>7. CancelHasOwner'
    BY <1>1, <2>1, <2>3, <2>4, <2>5
  <2> QED BY <2>6, <2>7
<1>12. ASSUME NEW j \in Jobs, Terminate(j) \/ PoolAcloses(j) PROVE SettleInv'
  <2>1. PICK c \in Callers : CallAclose(c, j) /\ aclosing[c][j] \in {"none", "queued"}
    BY <1>12 DEF Terminate, PoolAcloses, Callers
  <2>2. UNCHANGED <<pc, status, entered>>
    BY <1>12 DEF Terminate, PoolAcloses
  <2>3. pc[j] # "idle"
    BY <1>1, <1>12 DEF Terminate, PoolAcloses, SlotAccounting, Callers
  <2>4. \A k \in Jobs : cancel'[k] = (cancel[k] \/ (k = j /\ pc[k] \in Unfinished))
    BY <2>1 DEF CallAclose, CancelTasks
  <2>5. aclosing' = [aclosing EXCEPT ![c][j] =
                      IF pc[j] \in Unfinished THEN "awaiting" ELSE "returned"]
    BY <2>1 DEF CallAclose
  <2>6. CASE pc[j] \in Unfinished
    BY <1>1, <2>2, <2>3, <2>4, <2>5, <2>6
  <2>7. CASE pc[j] \notin Unfinished
    BY <1>1, <2>1, <2>2, <2>3, <2>4, <2>5, <2>7
  <2> QED BY <2>6, <2>7
<1>13. CASE SnapshotExecutors
  <2>1. \A j \in Jobs : aclosing["pool"][j] = "none"
    BY <1>13 DEF SnapshotExecutors, ClosedOnce
  <2>2. \A j \in executors : pc[j] # "idle"
    BY <1>1 DEF SlotAccounting
  <2>3. /\ UNCHANGED <<pc, status, entered, cancel>>
        /\ aclosing' = [aclosing EXCEPT !["pool"] =
                          [j \in Jobs |-> IF j \in executors THEN "queued" ELSE "none"]]
    BY <1>13 DEF SnapshotExecutors, taskVars
  <2>4. /\ \A j \in Jobs : aclosing'["pool"][j] \in {"none", "queued"}
        /\ \A j \in Jobs : aclosing'["pool"][j] = "queued" => pc[j] # "idle"
        /\ \A j \in Jobs : aclosing'["termination"][j] = aclosing["termination"][j]
    BY <1>1, <2>2, <2>3 DEF Callers
  <2>5. \A j \in Jobs : Awaited(j) => Awaited(j)'
    BY <2>1, <2>4 DEF Callers
  <2>6. CancelHasOwner'
    BY <2>3, <2>4, <2>5 DEF Callers
  <2> QED BY <2>3, <2>6
<1>14. CASE CloseTimesOut
  BY <1>1, <1>14 DEF CloseTimesOut, CancelTasks, Callers
<1>15. CASE CloseKills
  <2>1. \A j \in Jobs : aclosing["pool"][j] # "none" => pc[j] \notin Unfinished
    BY <1>1, <1>15 DEF CloseKills, Gathered, Callers
  <2>2. cancel' = cancel /\ status' = status
    BY <1>1, <1>15, <2>1 DEF CloseKills, KillTasks, CancelTasks
  <2> QED BY <1>15, <2>2 DEF CloseKills
<1>16. CASE UNCHANGED <<pc, status, entered, cancel, aclosing>>
  BY <1>16
<1>17. ASSUME NEW j \in Jobs, Hangup(j)
       PROVE  UNCHANGED <<pc, status, entered, cancel, aclosing>>
  BY <1>17 DEF Hangup
<1>18. BeginStart \/ SetupReturns \/ BeginDrain \/ Drain \/ DrainLoops \/ RequestClose
       \/ Aclose \/ CloseReturns \/ UNCHANGED vars
         => UNCHANGED <<pc, status, entered, cancel, aclosing>>
  BY DEF BeginStart, SetupReturns, BeginDrain, Drain, DrainLoops, RequestClose,
         Aclose, CloseReturns, vars, taskVars
<1> QED
  BY <1>2, <1>3, <1>4, <1>5, <1>6, <1>7, <1>8, <1>9, <1>10, <1>11, <1>12, <1>13,
     <1>14, <1>15, <1>16, <1>17, <1>18, <1>19
  DEF Next, Session, Pool, Exited

(* The awaiting aclose() calls and the tasks are always in step.           *)
LEMMA AclosesStayCurrent == Spec => []AclosesAreCurrent
<1>1. Init => AclosesAreCurrent
  BY DEF Init, AclosesAreCurrent
<1>2. TypeOK /\ SlotAccounting /\ ClosedOnce /\ AclosesAreCurrent /\ [Next]_vars => AclosesAreCurrent'
  BY AclosesStep
<1> QED BY <1>1, <1>2, TypeCorrect, SlotsBalance, PoolClosesOnce, PTL DEF Spec

(* Before the first launch there is nothing to settle.                     *)
LEMMA SettledAtFirst == ASSUME Init PROVE SettleInv
BY DEF Init, SettleInv, CancelHasOwner, ReapedIsSettled, Awaited, Unfinished

(* Each cancellation has its aclose(), so each session is settled.         *)
LEMMA CancellationsAreAwaited == Spec => []SettleInv
<1>1. Init => SettleInv
  BY SettledAtFirst
<1>2. TypeOK /\ SlotAccounting /\ ClosedOnce /\ BodyReached /\ AclosesAreCurrent /\ SettleInv
        /\ [Next]_vars => SettleInv'
  BY SettleStep
<1>3. EndInv => BodyReached
  BY DEF EndInv
<1> QED
  BY <1>1, <1>2, <1>3, TypeCorrect, SlotsBalance, PoolClosesOnce, BodiesAreReached,
     AclosesStayCurrent, PTL DEF Spec

(* No session that reached its entrypoint is reaped and left RUNNING.       *)
THEOREM ReapedSessionsAreSettled == Spec => []ReapedIsSettled
<1>1. SettleInv => ReapedIsSettled
  BY DEF SettleInv
<1> QED BY <1>1, CancellationsAreAwaited, PTL

----------------------------------------------------------------------------
(* The snapshot aclose() works on covers every session still in flight.     *)
SnapshotCovers ==
  /\ closePc \in {"gathering", "timedOut"} => \A j \in executors : aclosing["pool"][j] # "none"
  /\ closePc = "done" => executors = {}

(* gather() is over only when every listed session has been reaped.        *)
LEMMA GatheredIsEmpty ==
  ASSUME TypeOK, SlotAccounting, AclosesAreCurrent, Gathered,
         \A j \in executors : aclosing["pool"][j] # "none"
  PROVE  executors = {}
<1>1. \A j \in Jobs : aclosing["pool"][j] = "returned" => pc[j] \notin Unfinished
  BY DEF AclosesAreCurrent, Callers
<1>2. \A j \in executors : j \in Jobs /\ pc[j] \in Unfinished \cup {"finished"}
  BY DEF SlotAccounting
<1> QED BY <1>1, <1>2 DEF Gathered

(* Nothing on the list means no session task on the loop.                  *)
LEMMA CoversIsQuiet == ASSUME TypeOK, SlotAccounting, SnapshotCovers PROVE ClosedPoolIsQuiet
BY DEF TypeOK, SlotAccounting, SnapshotCovers, ClosedPoolIsQuiet, TaskStates

(* Every step leaves the snapshot covering the list.                       *)
LEMMA SnapshotStep ==
  ASSUME TypeOK, SlotAccounting, ClosedOnce, AclosesAreCurrent, SnapshotCovers, [Next]_vars
  PROVE  SnapshotCovers'
<1> USE DEF SnapshotCovers
<1>1. /\ aclosing \in [Callers -> [Jobs -> {"none", "queued", "awaiting", "returned"}]]
      /\ executors \subseteq Jobs
  BY DEF TypeOK
<1>2. CASE UNCHANGED <<closePc, executors, aclosing>>
  BY <1>2
<1>3. ASSUME NEW j \in Jobs, LaunchJob(j) PROVE SnapshotCovers'
  BY <1>3 DEF LaunchJob, ClosedOnce, lifeVars
<1>4. ASSUME NEW j \in Jobs, DoneCallback(j) PROVE SnapshotCovers'
  BY <1>1, <1>4 DEF DoneCallback, OnExecutorDone, lifeVars, Callers
<1>5. ASSUME NEW j \in Jobs, Terminate(j) \/ PoolAcloses(j) PROVE SnapshotCovers'
  <2>1. PICK c \in Callers : CallAclose(c, j)
    BY <1>5 DEF Terminate, PoolAcloses, Callers
  <2>2. UNCHANGED <<closePc, executors>>
    BY <1>5 DEF Terminate, PoolAcloses, lifeVars
  <2> QED BY <1>1, <2>1, <2>2 DEF CallAclose, Callers
<1>6. CASE Aclose
  BY <1>6 DEF Aclose
<1>7. CASE SnapshotExecutors
  BY <1>1, <1>7 DEF SnapshotExecutors, Callers
<1>8. CASE CloseTimesOut
  BY <1>8 DEF CloseTimesOut
<1>9. CASE CloseReturns \/ CloseKills
  <2>1. executors = {}
    BY <1>9, GatheredIsEmpty DEF CloseReturns, CloseKills
  <2> QED BY <1>9, <2>1 DEF CloseReturns, CloseKills
<1>10. ASSUME NEW j \in Jobs,
              FirstStep(j) \/ Hangup(j) \/ EntryReturns(j) \/ EntryRaises(j)
              \/ ShutdownWakes(j) \/ TeardownReturns(j) \/ TeardownRaises(j) \/ SessionEndReturns(j)
              \/ CancelRaised(j) \/ CancelAbsorbed(j)
       PROVE  UNCHANGED <<closePc, executors, aclosing>>
  BY <1>10 DEF FirstStep, Hangup, EntryReturns, EntryRaises, ShutdownWakes,
               TeardownReturns, TeardownRaises, SessionEndReturns, CancelRaised, CancelAbsorbed, lifeVars
<1>11. BeginStart \/ SetupReturns \/ BeginDrain \/ Drain \/ DrainLoops \/ RequestClose
       \/ UNCHANGED vars => UNCHANGED <<closePc, executors, aclosing>>
  BY DEF BeginStart, SetupReturns, BeginDrain, Drain, DrainLoops, RequestClose, vars, lifeVars
<1> QED
  BY <1>2, <1>3, <1>4, <1>5, <1>6, <1>7, <1>8, <1>9, <1>10, <1>11
  DEF Next, Session, Pool, Exited

(* When aclose() has returned no session task is left: the await of         *)
(* introspection.aclose() lets none in, close_timeout lets none survive.    *)
THEOREM ClosedPoolStaysQuiet == Spec => []ClosedPoolIsQuiet
<1>1. Init => SnapshotCovers
  BY DEF Init, SnapshotCovers
<1>2. TypeOK /\ SlotAccounting /\ ClosedOnce /\ AclosesAreCurrent /\ SnapshotCovers /\ [Next]_vars
        => SnapshotCovers'
  BY SnapshotStep
<1>3. TypeOK /\ SlotAccounting /\ SnapshotCovers => ClosedPoolIsQuiet
  BY CoversIsQuiet
<1> QED
  BY <1>1, <1>2, <1>3, TypeCorrect, SlotsBalance, PoolClosesOnce, AclosesStayCurrent, PTL
  DEF Spec

----------------------------------------------------------------------------
(* The door of WorkerSlots: opened by start(), shut by drain or close.      *)
slotOf == [j \in Jobs |-> IF j \in executors THEN "held"
                          ELSE IF pc[j] = "idle" THEN "none" ELSE "released"]
doorOf == IF draining \/ closePc # "idle" THEN "shut" ELSE IF started THEN "open" ELSE "new"

(* The door opens once and shuts once.                                     *)
LEMMA DoorSteps ==
  ASSUME TypeOK, ClosedOnce, [Next]_vars
  PROVE  \/ UNCHANGED doorOf
         \/ doorOf = "new" /\ doorOf' = "open"
         \/ doorOf # "shut" /\ doorOf' = "shut"
<1> USE DEF ClosedOnce, doorOf
<1>1. CASE UNCHANGED <<started, draining, closePc>>
  BY <1>1
<1>2. CASE SetupReturns
  BY <1>2 DEF SetupReturns, drainVars
<1>3. CASE BeginDrain \/ Drain
  BY <1>3 DEF BeginDrain, Drain, lifeVars
<1>4. CASE Aclose
  BY <1>4 DEF Aclose, drainVars
<1>5. CASE SnapshotExecutors \/ CloseTimesOut \/ CloseReturns \/ CloseKills
  BY <1>5 DEF SnapshotExecutors, CloseTimesOut, CloseReturns, CloseKills, drainVars
<1>6. CASE BeginStart \/ DrainLoops \/ RequestClose \/ UNCHANGED vars
  BY <1>6 DEF BeginStart, DrainLoops, RequestClose, vars, drainVars, lifeVars
<1>7. ASSUME NEW j \in Jobs, Session(j) PROVE UNCHANGED <<started, draining, closePc>>
  BY <1>7 DEF Session, LaunchJob, FirstStep, Hangup, EntryReturns, EntryRaises, ShutdownWakes,
              TeardownReturns, TeardownRaises, SessionEndReturns, CancelRaised, CancelAbsorbed, DoneCallback,
              Terminate, PoolAcloses, lifeVars, drainVars
<1> QED
  BY <1>1, <1>2, <1>3, <1>4, <1>5, <1>6, <1>7 DEF Next, Pool, Exited

(* Every step of the pool is a step of WorkerSlots, or stutters.           *)
LEMMA SlotsStep ==
  ASSUME TypeOK, SlotAccounting, ClosedOnce, [Next]_vars
  PROVE  Slots!Next \/ UNCHANGED <<slotOf, doorOf>>
<1>1. pc \in [Jobs -> TaskStates] /\ executors \subseteq Jobs
  BY DEF TypeOK
<1>2. executors = {j \in Jobs : pc[j] \in Unfinished \cup {"finished"}}
  BY DEF SlotAccounting
<1>3. CASE SlotsKept
  <2>1. \A j \in Jobs : (pc'[j] = "idle") <=> (pc[j] = "idle")
    BY <1>3 DEF SlotsKept, Unfinished
  <2>2. UNCHANGED slotOf
    BY <1>3, <2>1 DEF SlotsKept, slotOf
  <2> QED
    BY <2>2, DoorSteps DEF Slots!Next, Slots!Open, Slots!Shut, slotOf, doorOf
<1>4. ASSUME NEW j \in Jobs, NEW from, NEW to,
             slotOf[j] = from, slotOf' = [slotOf EXCEPT ![j] = to], UNCHANGED doorOf
      PROVE  Slots!Move(j, from, to)
  BY <1>4 DEF Slots!Move, slotOf, doorOf
<1>5. ASSUME NEW j \in Jobs, SlotTaken(j) PROVE Slots!Next
  <2>1. doorOf = "open" /\ UNCHANGED doorOf
    BY <1>5 DEF SlotTaken, doorOf, ClosedOnce
  <2>2. slotOf[j] = "none" /\ slotOf' = [slotOf EXCEPT ![j] = "held"]
    BY <1>1, <1>2, <1>5 DEF SlotTaken, slotOf, Unfinished
  <2>3. Slots!Accept(j)
    BY <1>4, <2>1, <2>2 DEF Slots!Accept, doorOf
  <2> QED BY <2>3 DEF Slots!Next
<1>6. ASSUME NEW j \in Jobs, SlotDenied(j) PROVE Slots!Next
  <2>1. doorOf = "open" /\ UNCHANGED doorOf
    BY <1>6 DEF SlotDenied, doorOf, ClosedOnce
  <2>2. slotOf[j] = "none" /\ slotOf' = [slotOf EXCEPT ![j] = "released"]
    BY <1>1, <1>2, <1>6 DEF SlotDenied, OnExecutorDone, slotOf, Unfinished
  <2>3. Slots!Refuse(j)
    BY <1>4, <2>1, <2>2 DEF Slots!Refuse, doorOf
  <2> QED BY <2>3 DEF Slots!Next
<1>7. ASSUME NEW j \in Jobs, SlotGivenBack(j) PROVE Slots!Next
  <2>1. UNCHANGED doorOf
    BY <1>7 DEF SlotGivenBack, doorOf
  <2>2. slotOf[j] = "held" /\ slotOf' = [slotOf EXCEPT ![j] = "released"]
    BY <1>1, <1>2, <1>7 DEF SlotGivenBack, OnExecutorDone, slotOf, Unfinished
  <2>3. Slots!Release(j)
    BY <1>4, <2>1, <2>2 DEF Slots!Release
  <2> QED BY <2>3 DEF Slots!Next
<1> QED BY <1>3, <1>5, <1>6, <1>7, SlotSteps

(* The pool implements WorkerSlots: no job gets a slot once a drain or a    *)
(* close has begun, the door is not reopened, a slot is given back once.    *)
THEOREM PoolImplementsSlots == Spec => ImplementsSlots
<1>1. Init => Slots!Init
  BY DEF Init, Slots!Init
<1>2. TypeOK /\ SlotAccounting /\ ClosedOnce /\ [Next]_vars => [Slots!Next]_(Slots!vars)
  BY SlotsStep DEF Slots!vars, slotOf, doorOf
<1> QED
  BY <1>1, <1>2, TypeCorrect, SlotsBalance, PoolClosesOnce, PTL
  DEF Spec, ImplementsSlots, Slots!Spec

----------------------------------------------------------------------------
(* _consecutive_failures counts the failures at the end of the history, and *)
(* _failure_limit_fired says whether that run has reached the limit.        *)
Reached == {i \in DOMAIN outcomes : ReachesLimitAt(i)}
RunIsCounted ==
  /\ failures <= Len(outcomes)
  /\ \A i \in (Len(outcomes) - failures + 1) .. Len(outcomes) : Failed(i)
  /\ failures = Len(outcomes) \/ ~Failed(Len(outcomes) - failures)
  /\ limitFired <=> failures >= FailureLimit
  /\ supervisorCalls = Cardinality(Reached)

(* One more outcome: the history so far, and whether it reaches the limit.  *)
LEMMA OneMoreOutcome ==
  ASSUME TypeOK, RunIsCounted, NEW j \in Jobs, OnExecutorDone(j)
  PROVE  RunIsCounted'
<1>0. PICK n \in Nat : n = Len(outcomes)
  BY DEF TypeOK
<1>20. PICK e \in [job : Jobs, status : Statuses] : e = [job |-> j, status |-> status[j]]
  BY DEF TypeOK
<1>21. PICK failed \in BOOLEAN : failed <=> status[j] # "SUCCESS"
  OBVIOUS
<1>22. FailureLimit \in Nat /\ FailureLimit > 0
  BY PoolConstants
<1>1. /\ outcomes \in Seq([job : Jobs, status : Statuses]) /\ failures \in Nat
      /\ supervisorCalls \in Nat /\ limitFired \in BOOLEAN
  BY DEF TypeOK
<1>2. outcomes' = Append(outcomes, e)
  BY <1>20 DEF OnExecutorDone, ObserveStatus
<1>3. /\ Len(outcomes') = n + 1 /\ DOMAIN outcomes = 1 .. n /\ DOMAIN outcomes' = 1 .. (n + 1)
      /\ outcomes'[n + 1] = e
      /\ \A i \in 1 .. n : outcomes'[i] = outcomes[i]
  BY <1>0, <1>1, <1>2
<1>4. Failed(n + 1)' <=> failed
  BY <1>20, <1>21, <1>3 DEF Failed
<1>5. \A i \in 1 .. n : Failed(i)' <=> Failed(i)
  BY <1>3 DEF Failed
<1>6. \A i \in 1 .. n : ReachesLimitAt(i)' <=> ReachesLimitAt(i)
  BY <1>22, <1>5 DEF ReachesLimitAt
<1>7. failures' = IF failed THEN failures + 1 ELSE 0
  BY <1>21 DEF OnExecutorDone, ObserveStatus
<1>8. /\ failures <= n
      /\ \A i \in (n - failures + 1) .. n : Failed(i)
      /\ failures = n \/ ~Failed(n - failures)
      /\ limitFired <=> failures >= FailureLimit
      /\ supervisorCalls = Cardinality(Reached)
  BY <1>0 DEF RunIsCounted
<1>9. /\ failures' <= n + 1
      /\ \A i \in 1 .. n + 1 : i >= n + 2 - failures' => Failed(i)'
      /\ failures' = n + 1 \/ \E i \in 1 .. n + 1 : i = n + 1 - failures' /\ ~Failed(i)'
  <2>1. CASE failed
    <3>1. failures' = failures + 1
      BY <1>7, <2>1
    <3>2. \A i \in 1 .. n + 1 : i >= n + 2 - failures' => Failed(i)'
      BY <1>1, <1>4, <1>5, <1>8, <2>1, <3>1
    <3>3. failures # n => n - failures \in 1 .. n
      BY <1>1, <1>8
    <3> QED BY <1>1, <1>5, <1>8, <3>1, <3>2, <3>3
  <2>2. CASE ~failed
    BY <1>1, <1>4, <1>7, <2>2
  <2> QED BY <2>1, <2>2
<1>23. ReachesLimitAt(n + 1)' <=> failed /\ failures + 1 = FailureLimit
  <2>1. CASE ~failed
    BY <1>22, <1>4, <2>1 DEF ReachesLimitAt
  <2>2. CASE failed /\ failures + 1 < FailureLimit
    <3>1. n + 1 >= FailureLimit => n - failures \in (n + 2 - FailureLimit) .. (n + 1)
      BY <1>1, <1>22, <1>8, <2>2
    <3>2. n + 1 >= FailureLimit => ~Failed(n - failures) /\ n - failures \in 1 .. n
      BY <1>1, <1>22, <1>8, <2>2
    <3> QED BY <1>22, <1>1, <1>5, <2>2, <3>1, <3>2 DEF ReachesLimitAt
  <2>3. CASE failed /\ failures + 1 = FailureLimit
    <3>1. n + 1 >= FailureLimit
      BY <1>1, <1>8, <2>3
    <3>2. \A k \in (n + 2 - FailureLimit) .. (n + 1) : Failed(k)'
      BY <1>1, <1>22, <1>4, <1>5, <1>8, <2>3
    <3>3. n + 1 = FailureLimit \/ (n + 1 - FailureLimit \in 1 .. n /\ ~Failed(n + 1 - FailureLimit))
      BY <1>1, <1>22, <1>8, <2>3
    <3>4. ReachesLimitAt(n + 1)'
      BY <1>22, <1>5, <3>1, <3>2, <3>3 DEF ReachesLimitAt
    <3> QED BY <2>3, <3>4
  <2>4. CASE failed /\ failures + 1 > FailureLimit
    <3>1. n + 1 - FailureLimit \in 1 .. n /\ Failed(n + 1 - FailureLimit)
      BY <1>1, <1>22, <1>8, <2>4
    <3>2. Failed(n + 1 - FailureLimit)' /\ n + 1 # FailureLimit
      BY <1>5, <1>22, <3>1
    <3> QED BY <1>22, <2>4, <3>2 DEF ReachesLimitAt
  <2> QED BY <1>1, <1>22, <2>1, <2>2, <2>3, <2>4
<1>10. limitFired' <=> failures' >= FailureLimit
  <2>1. limitFired' <=> failed /\ (limitFired \/ failures + 1 >= FailureLimit)
    BY <1>21 DEF OnExecutorDone, ObserveStatus
  <2> QED BY <1>1, <1>7, <1>8, <1>22, <2>1
<1>11. supervisorCalls' = IF failed /\ failures + 1 = FailureLimit
                          THEN supervisorCalls + 1 ELSE supervisorCalls
  <2>1. supervisorCalls' = IF failed /\ failures + 1 >= FailureLimit /\ ~limitFired
                           THEN supervisorCalls + 1 ELSE supervisorCalls
    BY <1>21 DEF OnExecutorDone, ObserveStatus
  <2> QED BY <1>1, <1>8, <1>22, <2>1
<1>12. IsFiniteSet(Reached) /\ n + 1 \notin Reached
  <2>1. IsFiniteSet(1 .. n)
    BY FS_Interval
  <2>2. Reached \subseteq 1 .. n
    BY <1>3 DEF Reached
  <2>3. IsFiniteSet(Reached)
    BY <2>1, <2>2, FS_Subset
  <2> QED BY <2>2, <2>3
<1>13. supervisorCalls' = Cardinality(Reached')
  <2>1. Reached' = {i \in 1 .. n + 1 : ReachesLimitAt(i)'}
    BY <1>3 DEF Reached
  <2>2. Reached = {i \in 1 .. n : ReachesLimitAt(i)}
    BY <1>3 DEF Reached
  <2>3. \A i \in 1 .. n + 1 : i \in 1 .. n \/ i = n + 1
    OBVIOUS
  <2>4. CASE failed /\ failures + 1 = FailureLimit
    <3>1. ReachesLimitAt(n + 1)'
      BY <1>23, <2>4
    <3>2. Reached' = Reached \cup {n + 1}
      BY <1>6, <2>1, <2>2, <2>3, <3>1
    <3> QED BY <1>8, <1>11, <1>12, <2>4, <3>2, FS_AddElement
  <2>5. CASE ~(failed /\ failures + 1 = FailureLimit)
    <3>1. ~ReachesLimitAt(n + 1)'
      BY <1>23, <2>5
    <3>2. Reached' = Reached
      BY <1>6, <2>1, <2>2, <2>3, <3>1
    <3> QED BY <1>8, <1>11, <2>5, <3>2
  <2> QED BY <2>4, <2>5
<1>14. RunIsCounted'
  <2>1. \A i \in (Len(outcomes') - failures' + 1) .. Len(outcomes') : Failed(i)'
    BY <1>1, <1>3, <1>7, <1>9
  <2>2. failures' = Len(outcomes') \/ ~(Failed(Len(outcomes) - failures))'
    <3>1. ASSUME NEW i \in 1 .. n + 1, i = n + 1 - failures', ~Failed(i)'
          PROVE  ~(Failed(Len(outcomes) - failures))'
      <4>1. Len(outcomes') - failures' = i
        BY <1>1, <1>3, <1>7, <3>1
      <4>2. outcomes'[i].status = "SUCCESS"
        BY <3>1 DEF Failed
      <4> QED BY <4>1, <4>2 DEF Failed
    <3> QED BY <1>3, <1>9, <3>1
  <2> QED BY <1>3, <1>9, <1>10, <1>13, <2>1, <2>2 DEF RunIsCounted
<1> QED BY <1>14

(* With no outcome yet the count is zero.                                  *)
LEMMA CountedAtFirst == ASSUME Init PROVE RunIsCounted
<1>1. outcomes = <<>> /\ failures = 0 /\ limitFired = FALSE /\ supervisorCalls = 0
  BY DEF Init
<1>2. Reached = {} /\ Len(outcomes) = 0
  BY <1>1 DEF Reached
<1> QED BY <1>1, <1>2, FS_EmptySet, PoolConstants DEF RunIsCounted

(* The supervisor's calls are the runs that reached the limit.             *)
LEMMA CountedIsOncePerRun == ASSUME RunIsCounted PROVE SupervisorOncePerRun
BY DEF RunIsCounted, Reached, SupervisorOncePerRun

(* Every step keeps the counter and the flag true to the history.          *)
LEMMA RunIsCountedStep ==
  ASSUME TypeOK, RunIsCounted, [Next]_vars
  PROVE  RunIsCounted'
<1>1. ASSUME NEW j \in Jobs, OnExecutorDone(j) PROVE RunIsCounted'
  BY <1>1, OneMoreOutcome
<1>2. CASE UNCHANGED countVars
  BY <1>2 DEF RunIsCounted, Reached, ReachesLimitAt, Failed, countVars
<1>3. (\E j \in Jobs : OnExecutorDone(j)) \/ UNCHANGED countVars
  BY DEF Next, Session, Pool, Exited, LaunchJob, FirstStep, Hangup, EntryReturns,
         EntryRaises, ShutdownWakes, TeardownReturns, TeardownRaises, SessionEndReturns, CancelRaised,
         CancelAbsorbed, DoneCallback, Terminate, PoolAcloses, BeginStart, SetupReturns,
         BeginDrain, Drain, DrainLoops, RequestClose, Aclose, SnapshotExecutors,
         CloseTimesOut, CloseReturns, CloseKills, vars
<1> QED BY <1>1, <1>2, <1>3

(* The supervisor is called once for every run of failures that reaches the *)
(* limit, whatever else the run goes on to.                                 *)
THEOREM SupervisorFiresOncePerRun == Spec => []SupervisorOncePerRun
<1>1. Init => RunIsCounted
  BY CountedAtFirst
<1>2. TypeOK /\ RunIsCounted /\ [Next]_vars => RunIsCounted'
  BY RunIsCountedStep
<1>3. RunIsCounted => SupervisorOncePerRun
  BY CountedIsOncePerRun
<1> QED BY <1>1, <1>2, <1>3, TypeCorrect, PTL DEF Spec
----------------------------------------------------------------------------
(* The same pool under the drain of SIGTERM.  The server's loop reads the   *)
(* pool, and writes one thing: the cancellation of the session it joins.    *)
LEMMA ServerSteps ==
  ASSUME [ServerNext]_allVars
  PROVE  [Next]_vars \/ DrainTimesOut
BY DEF ServerNext, allVars, BeginServerDrain, JoinReturns, Runs, Starved, Next, Session

(* The timeout of the drain writes the cancellation and nothing else.      *)
LEMMA DrainTimesOutOnlyCancels ==
  ASSUME TypeOK, DrainTimesOut
  PROVE  /\ cancel' \in [Jobs -> BOOLEAN]
         /\ UNCHANGED <<pc, status, shutdown, absorbed, entered, ends, aclosing, startPc, started,
                        closePc, draining, drainPc, drainSet, executors, closeRequested,
                        failures, limitFired, supervisorCalls, outcomes>>
BY DEF TypeOK, DrainTimesOut, CancelTasks, lifeVars, drainVars, countVars

(* What the pool keeps by itself whoever cancels its sessions.              *)
PoolInv ==
  /\ TypeOK /\ SlotAccounting /\ EndInv /\ ClosedOnce /\ AclosesAreCurrent /\ SnapshotCovers
  /\ RunIsCounted

(* The steps of the drain loop keep what the pool keeps.                   *)
LEMMA ServerKeepsPoolInv == ServerSpec => []PoolInv
<1>1. ServerInit => PoolInv
  <2> SUFFICES ASSUME Init PROVE PoolInv
    BY DEF ServerInit
  <2>1. SlotAccounting /\ EndInv
    BY DEF Init, SlotAccounting, Unfinished, EndInv, BodyReached, SessionEndExactlyOnce
  <2>2. ClosedOnce /\ AclosesAreCurrent /\ SnapshotCovers
    BY DEF Init, ClosedOnce, AclosesAreCurrent, SnapshotCovers, Callers
  <2> QED BY <2>1, <2>2, TypedAtFirst, CountedAtFirst DEF PoolInv
<1>2. PoolInv /\ [ServerNext]_allVars => PoolInv'
  <2> SUFFICES ASSUME PoolInv, [ServerNext]_allVars PROVE PoolInv'
    OBVIOUS
  <2>1. CASE [Next]_vars
    BY <2>1, TypeStep, SlotAccountingStep, SessionEndStep, ClosedOnceStep, AclosesStep,
       SnapshotStep, RunIsCountedStep DEF PoolInv
  <2>2. CASE DrainTimesOut
    <3>1. /\ cancel' \in [Jobs -> BOOLEAN]
          /\ UNCHANGED <<pc, status, shutdown, absorbed, entered, ends, aclosing, startPc, started,
                         closePc, draining, drainPc, drainSet, executors, closeRequested,
                         failures, limitFired, supervisorCalls, outcomes>>
      BY <2>2, DrainTimesOutOnlyCancels DEF PoolInv
    <3>2. TypeOK'
      BY <3>1 DEF PoolInv, TypeOK
    <3>3. SlotAccounting' /\ EndInv'
      BY <3>1 DEF PoolInv, SlotAccounting, EndInv, BodyReached, SessionEndExactlyOnce
    <3>4. ClosedOnce' /\ AclosesAreCurrent' /\ SnapshotCovers'
      BY <3>1 DEF PoolInv, ClosedOnce, AclosesAreCurrent, SnapshotCovers
    <3>5. RunIsCounted'
      BY <3>1 DEF PoolInv, RunIsCounted, Reached, ReachesLimitAt, Failed
    <3> QED BY <3>2, <3>3, <3>4, <3>5 DEF PoolInv
  <2> QED BY <2>1, <2>2, ServerSteps
<1> QED BY <1>1, <1>2, PTL DEF ServerSpec

(* A drain that times out, in whatever phase it catches the session it is   *)
(* joining, breaks nothing the pool accounts for: the slots, the one        *)
(* session_end_fnc per session, the quiet after close, the supervisor.      *)
THEOREM ServerDrainKeepsThePool ==
  ServerSpec => [](TypeOK /\ SlotAccounting /\ SessionEndExactlyOnce /\ ClosedPoolIsQuiet
                   /\ SupervisorOncePerRun)
<1>1. PoolInv => /\ TypeOK /\ SlotAccounting /\ SessionEndExactlyOnce /\ ClosedPoolIsQuiet
                 /\ SupervisorOncePerRun
  BY CoversIsQuiet, CountedIsOncePerRun DEF PoolInv, EndInv
<1> QED BY <1>1, ServerKeepsPoolInv, PTL

(* The drain loop changes no verdict: a session that finished by itself     *)
(* keeps its status when the timeout comes a moment later.                  *)
THEOREM ServerDrainKeepsVerdicts == ServerSpec => VerdictIsFinal
<1>1. PoolInv /\ [ServerNext]_allVars => [VerdictsKept]_vars
  <2> SUFFICES ASSUME PoolInv, [ServerNext]_allVars PROVE VerdictsKept
    OBVIOUS
  <2>1. TypeOK
    BY DEF PoolInv
  <2>2. CASE [Next]_vars
    BY <2>1, <2>2, VerdictStep
  <2>3. CASE DrainTimesOut
    BY <2>1, <2>3, DrainTimesOutOnlyCancels DEF VerdictsKept
  <2> QED BY <2>2, <2>3, ServerSteps
<1> QED BY <1>1, ServerKeepsPoolInv, PTL DEF ServerSpec, VerdictIsFinal, VerdictsKept

(* The pool implements WorkerSlots also while the server drains it.         *)
THEOREM ServerDrainImplementsSlots == ServerSpec => ImplementsSlots
<1>1. ServerInit => Slots!Init
  BY DEF ServerInit, Init, Slots!Init
<1>2. PoolInv /\ [ServerNext]_allVars => [Slots!Next]_(Slots!vars)
  <2> SUFFICES ASSUME PoolInv, [ServerNext]_allVars
               PROVE  Slots!Next \/ UNCHANGED <<slotOf, doorOf>>
    BY DEF Slots!vars, slotOf, doorOf
  <2>1. TypeOK /\ SlotAccounting /\ ClosedOnce
    BY DEF PoolInv
  <2>2. CASE [Next]_vars
    BY <2>1, <2>2, SlotsStep
  <2>3. CASE DrainTimesOut
    BY <2>1, <2>3, DrainTimesOutOnlyCancels DEF slotOf, doorOf
  <2> QED BY <2>2, <2>3, ServerSteps
<1> QED
  BY <1>1, <1>2, ServerKeepsPoolInv, PTL DEF ServerSpec, ImplementsSlots, Slots!Spec

(* Until drain_timeout fires every cancellation has its aclose(), and every *)
(* session that ran is reaped with a verdict.  The timeout's own has none:  *)
(* a session it catches in teardown can be reaped RUNNING.                  *)
THEOREM SettledUntilDrainTimesOut == ServerSpec => [](~timedOut => ReapedIsSettled)
<1> DEFINE UntilTimeout == ~timedOut => SettleInv
<1>1. ServerInit => UntilTimeout
  BY SettledAtFirst DEF ServerInit
<1>2. PoolInv /\ UntilTimeout /\ [ServerNext]_allVars => UntilTimeout'
  <2> SUFFICES ASSUME PoolInv, UntilTimeout, [ServerNext]_allVars, ~timedOut'
               PROVE  SettleInv'
    OBVIOUS
  <2>1. ~timedOut /\ ~DrainTimesOut
    BY DEF ServerNext, allVars, serverVars, BeginServerDrain, JoinReturns, DrainTimesOut,
           Runs, Starved
  <2>2. [Next]_vars /\ SettleInv
    BY <2>1, ServerSteps
  <2> QED BY <2>2, SettleStep DEF PoolInv, EndInv
<1>3. UntilTimeout => (~timedOut => ReapedIsSettled)
  BY DEF SettleInv
<1> QED BY <1>1, <1>2, <1>3, ServerKeepsPoolInv, PTL DEF ServerSpec
=============================================================================

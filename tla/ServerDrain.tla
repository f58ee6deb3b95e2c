---------------------------- MODULE ServerDrain ----------------------------
(***************************************************************************)
(* livekit-agents' AgentServer.drain(timeout) over the coroutine pool: the *)
(* SIGTERM path.  It is not code of this repository; its loop is taken     *)
(* from docs/design/agent-server-integration.md:94-95.  It lists the       *)
(* processes that have a job and joins them one after the other until none *)
(* is left, under asyncio.wait_for(timeout).                               *)
(*                                                                         *)
(* executor.join() returns without suspending when the session task is     *)
(* done, and else awaits the task itself and swallows CancelledError.  So: *)
(*   - the drain runs from one unfinished session to the next in one step, *)
(*     behind the done callback of the session it awaited, and never waits *)
(*     for the done callbacks of the others;                               *)
(*   - when every session left is finished and not reaped, it lists them   *)
(*     again and again in that step, and no callback and no timer runs;    *)
(*   - when the timeout cancels the drain, the cancellation lands in the   *)
(*     one session being joined, and the drain goes on with the next.      *)
(***************************************************************************)
EXTENDS CoroutinePool

VARIABLES
  serverPc,   \* "idle", then "joining", then "done", or "spinning" for ever
  joining,    \* the executors still to be joined in this round, and the
  joined,     \* one (or none) that join() is awaiting
  timedOut,   \* drain_timeout has fired
  ready       \* the finished sessions, in the order of their done callbacks

serverVars == <<serverPc, joining, joined, timedOut>>
allVars == <<vars, serverVars, ready>>

(* call_soon() is first in, first out: a session that finishes queues its  *)
(* done callback, and the callback that runs is the oldest.                *)
InOrder ==
  \/ \E j \in Jobs : /\ pc[j] # "finished" /\ pc'[j] = "finished"
                     /\ ready' = Append(ready, j)
  \/ \E j \in Jobs : /\ pc[j] = "finished" /\ pc'[j] = "closed"
                     /\ j = Head(ready) /\ ready' = Tail(ready)
  \/ /\ \A j \in Jobs : pc[j] = "finished" <=> pc'[j] = "finished"
     /\ UNCHANGED ready

Pending(S) == {j \in S : pc[j] \in Unfinished}

(* `while procs: for proc in procs: await proc.join()`, up to the first    *)
(* join() that suspends; listed is the rest of the round, current the      *)
(* pool's processes.  With none to suspend on, the loop ends or spins.     *)
JoinNext(listed, current) ==
  LET open == IF Pending(listed) # {} THEN Pending(listed) ELSE Pending(current)
  IN  IF open # {}
      THEN serverPc' = "joining" /\ \E j \in open : joined' = {j} /\ joining' = open \ {j}
      ELSE /\ serverPc' = IF current = {} THEN "done" ELSE "spinning"
           /\ joined' = {} /\ joining' = {}

BeginServerDrain ==
  /\ serverPc = "idle" /\ started
  /\ JoinNext({}, executors)
  /\ UNCHANGED <<vars, timedOut, ready>>

(* The drain is woken by a callback of the task it awaits, which runs      *)
(* behind the pool's own: the joined session is reaped first.              *)
JoinReturns ==
  /\ serverPc = "joining"
  /\ \E j \in Jobs : joined = {j} /\ DoneCallback(j)
  /\ InOrder
  /\ JoinNext(joining, executors')
  /\ UNCHANGED timedOut

(* wait_for cancels the drain, and with it the session task it awaits.     *)
DrainTimesOut ==
  /\ serverPc = "joining" /\ ~timedOut
  /\ timedOut' = TRUE
  /\ CancelTasks(joined)
  /\ UNCHANGED <<serverPc, joining, joined, ready, pc, status, shutdown, absorbed, entered,
                 ends, aclosing, lifeVars, drainVars, executors, closeRequested, countVars>>

ServerInit ==
  /\ Init
  /\ serverPc = "idle" /\ joining = {} /\ joined = {} /\ timedOut = FALSE /\ ready = <<>>

(* A step of the pool: the loop is not starved, and the done callback of   *)
(* the joined session is JoinReturns.                                      *)
Runs(Step) ==
  /\ Step /\ InOrder
  /\ serverPc # "spinning" /\ joined \subseteq executors'
  /\ UNCHANGED serverVars

(* The drain never yields again: nothing else on the loop runs.            *)
Starved == serverPc = "spinning" /\ UNCHANGED allVars

ServerNext == Runs(Next) \/ BeginServerDrain \/ JoinReturns \/ DrainTimesOut \/ Starved

(* The fairness of the pool, for a loop that may be starved.               *)
ServerFairness ==
  /\ WF_allVars(JoinReturns) /\ WF_allVars(DrainTimesOut)
  /\ WF_allVars(Runs(SetupReturns)) /\ WF_allVars(Runs(DrainLoops))
  /\ WF_allVars(Runs(Aclose)) /\ WF_allVars(Runs(SnapshotExecutors))
  /\ WF_allVars(Runs(CloseTimesOut)) /\ WF_allVars(Runs(CloseReturns))
  /\ WF_allVars(Runs(CloseKills))
  /\ \A j \in Jobs :
       /\ WF_allVars(Runs(FirstStep(j))) /\ WF_allVars(Runs(ShutdownWakes(j)))
       /\ WF_allVars(Runs(SessionEndReturns(j))) /\ WF_allVars(Runs(DoneCallback(j)))
       /\ WF_allVars(Runs(CancelRaised(j) \/ CancelAbsorbed(j)))
       /\ WF_allVars(Runs(PoolAcloses(j)))

(* And every call ends: its code returns, and its caller hangs up.         *)
ServedCallsEnd ==
  \A j \in Jobs : /\ WF_allVars(Runs(EntryReturns(j) \/ EntryRaises(j)))
                  /\ WF_allVars(Runs(TeardownReturns(j) \/ TeardownRaises(j)))
                  /\ WF_allVars(Runs(Hangup(j)))

ServerSpec == ServerInit /\ [][ServerNext]_allVars /\ ServerFairness
ServerCallsEndSpec == ServerSpec /\ ServedCallsEnd

(* "Stop accepting, await in-flight, exit within `drain_timeout`": when    *)
(* every call ends, the drain of SIGTERM ends.                             *)
ServerDrainCompletes == serverPc = "joining" ~> serverPc = "done"

(* "The wait window is bounded by drain_timeout": once the timeout has     *)
(* fired, the drain stops joining however long the calls go on.            *)
DrainWindowIsBounded == timedOut ~> serverPc # "joining"
=============================================================================

---------------------- MODULE SessionLifecycle_proofs ----------------------
(***************************************************************************)
(* One session inside its task, for every set of sessions, any number of   *)
(* agents and observers and any bound on the cancellations.                *)
(***************************************************************************)
EXTENDS SessionLifecycle, SequenceLemmas

Engaged == EntryPhases \cup {"held", "teardown"}
Report  == [session : Sessions, outcome : Outcomes]

(* What a session's variables have to do with each other.                  *)
SessionShape(s) ==
  /\ phase[s] = "scheduled" => ~entered[s] /\ agent[s] = "none"
  /\ phase[s] \in Engaged => entered[s] /\ agent[s] \in Agents
  /\ phase[s] \in Engaged \cup {"scheduled"} => status[s] = "RUNNING"
  /\ phase[s] = "ending" => entered[s]
  /\ finish[s] = IF phase[s] \in {"held", "teardown"} THEN "success" ELSE "none"
  /\ phase[s] \in {"startHooks", "inlineEnd"} => hook[s] <= Observers
  /\ absorbed[s] + (IF cancel[s] THEN 1 ELSE 0) <= cancels[s]
  /\ absorbed[s] + (IF cancel[s] THEN 1 ELSE 0) <= MaxCancels
  /\ cut[s] # "none" => cancels[s] > 0

LifecycleIsSound == TypeOK /\ \A s \in Sessions : SessionShape(s)

(* The pieces of a session that one step changes together.                 *)
PieceTypes ==
  /\ phase \in [Sessions -> Unfinished \cup {"finished"}]
  /\ hook \in [Sessions -> 1 .. (Observers + 1)]
  /\ status \in [Sessions -> {"RUNNING", "SUCCESS", "FAILED"}]
  /\ error \in [Sessions -> Outcomes]
  /\ finish \in [Sessions -> Outcomes \cup {"none"}]
  /\ active \in [Agents -> Nat]
  /\ reports \in Seq(Report)

(* Recording the end of a session keeps the types.                         *)
LEMMA RecordFinishType ==
  ASSUME TypeOK, NEW s \in Sessions, NEW o \in Outcomes, agent[s] \in Agents, RecordFinish(s, o)
  PROVE  active' \in [Agents -> Nat] /\ reports' \in Seq(Report)
<1>1. active' \in [Agents -> Nat]
  BY DEF RecordFinish, Decrement, TypeOK
<1>2. [session |-> s, outcome |-> o] \in Report
  BY DEF Report
<1>3. reports' \in Seq(Report)
  BY <1>2 DEF RecordFinish, TypeOK, Report
<1> QED BY <1>1, <1>3

(* So does moving a session to another place.                              *)
LEMMA AtType ==
  ASSUME TypeOK, NEW s \in Sessions, NEW p \in Unfinished \cup {"finished"},
         NEW h \in 1 .. (Observers + 1), At(s, p, h)
  PROVE  /\ phase' \in [Sessions -> Unfinished \cup {"finished"}]
         /\ hook' \in [Sessions -> 1 .. (Observers + 1)]
BY DEF At, TypeOK

(* The places of a session, sorted.                                        *)
LEMMA Phases ==
  /\ EntryPhases \cup {"held", "teardown", "ending", "finished"} \subseteq Unfinished \cup {"finished"}
  /\ 1 \in 1 .. (Observers + 1) /\ Observers + 1 \in 1 .. (Observers + 1)
BY LifecycleConstants DEF Unfinished, UserPhases, EntryPhases

(* Leaving the try block of the entrypoint keeps the types.                *)
LEMMA LeaveTryType ==
  ASSUME TypeOK, NEW s \in Sessions, NEW o \in Outcomes \cup {"none"}, agent[s] \in Agents \/ o = "none",
         LeaveTry(s, o)
  PROVE  /\ phase' \in [Sessions -> Unfinished \cup {"finished"}]
         /\ hook' \in [Sessions -> 1 .. (Observers + 1)]
         /\ finish' \in [Sessions -> Outcomes \cup {"none"}]
         /\ active' \in [Agents -> Nat]
         /\ reports' \in Seq(Report)
<1>1. \E h \in {1, Observers + 1} : At(s, "ending", h)
  BY DEF LeaveTry
<1>2. /\ phase' \in [Sessions -> Unfinished \cup {"finished"}]
      /\ hook' \in [Sessions -> 1 .. (Observers + 1)]
      /\ finish' \in [Sessions -> Outcomes \cup {"none"}]
  <2>1. finish' \in [Sessions -> Outcomes \cup {"none"}]
    BY DEF LeaveTry, TypeOK
  <2> QED BY <1>1, <2>1, AtType, Phases
<1>3. active' \in [Agents -> Nat] /\ reports' \in Seq(Report)
  <2>1. CASE o = "none"
    BY <2>1 DEF LeaveTry, TypeOK, Report
  <2>2. CASE o # "none"
    BY <2>2, RecordFinishType DEF LeaveTry
  <2> QED BY <2>1, <2>2
<1> QED BY <1>2, <1>3

(* So does leaving the entrypoint.                                         *)
LEMMA LeaveEntryType ==
  ASSUME TypeOK, NEW s \in Sessions, NEW o \in Outcomes, agent[s] \in Agents,
         LeaveEntry(s, o)
  PROVE  PieceTypes'
<1> USE DEF PieceTypes
<1>1. CASE HeldOpen(s) /\ o = "success"
  <2>1. \E p \in {"teardown", "held"} : At(s, p, 1)
    BY <1>1 DEF LeaveEntry
  <2>2. /\ phase' \in [Sessions -> Unfinished \cup {"finished"}]
        /\ hook' \in [Sessions -> 1 .. (Observers + 1)]
    BY <2>1, AtType, Phases
  <2>3. UNCHANGED <<status, error, active, reports>> /\ finish' = [finish EXCEPT ![s] = o]
    BY <1>1 DEF LeaveEntry
  <2>4. finish' \in [Sessions -> Outcomes \cup {"none"}]
    BY <2>3 DEF TypeOK
  <2> QED BY <2>2, <2>3, <2>4 DEF TypeOK, Report
<1>2. CASE HeldOpen(s) /\ o # "success"
  <2>1. LeaveTry(s, o) /\ Settle(s, "FAILED") /\ error' = error /\ o \in Outcomes \cup {"none"}
    BY <1>2 DEF LeaveEntry
  <2>2. /\ status' \in [Sessions -> {"RUNNING", "SUCCESS", "FAILED"}]
        /\ error' \in [Sessions -> Outcomes]
    BY <2>1 DEF Settle, TypeOK
  <2> QED BY <2>1, <2>2, LeaveTryType
<1>3. CASE ~HeldOpen(s)
  <2>1. At(s, "inlineEnd", 1) /\ "inlineEnd" \in EntryPhases
    BY <1>3 DEF LeaveEntry, EntryPhases
  <2>2. /\ phase' \in [Sessions -> Unfinished \cup {"finished"}]
        /\ hook' \in [Sessions -> 1 .. (Observers + 1)]
    BY <2>1, AtType, Phases
  <2>3. RecordFinish(s, o) /\ error' = [error EXCEPT ![s] = o] /\ UNCHANGED <<status, finish>>
    BY <1>3 DEF LeaveEntry
  <2>4. active' \in [Agents -> Nat] /\ reports' \in Seq(Report)
    BY <2>3, RecordFinishType
  <2>5. error' \in [Sessions -> Outcomes]
    BY <2>3 DEF TypeOK
  <2> QED BY <2>2, <2>3, <2>4, <2>5 DEF TypeOK
<1> QED BY <1>1, <1>2, <1>3

(* So does leaving an end that is reported inline.                         *)
LEMMA LeaveInlineEndType ==
  ASSUME TypeOK, NEW s \in Sessions, NEW o \in Outcomes, LeaveInlineEnd(s, o)
  PROVE  PieceTypes'
BY LeaveTryType DEF LeaveInlineEnd, Settle, TypeOK, PieceTypes

(* So does a cancellation that is raised further.                          *)
LEMMA PropagateType ==
  ASSUME TypeOK, NEW s \in Sessions, SessionShape(s), NEW c \in Causes, Propagate(s, c)
  PROVE  PieceTypes' /\ cut' \in [Sessions -> Causes \cup {"none"}]
<1>1. CASE phase[s] \in {"starting", "startHooks", "greeting"} /\ LeaveEntry(s, "cancelled") /\ UNCHANGED cut
  BY <1>1, LeaveEntryType DEF SessionShape, Engaged, EntryPhases, Outcomes, TypeOK
<1>2. CASE LeaveInlineEnd(s, "cancelled") /\ cut' = [cut EXCEPT ![s] = c]
  BY <1>2, LeaveInlineEndType DEF Outcomes, TypeOK
<1>3. CASE /\ At(s, "finished", hook[s])
           /\ cut' = [cut EXCEPT ![s] = IF hook[s] <= Observers THEN c ELSE @]
           /\ UNCHANGED <<status, error, finish, active, reports>>
  BY <1>3 DEF At, TypeOK, PieceTypes, Report
<1> QED BY <1>1, <1>2, <1>3 DEF Propagate

(* Initially every session has its shape.                                  *)
LEMMA TypeInit == Init => LifecycleIsSound
BY LifecycleConstants DEF Init, LifecycleIsSound, TypeOK, SessionShape, Unfinished, UserPhases,
   EntryPhases, Engaged, Outcomes

(* Every step of a session keeps the types and the shape of its own.       *)
LEMMA TypeStep ==
  ASSUME LifecycleIsSound, [Next]_vars
  PROVE  TypeOK'
<1> USE DEF LifecycleIsSound
<1>1. Observers \in Nat \ {0} /\ MaxCancels \in Nat
  BY LifecycleConstants
<1>2. CASE UNCHANGED vars
  BY <1>2 DEF TypeOK, vars, taskVars, callVars, sharedVars
<1>3. SUFFICES ASSUME NEW s \in Sessions, Session(s) PROVE TypeOK'
  BY <1>2 DEF Next, Over
<1>s. SessionShape(s)
  OBVIOUS
<1>4. CASE FirstStep(s)
  <2>1. CASE LeaveTry(s, "none") /\ Settle(s, "FAILED") /\ UNCHANGED agent
    BY <1>4, <2>1, LeaveTryType DEF FirstStep, Settle, TypeOK, Report
  <2>2. CASE At(s, "finished", 1) /\ UNCHANGED <<entered, agent, active, status, finish, reports>>
    BY <1>1, <1>4, <2>2 DEF FirstStep, At, TypeOK
  <2>3. CASE /\ \E a \in Agents : /\ agent' = [agent EXCEPT ![s] = a]
                                 /\ active' = [active EXCEPT ![a] = @ + 1]
             /\ At(s, "starting", 1)
             /\ UNCHANGED <<status, finish, reports>>
    <3>1. "starting" \in EntryPhases
      BY DEF EntryPhases
    <3>2. /\ phase' \in [Sessions -> Unfinished \cup {"finished"}]
          /\ hook' \in [Sessions -> 1 .. (Observers + 1)]
      BY <2>3, <3>1, AtType, Phases
    <3>3. agent' \in [Sessions -> Agents \cup {"none"}] /\ active' \in [Agents -> Nat]
      BY <2>3 DEF TypeOK
    <3> QED BY <1>4, <2>3, <3>2, <3>3 DEF FirstStep, TypeOK
  <2> QED BY <1>4, <2>1, <2>2, <2>3 DEF FirstStep
<1>5. CASE BecomesPrimary(s)
  BY <1>5 DEF BecomesPrimary, TypeOK, taskVars, sharedVars
<1>6. CASE StartReturns(s)
  BY <1>1, <1>6 DEF StartReturns, At, TypeOK, callVars, sharedVars, Unfinished, UserPhases, EntryPhases
<1>7. CASE EntryRaises(s)
  <2>1. PieceTypes'
    BY <1>7, <1>s, LeaveEntryType DEF EntryRaises, SessionShape, Engaged, EntryPhases, Outcomes
  <2> QED BY <1>7, <2>1 DEF EntryRaises, TypeOK, PieceTypes, Report
<1>8. CASE GreetingReturns(s)
  <2>1. PieceTypes'
    BY <1>8, <1>s, LeaveEntryType DEF GreetingReturns, SessionShape, Engaged, EntryPhases, Outcomes
  <2> QED BY <1>8, <2>1 DEF GreetingReturns, TypeOK, PieceTypes, Report
<1>9. CASE Hangup(s)
  BY <1>9 DEF Hangup, TypeOK, callVars, sharedVars
<1>10. CASE ShutdownWakes(s)
  BY <1>1, <1>10 DEF ShutdownWakes, At, TypeOK, callVars, sharedVars, Unfinished, UserPhases, EntryPhases
<1>11. CASE TeardownEnds(s)
  <2>1. /\ finish[s] = "success" /\ finish[s] \in Outcomes \cup {"none"}
        /\ agent[s] \in Agents
        /\ LeaveTry(s, finish[s])
    BY <1>11, <1>s DEF TeardownEnds, SessionShape, Engaged, Outcomes
  <2>2. /\ phase' \in [Sessions -> Unfinished \cup {"finished"}]
        /\ hook' \in [Sessions -> 1 .. (Observers + 1)]
        /\ finish' \in [Sessions -> Outcomes \cup {"none"}]
        /\ active' \in [Agents -> Nat] /\ reports' \in Seq(Report)
    BY <2>1, LeaveTryType
  <2>3. status' \in [Sessions -> {"RUNNING", "SUCCESS", "FAILED"}]
    BY <1>11 DEF TeardownEnds, Settle, TypeOK
  <2> QED BY <1>11, <2>2, <2>3 DEF TeardownEnds, TypeOK, Report
<1>12. CASE HookReturns(s)
  <2>1. CASE /\ hook[s] < Observers \/ phase[s] = "ending"
             /\ At(s, phase[s], hook[s] + 1)
             /\ UNCHANGED <<status, error, finish, active, reports>>
    BY <1>1, <1>12, <2>1, SMTT(30) DEF HookReturns, At, TypeOK
  <2>2. CASE At(s, "greeting", 1) /\ UNCHANGED <<status, error, finish, active, reports>>
    <3>1. phase' \in [Sessions -> Unfinished \cup {"finished"}] /\ hook' \in [Sessions -> 1 .. (Observers + 1)]
      BY <1>1, <2>2 DEF At, TypeOK, Unfinished, UserPhases, EntryPhases
    <3> QED BY <1>12, <2>2, <3>1 DEF HookReturns, TypeOK
  <2>3. CASE phase[s] = "startHooks" /\ LeaveEntry(s, "success")
    BY <1>12, <1>s, <2>3, LeaveEntryType DEF HookReturns, TypeOK, PieceTypes, SessionShape, Engaged, EntryPhases, Outcomes, Report
  <2>4. CASE LeaveInlineEnd(s, error[s])
    BY <1>12, <1>s, <2>4, LeaveInlineEndType DEF HookReturns, TypeOK, PieceTypes, Report
  <2> QED BY <1>12, <2>1, <2>2, <2>3, <2>4 DEF HookReturns
<1>13. CASE HookCancelsItself(s)
  BY <1>13, <1>s, PropagateType DEF HookCancelsItself, Causes, TypeOK, PieceTypes, Report
<1>14. CASE EndTimesOut(s)
  <2>1. cancels' \in [Sessions -> 0 .. (MaxCancels + 1)]
    BY <1>1, <1>14 DEF EndTimesOut, TypeOK
  <2> QED BY <1>14, <1>s, <2>1, PropagateType DEF EndTimesOut, Causes, TypeOK, PieceTypes, Report
<1>15. CASE SessionEndReturns(s)
  BY <1>15 DEF SessionEndReturns, At, TypeOK, callVars, sharedVars
<1>16. CASE Cancel(s)
  <2>1. cancels' \in [Sessions -> 0 .. (MaxCancels + 1)] /\ cancel' \in [Sessions -> BOOLEAN]
    BY <1>1, <1>16 DEF Cancel, TypeOK
  <2> QED BY <1>16, <2>1 DEF Cancel, TypeOK, callVars, sharedVars
<1>17. CASE CancelRaised(s)
  <2>1. absorbed' \in [Sessions -> 0 .. MaxCancels] /\ cancel' \in [Sessions -> BOOLEAN]
    BY <1>1, <1>17, <1>s DEF CancelRaised, TypeOK, SessionShape
  <2>2. PieceTypes' /\ cut' \in [Sessions -> Causes \cup {"none"}]
    <3>1. CASE At(s, "finished", 1) /\ UNCHANGED <<status, error, finish, active, reports, cut>>
      BY <1>1, <3>1 DEF At, TypeOK, PieceTypes, Report
    <3>2. CASE Propagate(s, "cancellation")
      BY <1>s, <3>2, PropagateType DEF Causes
    <3>3. CASE phase[s] \in {"held", "teardown"} /\ LeaveTry(s, finish[s]) /\ UNCHANGED <<error, cut>>
               /\ (Settle(s, "FAILED") \/ UNCHANGED status)
      BY <1>s, <3>3, LeaveTryType DEF Settle, SessionShape, Engaged, TypeOK, PieceTypes
    <3> QED BY <1>17, <3>1, <3>2, <3>3 DEF CancelRaised
  <2> QED BY <1>17, <2>1, <2>2 DEF CancelRaised, TypeOK, PieceTypes, Report
<1>18. CASE CancelAbsorbed(s)
  BY <1>1, <1>18, <1>s, SMTT(30) DEF CancelAbsorbed, TypeOK, SessionShape, callVars, sharedVars
<1> QED BY <1>3, <1>4, <1>5, <1>6, <1>7, <1>8, <1>9, <1>10, <1>11, <1>12, <1>13, <1>14, <1>15,
           <1>16, <1>17, <1>18 DEF Session

(* A step of one session leaves the others' variables alone.               *)
Untouched(t) ==
  /\ phase'[t] = phase[t] /\ hook'[t] = hook[t] /\ status'[t] = status[t] /\ cancel'[t] = cancel[t]
  /\ cancels'[t] = cancels[t] /\ absorbed'[t] = absorbed[t] /\ shutdown'[t] = shutdown[t]
  /\ entered'[t] = entered[t] /\ primary'[t] = primary[t] /\ agent'[t] = agent[t]
  /\ error'[t] = error[t] /\ finish'[t] = finish[t] /\ cut'[t] = cut[t]

(* A step of one session leaves the others as they are.                    *)
LEMMA OthersStay ==
  ASSUME TypeOK, NEW s \in Sessions, Session(s), NEW t \in Sessions, t # s
  PROVE  Untouched(t)
<1> USE DEF Untouched
<1>1. ASSUME NEW p, NEW h, At(s, p, h) PROVE phase'[t] = phase[t] /\ hook'[t] = hook[t]
  BY <1>1 DEF At, TypeOK
<1>2. ASSUME NEW v, Settle(s, v) PROVE status'[t] = status[t]
  BY <1>2 DEF Settle, TypeOK
<1>3. ASSUME NEW o, LeaveTry(s, o)
      PROVE  phase'[t] = phase[t] /\ hook'[t] = hook[t] /\ finish'[t] = finish[t]
  BY <1>1, <1>3 DEF LeaveTry, TypeOK
<1>4. ASSUME NEW o, LeaveEntry(s, o)
      PROVE  /\ phase'[t] = phase[t] /\ hook'[t] = hook[t] /\ finish'[t] = finish[t]
             /\ status'[t] = status[t] /\ error'[t] = error[t]
  BY <1>1, <1>2, <1>3, <1>4 DEF LeaveEntry, TypeOK
<1>5. ASSUME NEW o, LeaveInlineEnd(s, o)
      PROVE  /\ phase'[t] = phase[t] /\ hook'[t] = hook[t] /\ finish'[t] = finish[t]
             /\ status'[t] = status[t] /\ error'[t] = error[t]
  BY <1>2, <1>3, <1>5 DEF LeaveInlineEnd, TypeOK
<1>6. ASSUME NEW c \in Causes, Propagate(s, c)
      PROVE  /\ phase'[t] = phase[t] /\ hook'[t] = hook[t] /\ finish'[t] = finish[t]
             /\ status'[t] = status[t] /\ error'[t] = error[t] /\ cut'[t] = cut[t]
  BY <1>1, <1>4, <1>5, <1>6 DEF Propagate, TypeOK
<1> HIDE DEF Untouched
<1>7. CASE FirstStep(s)
  BY <1>1, <1>2, <1>3, <1>7 DEF FirstStep, TypeOK, Untouched
<1>8. CASE BecomesPrimary(s) \/ StartReturns(s) \/ Hangup(s) \/ ShutdownWakes(s)
  BY <1>1, <1>8 DEF BecomesPrimary, StartReturns, Hangup, ShutdownWakes, taskVars, callVars, sharedVars,
     TypeOK, Untouched
<1>9. CASE EntryRaises(s) \/ GreetingReturns(s)
  BY <1>4, <1>9 DEF EntryRaises, GreetingReturns, TypeOK, Untouched
<1>10. CASE TeardownEnds(s)
  BY <1>2, <1>3, <1>10 DEF TeardownEnds, TypeOK, Untouched
<1>11. CASE HookReturns(s)
  BY <1>1, <1>4, <1>5, <1>11 DEF HookReturns, TypeOK, Untouched
<1>12. CASE HookCancelsItself(s) \/ EndTimesOut(s)
  BY <1>6, <1>12 DEF HookCancelsItself, EndTimesOut, Causes, TypeOK, Untouched
<1>13. CASE SessionEndReturns(s) \/ Cancel(s) \/ CancelAbsorbed(s)
  BY <1>1, <1>13 DEF SessionEndReturns, Cancel, CancelAbsorbed, callVars, sharedVars, TypeOK, Untouched
<1>14. CASE CancelRaised(s)
  BY <1>1, <1>2, <1>3, <1>6, <1>14 DEF CancelRaised, Causes, TypeOK, Untouched
<1> QED BY <1>7, <1>8, <1>9, <1>10, <1>11, <1>12, <1>13, <1>14 DEF Session

(* The four ways out of a place of run_session, seen on the session alone: *)
(* what it is afterwards, and whether its end was reported.                *)
Same == UNCHANGED <<active, reports>>

(* Where a session is after the try block.                                 *)
LEMMA LeaveTryAt ==
  ASSUME TypeOK, NEW s \in Sessions, NEW o, LeaveTry(s, o)
  PROVE  /\ phase'[s] = "ending" /\ finish'[s] = "none"
         /\ o = "none" => hook'[s] = Observers + 1 /\ Same
         /\ o # "none" => hook'[s] = 1 /\ RecordFinish(s, o)
BY DEF LeaveTry, At, TypeOK, Same

(* Where a session is after its entrypoint.                                *)
LEMMA LeaveEntryAt ==
  ASSUME TypeOK, NEW s \in Sessions, NEW o \in Outcomes, LeaveEntry(s, o), status[s] = "RUNNING"
  PROVE  \/ /\ o = "success" /\ phase'[s] \in {"held", "teardown"} /\ hook'[s] = 1
            /\ finish'[s] = o /\ status'[s] = "RUNNING" /\ Same
         \/ /\ o # "success" /\ phase'[s] = "ending" /\ hook'[s] = 1
            /\ finish'[s] = "none" /\ status'[s] = "FAILED" /\ RecordFinish(s, o)
         \/ /\ phase'[s] = "inlineEnd" /\ hook'[s] = 1 /\ error'[s] = o
            /\ finish'[s] = finish[s] /\ status'[s] = "RUNNING" /\ RecordFinish(s, o)
<1>1. CASE HeldOpen(s) /\ o = "success"
  BY <1>1 DEF LeaveEntry, At, TypeOK, Same
<1>2. CASE HeldOpen(s) /\ o # "success"
  <2>1. LeaveTry(s, o) /\ Settle(s, "FAILED") /\ o # "none"
    BY <1>2 DEF LeaveEntry, Outcomes
  <2>2. status'[s] = "FAILED"
    BY <2>1 DEF Settle, TypeOK
  <2> QED BY <1>2, <2>1, <2>2, LeaveTryAt
<1>3. CASE ~HeldOpen(s)
  BY <1>3 DEF LeaveEntry, At, TypeOK
<1> QED BY <1>1, <1>2, <1>3

(* Where a session is after an inline end.                                 *)
LEMMA LeaveInlineEndAt ==
  ASSUME TypeOK, NEW s \in Sessions, NEW o, LeaveInlineEnd(s, o), status[s] = "RUNNING"
  PROVE  /\ phase'[s] = "ending" /\ hook'[s] = Observers + 1 /\ finish'[s] = "none" /\ Same
         /\ status'[s] = IF o = "success" THEN "SUCCESS" ELSE "FAILED"
BY LeaveTryAt DEF LeaveInlineEnd, Settle, TypeOK

(* What a step does to its session: it goes on without a report, it is     *)
(* counted, or its end is reported, which a live session does once.        *)
Begins(s) ==
  /\ phase[s] = "scheduled" /\ phase'[s] = "starting" /\ UNCHANGED <<reports, failures>>
  /\ hook'[s] = 1 /\ finish'[s] = finish[s] /\ status'[s] = status[s] /\ entered'[s]
  /\ \E a \in Agents : agent'[s] = a /\ active' = [active EXCEPT ![a] = @ + 1]
Ends(s, o) ==
  /\ Live(s) /\ agent'[s] = agent[s] /\ RecordFinish(s, o) /\ hook'[s] = 1
  /\ failures' = IF o = "failed" THEN failures + 1 ELSE failures
  /\ \/ phase'[s] = "ending" /\ finish'[s] = "none" /\ (o # "success" => status'[s] = "FAILED")
     \/ phase'[s] = "inlineEnd" /\ finish'[s] = "none" /\ error'[s] = o /\ status'[s] = "RUNNING"
  /\ entered'[s] = entered[s] /\ cut'[s] = cut[s]
GoesOn(s) ==
  /\ Same /\ agent'[s] = agent[s] /\ failures' = failures
  /\ \/ /\ Live(s) /\ phase'[s] \in {"starting", "startHooks", "greeting", "held", "teardown"}
        /\ finish'[s] = IF phase'[s] \in {"held", "teardown"} THEN "success" ELSE "none"
        /\ phase'[s] = "startHooks" => hook'[s] <= Observers
        /\ status'[s] = status[s] /\ entered'[s] = entered[s]
     \/ /\ phase'[s] = phase[s] /\ finish'[s] = finish[s] /\ status'[s] = status[s]
        /\ error'[s] = error[s] /\ entered'[s] = entered[s] /\ cut'[s] = cut[s]
        /\ phase[s] \in {"startHooks", "inlineEnd"} => hook'[s] <= Observers
        /\ phase[s] = "finished" => hook'[s] = hook[s]
     \/ /\ phase[s] = "scheduled" /\ phase'[s] \in {"finished", "ending"} /\ finish'[s] = finish[s]
        /\ phase'[s] = "ending" => entered'[s]
     \/ /\ phase[s] = "inlineEnd" /\ phase'[s] = "ending" /\ hook'[s] = Observers + 1
        /\ finish'[s] = "none" /\ (error[s] # "success" => status'[s] = "FAILED")
        /\ entered'[s] = entered[s]
     \/ /\ phase[s] = "ending" /\ phase'[s] = "finished" /\ finish'[s] = finish[s]
        /\ hook'[s] = hook[s] /\ status'[s] = status[s] /\ entered'[s] = entered[s]
        /\ cut'[s] = "none" => cut[s] = "none" /\ ~(hook[s] <= Observers)

(* Where a step takes a session, and what it reports on the way.           *)
LEMMA SessionMoves ==
  ASSUME LifecycleIsSound, NEW s \in Sessions, Session(s)
  PROVE  Begins(s) \/ GoesOn(s) \/ \E o \in Outcomes : Ends(s, o)
<1> USE DEF Same
<1>1. TypeOK /\ SessionShape(s)
  BY DEF LifecycleIsSound
<1>2. ASSUME NEW p, NEW h, At(s, p, h) PROVE phase'[s] = p /\ hook'[s] = h
  BY <1>1, <1>2 DEF At, TypeOK
<1>3. /\ agent'[s] = agent[s] \/ FirstStep(s)
      /\ entered'[s] = entered[s] \/ FirstStep(s)
      /\ failures' = failures \/ EntryRaises(s)
  BY DEF Session, FirstStep, BecomesPrimary, StartReturns, EntryRaises, GreetingReturns, Hangup,
     ShutdownWakes, TeardownEnds, HookReturns, HookCancelsItself, EndTimesOut, SessionEndReturns,
     Cancel, CancelRaised, CancelAbsorbed, taskVars, callVars, sharedVars
<1>4. ASSUME NEW o \in Outcomes, LeaveEntry(s, o), phase[s] \in {"starting", "startHooks", "greeting"},
             failures' = (IF o = "failed" THEN failures + 1 ELSE failures),
             agent'[s] = agent[s], entered'[s] = entered[s], cut'[s] = cut[s]
      PROVE  GoesOn(s) \/ Ends(s, o)
  <2>1. status[s] = "RUNNING" /\ finish[s] = "none" /\ Live(s)
    BY <1>1, <1>4 DEF SessionShape, Engaged, EntryPhases, Live
  <2> QED BY <1>1, <1>4, <2>1, LeaveEntryAt DEF GoesOn, Ends
<1>5. ASSUME NEW o, LeaveInlineEnd(s, o), phase[s] = "inlineEnd", error[s] # "success" => o # "success",
             failures' = failures, agent'[s] = agent[s], entered'[s] = entered[s]
      PROVE  GoesOn(s)
  <2>1. status[s] = "RUNNING"
    BY <1>1, <1>5 DEF SessionShape, Engaged, EntryPhases
  <2> QED BY <1>1, <1>5, <2>1, LeaveInlineEndAt DEF GoesOn
<1>6. ASSUME NEW c \in Causes, Propagate(s, c), failures' = failures, agent'[s] = agent[s], entered'[s] = entered[s]
      PROVE  GoesOn(s) \/ \E o \in Outcomes : Ends(s, o)
  <2>1. CASE /\ phase[s] \in {"starting", "startHooks", "greeting"}
             /\ LeaveEntry(s, "cancelled") /\ UNCHANGED cut
    BY <1>4, <1>6, <2>1 DEF Outcomes
  <2>2. CASE phase[s] = "inlineEnd" /\ LeaveInlineEnd(s, "cancelled")
    BY <1>5, <1>6, <2>2
  <2>3. CASE /\ phase[s] = "ending" /\ At(s, "finished", hook[s])
             /\ cut' = [cut EXCEPT ![s] = IF hook[s] <= Observers THEN c ELSE @]
             /\ UNCHANGED <<status, error, finish, active, reports>>
    BY <1>1, <1>2, <1>6, <2>3 DEF GoesOn, TypeOK, Causes
  <2> QED BY <1>6, <2>1, <2>2, <2>3 DEF Propagate
<1>7. ASSUME phase[s] \in {"held", "teardown"}, LeaveTry(s, finish[s]), UNCHANGED <<failures, cut>>,
             agent'[s] = agent[s], entered'[s] = entered[s]
      PROVE  Ends(s, "success")
  <2>1. finish[s] = "success" /\ Live(s)
    BY <1>1, <1>7 DEF SessionShape, Live
  <2> QED BY <1>1, <1>7, <2>1, LeaveTryAt DEF Ends
<1>8. CASE FirstStep(s)
  BY <1>1, <1>2, <1>8, LeaveTryAt DEF FirstStep, TypeOK, Begins, GoesOn, SessionShape
<1>9. CASE BecomesPrimary(s) \/ Hangup(s)
  BY <1>1, <1>3, <1>9 DEF BecomesPrimary, Hangup, GoesOn, SessionShape, taskVars, callVars, sharedVars
<1>10. CASE StartReturns(s) \/ ShutdownWakes(s)
  BY <1>1, <1>2, <1>3, <1>10, LifecycleConstants
     DEF StartReturns, ShutdownWakes, GoesOn, SessionShape, Live, callVars, sharedVars
<1>11. CASE EntryRaises(s)
  BY <1>3, <1>4, <1>11 DEF EntryRaises, Outcomes
<1>12. CASE GreetingReturns(s)
  BY <1>3, <1>4, <1>12 DEF GreetingReturns, Outcomes
<1>13. CASE TeardownEnds(s)
  BY <1>3, <1>7, <1>13 DEF TeardownEnds, Outcomes
<1>14. CASE HookReturns(s)
  <2>1. CASE /\ hook[s] < Observers \/ phase[s] = "ending"
             /\ At(s, phase[s], hook[s] + 1)
             /\ UNCHANGED <<status, error, finish, active, reports>>
    <3>1. phase'[s] = phase[s] /\ hook'[s] = hook[s] + 1 /\ hook[s] \in Nat /\ Observers \in Nat
      BY <1>1, <1>2, <2>1, LifecycleConstants DEF TypeOK
    <3>2. phase[s] \in HookPhases /\ UNCHANGED <<agent, failures, entered, cut>>
      BY <1>14 DEF HookReturns
    <3> QED BY <2>1, <3>1, <3>2 DEF GoesOn, HookPhases
  <2>2. CASE /\ phase[s] = "startHooks" /\ At(s, "greeting", 1)
             /\ UNCHANGED <<status, error, finish, active, reports>>
    BY <1>1, <1>2, <1>3, <1>14, <2>2 DEF HookReturns, GoesOn, Live, SessionShape
  <2>3. CASE phase[s] = "startHooks" /\ LeaveEntry(s, "success")
    BY <1>3, <1>4, <1>14, <2>3 DEF HookReturns, Outcomes
  <2>4. CASE phase[s] = "inlineEnd" /\ LeaveInlineEnd(s, error[s])
    BY <1>3, <1>5, <1>14, <2>4 DEF HookReturns
  <2> QED BY <1>14, <2>1, <2>2, <2>3, <2>4 DEF HookReturns
<1>15. CASE HookCancelsItself(s)
  BY <1>3, <1>6, <1>15 DEF HookCancelsItself, Causes
<1>16. CASE EndTimesOut(s)
  <2>1. CASE Propagate(s, "timeout")
    BY <1>3, <1>6, <1>16, <2>1 DEF EndTimesOut, Causes
  <2>2. CASE UNCHANGED <<phase, hook, cut, status, error, finish, active, reports>>
    BY <1>3, <1>16, <2>2 DEF EndTimesOut, GoesOn
  <2> QED BY <1>16, <2>1, <2>2 DEF EndTimesOut
<1>17. CASE SessionEndReturns(s)
  <2>1. ~(hook[s] <= Observers)
    BY <1>1, <1>17, LifecycleConstants DEF SessionEndReturns, TypeOK
  <2> QED BY <1>1, <1>2, <1>3, <1>17, <2>1 DEF SessionEndReturns, GoesOn, callVars, sharedVars
<1>18. CASE Cancel(s) \/ CancelAbsorbed(s)
  BY <1>1, <1>3, <1>18 DEF Cancel, CancelAbsorbed, GoesOn, SessionShape, Engaged, EntryPhases, callVars, sharedVars
<1>19. CASE CancelRaised(s)
  <2>1. CASE /\ phase[s] = "scheduled" /\ At(s, "finished", 1)
             /\ UNCHANGED <<status, error, finish, active, reports, cut>>
    BY <1>2, <1>3, <1>19, <2>1 DEF CancelRaised, GoesOn
  <2>2. CASE Propagate(s, "cancellation")
    BY <1>3, <1>6, <1>19, <2>2 DEF CancelRaised, Causes
  <2>3. CASE phase[s] \in {"held", "teardown"} /\ LeaveTry(s, finish[s]) /\ UNCHANGED cut
    BY <1>3, <1>7, <1>19, <2>3 DEF CancelRaised, Outcomes
  <2> QED BY <1>19, <2>1, <2>2, <2>3 DEF CancelRaised
<1> QED BY <1>8, <1>9, <1>10, <1>11, <1>12, <1>13, <1>14, <1>15, <1>16, <1>17, <1>18, <1>19 DEF Session

(* A cancellation is swallowed only after it was requested.                *)
LEMMA AbsorbedStep ==
  ASSUME LifecycleIsSound, NEW s \in Sessions, Session(s)
  PROVE  /\ absorbed'[s] + (IF cancel'[s] THEN 1 ELSE 0) <= cancels'[s]
         /\ absorbed'[s] + (IF cancel'[s] THEN 1 ELSE 0) <= MaxCancels
<1>1. /\ TypeOK /\ SessionShape(s) /\ MaxCancels \in Nat
      /\ absorbed[s] \in Nat /\ cancels[s] \in Nat
  BY LifecycleConstants DEF LifecycleIsSound, TypeOK
<1>2. CASE UNCHANGED <<absorbed, cancel, cancels>>
  BY <1>1, <1>2 DEF SessionShape
<1>3. CASE EndTimesOut(s)
  BY <1>1, <1>3 DEF EndTimesOut, SessionShape, TypeOK
<1>4. CASE Cancel(s)
  BY <1>1, <1>4 DEF Cancel, SessionShape, TypeOK
<1>5. CASE CancelRaised(s)
  <2>1. /\ cancel[s] /\ ~cancel'[s] /\ cancels' = cancels
        /\ absorbed'[s] = absorbed[s] \/ absorbed'[s] = absorbed[s] + 1
    BY <1>1, <1>5 DEF CancelRaised, TypeOK
  <2> QED BY <1>1, <2>1 DEF SessionShape
<1>6. CASE CancelAbsorbed(s)
  BY <1>1, <1>6 DEF CancelAbsorbed, SessionShape, TypeOK
<1>7. <1>2!1 \/ <1>3!1 \/ <1>4!1 \/ <1>5!1 \/ <1>6!1
  BY DEF Session, FirstStep, BecomesPrimary, StartReturns, EntryRaises, GreetingReturns, Hangup,
     ShutdownWakes, TeardownEnds, HookReturns, HookCancelsItself, SessionEndReturns, taskVars
<1> QED BY <1>2, <1>3, <1>4, <1>5, <1>6, <1>7

(* A CancelledError leaves an end hook only after a cancellation.          *)
LEMMA CutStep ==
  ASSUME LifecycleIsSound, NEW s \in Sessions, Session(s)
  PROVE  cut'[s] # "none" => cancels'[s] > 0
<1>1. /\ TypeOK /\ SessionShape(s) /\ MaxCancels \in Nat
      /\ absorbed[s] \in Nat /\ cancels[s] \in Nat
  BY LifecycleConstants DEF LifecycleIsSound, TypeOK
<1>2. CASE UNCHANGED <<cut, cancels>>
  BY <1>1, <1>2 DEF SessionShape
<1>3. CASE EndTimesOut(s) \/ Cancel(s)
  BY <1>1, <1>3 DEF EndTimesOut, Cancel, TypeOK
<1>4. CASE cancels' = cancels /\ (cancel[s] \/ cancels[s] > 0)
  BY <1>1, <1>4 DEF SessionShape
<1>5. <1>2!1 \/ <1>3!1 \/ <1>4!1
  BY DEF Session, FirstStep, BecomesPrimary, StartReturns, EntryRaises, GreetingReturns, Hangup,
     ShutdownWakes, TeardownEnds, HookReturns, HookCancelsItself, SessionEndReturns, CancelRaised,
     CancelAbsorbed, taskVars, callVars
<1> QED BY <1>2, <1>3, <1>4, <1>5

(* Every step keeps every session in shape.                                *)
LEMMA LifecycleStep ==
  ASSUME LifecycleIsSound, [Next]_vars
  PROVE  LifecycleIsSound'
<1>1. TypeOK'
  BY TypeStep
<1>2. CASE UNCHANGED vars
  BY <1>1, <1>2 DEF LifecycleIsSound, SessionShape, vars, taskVars, callVars
<1>3. SUFFICES ASSUME NEW s \in Sessions, Session(s), NEW t \in Sessions PROVE SessionShape(t)'
  BY <1>1, <1>2 DEF LifecycleIsSound, Next, Over
<1>4. TypeOK /\ SessionShape(s) /\ SessionShape(t) /\ Observers \in Nat \ {0}
  BY LifecycleConstants DEF LifecycleIsSound
<1>5. CASE t # s
  BY <1>3, <1>4, <1>5, OthersStay DEF Untouched, SessionShape
<1>6. CASE t = s
  <2> USE DEF SessionShape, Engaged, EntryPhases
  <2>1. CASE Begins(s)
    BY <1>3, <1>4, <1>6, <2>1, AbsorbedStep, CutStep DEF Begins
  <2>2. CASE GoesOn(s)
    BY <1>3, <1>4, <1>6, <2>2, AbsorbedStep, CutStep DEF GoesOn, Live
  <2>3. ASSUME NEW o \in Outcomes, Ends(s, o) PROVE SessionShape(s)'
    BY <1>3, <1>4, <2>3, AbsorbedStep, CutStep DEF Ends, Live
  <2> QED BY <1>3, <1>6, <2>1, <2>2, <2>3, SessionMoves
<1> QED BY <1>5, <1>6

(* Every variable keeps its type, the gauges included, which never leave   *)
(* the naturals, and a session's variables fit the place it is at.         *)
THEOREM LifecycleStaysSound == Spec => []LifecycleIsSound
<1>1. Init => LifecycleIsSound
  BY TypeInit
<1>2. LifecycleIsSound /\ [Next]_vars => LifecycleIsSound'
  BY LifecycleStep
<1> QED BY <1>1, <1>2, PTL DEF Spec

----------------------------------------------------------------------------
(* The gauge.                                                              *)

LiveOn(a) == {s \in Sessions : agent[s] = a /\ Live(s)}

GaugeInv == \A a \in Agents : IsFiniteSet(LiveOn(a)) /\ active[a] = Cardinality(LiveOn(a))

(* The gauge of an agent moves with its live calls.                        *)
LEMMA GaugeStep ==
  ASSUME LifecycleIsSound, GaugeInv, [Next]_vars
  PROVE  GaugeInv'
<1>1. CASE UNCHANGED vars
  BY <1>1 DEF GaugeInv, LiveOn, Live, vars, taskVars, callVars, sharedVars
<1>2. SUFFICES ASSUME NEW s \in Sessions, Session(s), NEW a \in Agents
               PROVE  IsFiniteSet(LiveOn(a)') /\ active'[a] = Cardinality(LiveOn(a)')
  BY <1>1 DEF GaugeInv, Next, Over
<1>3. /\ active \in [Agents -> Nat] /\ TypeOK /\ SessionShape(s)
      /\ IsFiniteSet(LiveOn(a)) /\ active[a] = Cardinality(LiveOn(a)) /\ "none" \notin Agents
  BY LifecycleConstants DEF LifecycleIsSound, TypeOK, GaugeInv
<1>4. \A t \in Sessions \ {s} : agent'[t] = agent[t] /\ (Live(t)' <=> Live(t))
  BY <1>2, <1>3, OthersStay DEF Untouched, Live
<1>5. CASE LiveOn(a)' = LiveOn(a) /\ active'[a] = active[a]
  BY <1>3, <1>5
<1>6. CASE GoesOn(s)
  <2>1. agent'[s] = agent[s] /\ (Live(s)' <=> Live(s)) /\ active' = active
    BY <1>6 DEF GoesOn, Same, Live
  <2>2. LiveOn(a)' = LiveOn(a)
    BY <1>4, <2>1 DEF LiveOn
  <2> QED BY <1>5, <2>1, <2>2
<1>7. ASSUME Begins(s) PROVE IsFiniteSet(LiveOn(a)') /\ active'[a] = Cardinality(LiveOn(a)')
  <2>1. PICK b \in Agents : agent'[s] = b /\ active' = [active EXCEPT ![b] = @ + 1]
    BY <1>7 DEF Begins
  <2>2. Live(s)' /\ ~Live(s)
    BY <1>7 DEF Begins, Live
  <2>3. CASE a = b
    <3>1. LiveOn(a)' = LiveOn(a) \cup {s} /\ s \notin LiveOn(a)
      BY <1>4, <2>1, <2>2, <2>3 DEF LiveOn
    <3>2. IsFiniteSet(LiveOn(a)') /\ Cardinality(LiveOn(a)') = Cardinality(LiveOn(a)) + 1
      BY <1>3, <3>1, FS_AddElement
    <3> QED BY <1>3, <2>1, <2>3, <3>2
  <2>4. CASE a # b
    <3>1. LiveOn(a)' = LiveOn(a)
      BY <1>4, <2>1, <2>2, <2>4 DEF LiveOn
    <3> QED BY <1>3, <1>5, <2>1, <2>4, <3>1
  <2> QED BY <2>3, <2>4
<1>8. ASSUME NEW o \in Outcomes, Ends(s, o) PROVE IsFiniteSet(LiveOn(a)') /\ active'[a] = Cardinality(LiveOn(a)')
  <2>1. /\ Live(s) /\ ~Live(s)' /\ agent'[s] = agent[s] /\ active' = Decrement(agent[s])
    BY <1>8 DEF Ends, Live, RecordFinish
  <2>2. CASE a = agent[s]
    <3>1. LiveOn(a)' = LiveOn(a) \ {s} /\ s \in LiveOn(a)
      BY <1>4, <2>1, <2>2 DEF LiveOn
    <3>2. /\ IsFiniteSet(LiveOn(a)') /\ Cardinality(LiveOn(a)') = Cardinality(LiveOn(a)) - 1
          /\ Cardinality(LiveOn(a)') \in Nat
      BY <1>3, <3>1, FS_RemoveElement, FS_CardinalityType
    <3>3. active[a] > 0
      BY <1>3, <3>2
    <3> QED BY <1>3, <2>1, <2>2, <3>2, <3>3 DEF Decrement
  <2>3. CASE a # agent[s]
    <3>1. LiveOn(a)' = LiveOn(a)
      BY <1>4, <2>1, <2>3 DEF LiveOn
    <3> QED BY <1>3, <1>5, <2>1, <2>3, <3>1 DEF Decrement
  <2> QED BY <2>2, <2>3
<1> QED BY <1>2, <1>6, <1>7, <1>8, SessionMoves

(* The gauge counts exactly the calls that are up, whatever fails, is      *)
(* cancelled or is held, so its clamp at zero never hides a surplus.       *)
THEOREM GaugeIsExact == Spec => []GaugeCountsLiveCalls
<1>1. Init => GaugeInv
  <2> SUFFICES ASSUME Init PROVE GaugeInv
    OBVIOUS
  <2>1. \A a \in Agents : LiveOn(a) = {}
    BY DEF Init, LiveOn, Live
  <2> QED BY <2>1, FS_EmptySet DEF Init, GaugeInv
<1>2. LifecycleIsSound /\ GaugeInv /\ [Next]_vars => GaugeInv'
  BY GaugeStep
<1>3. GaugeInv => GaugeCountsLiveCalls
  BY DEF GaugeInv, GaugeCountsLiveCalls, LiveOn
<1> QED BY <1>1, <1>2, <1>3, LifecycleStaysSound, PTL DEF Spec

----------------------------------------------------------------------------
(* The reports.                                                            *)

(* A round of end hooks that no CancelledError left is whole.              *)
RoundsAreWhole ==
  \A s \in Sessions : phase[s] = "finished" /\ Reported(s) /\ cut[s] = "none" => hook[s] = Observers + 1

FailedOnes == {s \in Sessions : ReportOf(s, "failed")}

(* A report is the session's only one and is made where it stops being     *)
(* live; a failure stays visible in `error` until the status tells of it.  *)
ReportsInv ==
  /\ \A i, k \in DOMAIN reports : reports[i].session = reports[k].session => i = k
  /\ \A s \in Sessions : Reported(s) <=> agent[s] # "none" /\ ~Live(s)
  /\ \A s \in Sessions : \A o \in {"failed", "cancelled"} : ReportOf(s, o) =>
       /\ phase[s] \in {"ending", "finished"} => status[s] = "FAILED"
       /\ phase[s] = "inlineEnd" => error[s] # "success"
  /\ IsFiniteSet(FailedOnes) /\ failures = Cardinality(FailedOnes)
  /\ RoundsAreWhole

(* A report is added for its session, which had none, and for no other.    *)
LEMMA OneMoreReport ==
  ASSUME TypeOK, NEW s \in Sessions, NEW o \in Outcomes, RecordFinish(s, o)
  PROVE  /\ \A t \in Sessions, p \in Outcomes :
              ReportOf(t, p)' <=> ReportOf(t, p) \/ (t = s /\ p = o)
         /\ \A t \in Sessions : Reported(t)' <=> Reported(t) \/ t = s
         /\ ~Reported(s) /\ (\A i, k \in DOMAIN reports :
                               reports[i].session = reports[k].session => i = k)
              => \A i, k \in DOMAIN reports' :
                   reports'[i].session = reports'[k].session => i = k
<1> DEFINE r == [session |-> s, outcome |-> o]  n == Len(reports)
<1>1. /\ reports \in Seq(Report) /\ r \in Report /\ reports' = Append(reports, r)
  BY DEF TypeOK, Report, RecordFinish
<1>2. /\ n \in Nat /\ DOMAIN reports = 1 .. n /\ DOMAIN reports' = 1 .. n + 1
      /\ \A i \in 1 .. n : reports'[i] = reports[i]
      /\ reports'[n + 1] = r
  BY <1>1, AppendProperties
<1>3. r.session = s /\ r.outcome = o
  OBVIOUS
<1> HIDE DEF n
<1>4. ASSUME NEW t \in Sessions, NEW p \in Outcomes
      PROVE  ReportOf(t, p)' <=> ReportOf(t, p) \/ (t = s /\ p = o)
  <2> DEFINE q == [session |-> t, outcome |-> p]
  <2>1. q = r <=> t = s /\ p = o
    OBVIOUS
  <2>2. (\E i \in 1 .. n + 1 : reports'[i] = q) <=> (\E i \in 1 .. n : reports[i] = q) \/ q = r
    <3> HIDE DEF q, r
    <3>1. \A i \in 1 .. n + 1 : i \in 1 .. n \/ i = n + 1
      BY <1>2
    <3>2. n + 1 \in 1 .. n + 1 /\ \A i \in 1 .. n : i \in 1 .. n + 1
      BY <1>2
    <3> QED BY <1>2, <3>1, <3>2
  <2> QED BY <1>2, <2>1, <2>2 DEF ReportOf
<1>5. ASSUME NEW t \in Sessions PROVE Reported(t)' <=> Reported(t) \/ t = s
  <2>1. (\E i \in 1 .. n + 1 : reports'[i].session = t) <=> (\E i \in 1 .. n : reports[i].session = t) \/ t = s
    <3> HIDE DEF r
    <3>1. \A i \in 1 .. n + 1 : i \in 1 .. n \/ i = n + 1
      BY <1>2
    <3>2. n + 1 \in 1 .. n + 1 /\ \A i \in 1 .. n : i \in 1 .. n + 1
      BY <1>2
    <3> QED BY <1>2, <1>3, <3>1, <3>2
  <2> QED BY <1>2, <2>1 DEF Reported
<1>6. ASSUME ~Reported(s),
             \A i, k \in 1 .. n : reports[i].session = reports[k].session => i = k,
             NEW i \in 1 .. n + 1, NEW k \in 1 .. n + 1, reports'[i].session = reports'[k].session
      PROVE  i = k
  <2>1. \A l \in 1 .. n : reports'[l].session # s
    BY <1>2, <1>6 DEF Reported
  <2>2. \A l \in 1 .. n + 1 : l \in 1 .. n \/ l = n + 1
    BY <1>2
  <2> QED BY <1>2, <1>3, <1>6, <2>1, <2>2
<1> QED BY <1>2, <1>4, <1>5, <1>6

(* Every step keeps the reports right.                                     *)
LEMMA ReportsStep ==
  ASSUME LifecycleIsSound, LifecycleIsSound', ReportsInv, [Next]_vars
  PROVE  ReportsInv'
<1>1. CASE UNCHANGED vars
  BY <1>1 DEF ReportsInv, FailedOnes, Reported, ReportOf, Live, RoundsAreWhole,
     vars, taskVars, callVars, sharedVars
<1>2. SUFFICES ASSUME NEW s \in Sessions, Session(s) PROVE ReportsInv'
  BY <1>1 DEF Next, Over
<1>3. /\ TypeOK /\ SessionShape(s) /\ SessionShape(s)' /\ "none" \notin Agents
      /\ {"failed", "cancelled"} \subseteq Outcomes
      /\ Observers \in Nat /\ hook[s] \in 1 .. Observers + 1
  BY LifecycleConstants DEF LifecycleIsSound, Outcomes, TypeOK
<1>4. \A t \in Sessions \ {s} : Untouched(t) /\ (Live(t)' <=> Live(t))
  BY <1>2, <1>3, OthersStay DEF Untouched, Live
<1>5. CASE Begins(s) \/ GoesOn(s)
  <2>1. UNCHANGED <<reports, failures>>
    BY <1>5 DEF Begins, GoesOn, Same
  <2>2. \A t \in Sessions : (Reported(t)' <=> Reported(t)) /\ \A o : ReportOf(t, o)' <=> ReportOf(t, o)
    BY <2>1 DEF Reported, ReportOf
  <2>3. FailedOnes' = FailedOnes
    BY <2>2 DEF FailedOnes
  <2>4. Reported(s) <=> agent'[s] # "none" /\ ~Live(s)'
    <3>1. CASE Begins(s)
      BY <1>3, <3>1 DEF Begins, SessionShape, ReportsInv, Live
    <3>2. CASE GoesOn(s)
      BY <1>3, <3>2 DEF GoesOn, ReportsInv, Live
    <3> QED BY <1>5, <3>1, <3>2
  <2>5. ASSUME NEW o \in {"failed", "cancelled"}, ReportOf(s, o)
        PROVE  /\ phase'[s] \in {"ending", "finished"} => status'[s] = "FAILED"
               /\ phase'[s] = "inlineEnd" => error'[s] # "success"
    <3>1. Reported(s) /\ ~Live(s) /\ phase[s] # "scheduled"
      <4>1. Reported(s)
        BY <2>5 DEF ReportOf, Reported
      <4> QED BY <1>3, <4>1 DEF ReportsInv, SessionShape
    <3>2. /\ phase[s] \in {"ending", "finished"} => status[s] = "FAILED"
          /\ phase[s] = "inlineEnd" => error[s] # "success"
      BY <2>5 DEF ReportsInv
    <3> QED BY <1>5, <3>1, <3>2 DEF Begins, GoesOn
  <2>6. phase'[s] = "finished" /\ Reported(s) /\ cut'[s] = "none" => hook'[s] = Observers + 1
    <3> SUFFICES ASSUME phase'[s] = "finished", Reported(s), cut'[s] = "none" PROVE hook'[s] = Observers + 1
      OBVIOUS
    <3>1. ~Live(s) /\ phase[s] # "scheduled"
      BY <1>3 DEF ReportsInv, SessionShape
    <3>2. CASE phase[s] = "finished"
      BY <1>5, <3>1, <3>2 DEF Begins, GoesOn, ReportsInv, RoundsAreWhole
    <3>3. CASE phase[s] = "ending"
      BY <1>3, <1>5, <3>1, <3>3 DEF Begins, GoesOn
    <3> QED BY <1>5, <3>1, <3>2, <3>3 DEF Begins, GoesOn
  <2> QED BY <1>4, <2>1, <2>2, <2>3, <2>4, <2>5, <2>6 DEF ReportsInv, Untouched, RoundsAreWhole
<1>6. ASSUME NEW o \in Outcomes, Ends(s, o) PROVE ReportsInv'
  <2>1. /\ Live(s) /\ ~Live(s)' /\ agent'[s] = agent[s] /\ agent[s] # "none"
    BY <1>3, <1>6 DEF Ends, Live, SessionShape, Engaged, EntryPhases
  <2>2. ~Reported(s)
    BY <2>1 DEF ReportsInv
  <2>3. /\ \A t \in Sessions, p \in Outcomes : ReportOf(t, p)' <=> ReportOf(t, p) \/ (t = s /\ p = o)
        /\ \A t \in Sessions : Reported(t)' <=> Reported(t) \/ t = s
        /\ \A i, k \in DOMAIN reports' : reports'[i].session = reports'[k].session => i = k
    BY <1>3, <1>6, <2>2, OneMoreReport DEF Ends, ReportsInv
  <2>4. \A t \in Sessions : Reported(t)' <=> agent'[t] # "none" /\ ~Live(t)'
    BY <1>4, <2>1, <2>3 DEF ReportsInv, Untouched
  <2>5. \A p : ~ReportOf(s, p)
    BY <2>2 DEF Reported, ReportOf
  <2>6. ASSUME NEW t \in Sessions, NEW p \in {"failed", "cancelled"}, ReportOf(t, p)'
        PROVE  /\ phase'[t] \in {"ending", "finished"} => status'[t] = "FAILED"
               /\ phase'[t] = "inlineEnd" => error'[t] # "success"
    <3>1. CASE t = s
      BY <1>3, <1>6, <2>3, <2>5, <2>6, <3>1 DEF Ends
    <3>2. CASE t # s
      BY <1>3, <1>4, <2>3, <2>6, <3>2 DEF ReportsInv, Untouched
    <3> QED BY <3>1, <3>2
  <2>7. IsFiniteSet(FailedOnes') /\ failures' = Cardinality(FailedOnes')
    <3>1. FailedOnes' = IF o = "failed" THEN FailedOnes \cup {s} ELSE FailedOnes
      BY <1>3, <2>3, <2>5 DEF FailedOnes
    <3>2. s \notin FailedOnes
      BY <2>5 DEF FailedOnes
    <3> QED BY <1>6, <3>1, <3>2, FS_AddElement DEF Ends, ReportsInv
  <2>8. RoundsAreWhole'
    <3>1. phase'[s] # "finished"
      BY <1>6 DEF Ends
    <3> QED BY <1>4, <2>3, <3>1 DEF ReportsInv, Untouched, RoundsAreWhole
  <2> QED BY <2>3, <2>4, <2>6, <2>7, <2>8 DEF ReportsInv
<1> QED BY <1>2, <1>5, <1>6, SessionMoves

(* Initially there are none.                                               *)
LEMMA ReportsInit == Init => ReportsInv
<1> SUFFICES ASSUME Init PROVE ReportsInv
  OBVIOUS
<1>1. DOMAIN reports = {}
  BY DEF Init
<1>2. FailedOnes = {} /\ \A s \in Sessions : ~Reported(s) /\ \A o : ~ReportOf(s, o)
  BY <1>1 DEF FailedOnes, Reported, ReportOf
<1> QED BY <1>1, <1>2, FS_EmptySet DEF Init, ReportsInv, RoundsAreWhole

(* The reports are right in every state.                                   *)
LEMMA ReportsAreRight == Spec => []ReportsInv
<1>1. LifecycleIsSound /\ LifecycleIsSound' /\ ReportsInv /\ [Next]_vars => ReportsInv'
  BY ReportsStep
<1> QED BY <1>1, ReportsInit, LifecycleStaysSound, PTL DEF Spec

(* A counted session is reported exactly once, where it stops being live,  *)
(* and a failure is counted, reported and told to LiveKit together.        *)
THEOREM FinishedOnce == Spec => []FinishedExactlyOnce
<1>1. ReportsInv => FinishedExactlyOnce
  BY DEF ReportsInv, FinishedExactlyOnce, FailureIsReportedAsSuch, FailedOnes
<1> QED BY <1>1, ReportsAreRight, PTL

(* However many observers there are, a hook that raises, hangs, or cancels *)
(* itself in a session nobody has cancelled, costs no other the end.       *)
THEOREM EndReachesAll == Spec => []EndReachesEveryObserver
<1>1. ReportsInv /\ LifecycleIsSound => EndReachesEveryObserver
  BY DEF ReportsInv, RoundsAreWhole, LifecycleIsSound, SessionShape, EndReachesEveryObserver
<1> QED BY <1>1, ReportsAreRight, LifecycleStaysSound, PTL

----------------------------------------------------------------------------
(* run_session as the pool's opaque entrypoint.                            *)

EndsOf(s) == IF entered[s] /\ phase[s] \in {"ending", "finished"} THEN 1 ELSE 0
taskPcs   == [s \in Sessions |-> TaskPc(s)]
taskEnds  == [s \in Sessions |-> EndsOf(s)]

TaskStep ==
  \E s \in Sessions :
    \/ Task!FirstStep(s) \/ FirstStepRaises(s) \/ Task!Hangup(s)
    \/ Task!EntryReturns(s) \/ Task!EntryRaises(s) \/ Task!ShutdownWakes(s)
    \/ Task!TeardownReturns(s) \/ Task!TeardownRaises(s) \/ Task!SessionEndReturns(s)
    \/ Task!CancelRaised(s) \/ Task!CancelAbsorbed(s) \/ Cancelled(s)

(* What a step of a session does to the variables of its task.             *)
LEMMA TaskUpdate ==
  ASSUME TypeOK, NEW s \in Sessions, Session(s)
  PROVE  /\ taskPcs' = [taskPcs EXCEPT ![s] = TaskPc(s)']
         /\ taskEnds' = [taskEnds EXCEPT ![s] = EndsOf(s)']
         /\ TaskPc(s)' = TaskPc(s) => taskPcs' = taskPcs
         /\ EndsOf(s)' = EndsOf(s) => taskEnds' = taskEnds
<1>1. \A t \in Sessions : t # s => TaskPc(t)' = TaskPc(t) /\ EndsOf(t)' = EndsOf(t)
  BY OthersStay DEF Untouched, TaskPc, EndsOf
<1> QED BY <1>1 DEF taskPcs, taskEnds

(* A step of a session the pool does not see.                              *)
LEMMA HiddenStep ==
  ASSUME TypeOK, NEW s \in Sessions, Session(s),
         UNCHANGED <<status, cancel, shutdown, absorbed, entered>>,
         \/ phase'[s] = phase[s]
         \/ phase[s] \in EntryPhases /\ phase'[s] \in EntryPhases
  PROVE  UNCHANGED Task!taskVars
<1>1. TaskPc(s)' = TaskPc(s) /\ EndsOf(s)' = EndsOf(s)
  BY DEF TaskPc, EndsOf, EntryPhases
<1>2. UNCHANGED <<taskPcs, taskEnds>>
  BY <1>1, TaskUpdate
<1> QED BY <1>2 DEF Task!taskVars, taskPcs, taskEnds, EndsOf

(* An engaged session leaves the executor's try block.                     *)
LEMMA TryBlockEnds ==
  ASSUME LifecycleIsSound, NEW s \in Sessions, Session(s), phase[s] \in Engaged,
         phase'[s] = "ending", entered' = entered
  PROVE  Task!EnterSessionEnd(s)
<1>1. entered[s] /\ EndsOf(s) = 0 /\ EndsOf(s)' = 1
  BY DEF EndsOf, LifecycleIsSound, SessionShape, Engaged, EntryPhases
<1>2. TaskPc(s)' = "ending"
  BY DEF TaskPc, EntryPhases
<1>3. taskPcs' = [taskPcs EXCEPT ![s] = "ending"]
  BY <1>2, TaskUpdate DEF LifecycleIsSound
<1>4. taskEnds' = [taskEnds EXCEPT ![s] = @ + 1]
  BY <1>1, TaskUpdate DEF LifecycleIsSound, taskEnds
<1> QED BY <1>3, <1>4 DEF Task!EnterSessionEnd, taskPcs, taskEnds, EndsOf

(* run_session leaves the entrypoint for good, or reports its end first.   *)
LEMMA EntryLeaves ==
  ASSUME LifecycleIsSound, NEW s \in Sessions, Session(s), NEW o \in Outcomes,
         phase[s] \in {"starting", "startHooks", "greeting"}, ~cancel[s], LeaveEntry(s, o),
         UNCHANGED <<cancel, shutdown, absorbed, entered>>
  PROVE  Task!EntryReturns(s) \/ Task!EntryRaises(s) \/ UNCHANGED Task!taskVars
<1>1. TypeOK /\ phase[s] \in Engaged /\ phase[s] \in EntryPhases /\ taskPcs[s] = "entry"
  BY DEF LifecycleIsSound, Engaged, EntryPhases, taskPcs, TaskPc
<1>2. CASE HeldOpen(s) /\ o = "success"
  <2>1. phase'[s] = (IF shutdown[s] THEN "teardown" ELSE "held") /\ status' = status
    BY <1>1, <1>2 DEF LeaveEntry, At, TypeOK
  <2>2. TaskPc(s)' = (IF shutdown[s] THEN "teardown" ELSE "held") /\ EndsOf(s)' = EndsOf(s)
    BY <1>1, <2>1 DEF TaskPc, EndsOf, EntryPhases
  <2>3. /\ taskPcs' = [taskPcs EXCEPT ![s] = IF shutdown[s] THEN "teardown" ELSE "held"]
        /\ taskEnds' = taskEnds
    BY <1>1, <2>2, TaskUpdate
  <2> QED BY <1>1, <2>1, <2>3
      DEF Task!EntryReturns, Task!lifeVars, Task!drainVars, Task!countVars, taskPcs, taskEnds, EndsOf
<1>3. CASE HeldOpen(s) /\ o # "success"
  <2>1. phase'[s] = "ending" /\ Settle(s, "FAILED")
    BY <1>1, <1>3, LeaveTryAt DEF LeaveEntry
  <2>2. Task!EnterSessionEnd(s)
    BY <1>1, <2>1, TryBlockEnds
  <2> QED BY <1>1, <2>1, <2>2
      DEF Task!EntryRaises, Task!Settle, Settle, Task!lifeVars, Task!drainVars, Task!countVars, taskPcs
<1>4. CASE ~HeldOpen(s)
  <2>1. phase'[s] = "inlineEnd" /\ status' = status
    BY <1>1, <1>4 DEF LeaveEntry, At, TypeOK
  <2> QED BY <1>1, <2>1, HiddenStep DEF EntryPhases
<1> QED BY <1>2, <1>3, <1>4

(* The end of an inline report is the task's return or its error.          *)
LEMMA InlineEndLeaves ==
  ASSUME LifecycleIsSound, NEW s \in Sessions, Session(s), NEW o \in Outcomes,
         phase[s] = "inlineEnd", ~cancel[s], LeaveInlineEnd(s, o),
         UNCHANGED <<cancel, shutdown, absorbed, entered>>
  PROVE  Task!EntryReturns(s) \/ Task!EntryRaises(s)
<1>1. TypeOK /\ phase[s] \in Engaged /\ taskPcs[s] = "entry"
  BY DEF LifecycleIsSound, Engaged, EntryPhases, taskPcs, TaskPc
<1>2. phase'[s] = "ending"
  BY <1>1, LeaveTryAt DEF LeaveInlineEnd
<1>3. Task!EnterSessionEnd(s)
  BY <1>1, <1>2, TryBlockEnds
<1>4. Task!Settle(s, "SUCCESS") \/ Task!Settle(s, "FAILED")
  BY DEF LeaveInlineEnd, Settle, Task!Settle
<1> QED BY <1>1, <1>3, <1>4
    DEF Task!EntryReturns, Task!EntryRaises, Task!lifeVars, Task!drainVars, Task!countVars, taskPcs

(* The pool's task ends: nothing but the place changes.                    *)
LEMMA TaskFinishes ==
  ASSUME TypeOK, NEW s \in Sessions, Session(s), phase[s] = "ending", phase'[s] = "finished", ~cancel[s],
         UNCHANGED <<status, cancel, shutdown, absorbed, entered>>
  PROVE  Task!SessionEndReturns(s)
<1>1. TaskPc(s) = "ending" /\ TaskPc(s)' = "finished" /\ EndsOf(s)' = EndsOf(s)
  BY DEF TaskPc, EndsOf, EntryPhases
<1>2. taskPcs' = [taskPcs EXCEPT ![s] = "finished"] /\ taskEnds' = taskEnds /\ taskPcs[s] = "ending"
  BY <1>1, TaskUpdate DEF taskPcs
<1> QED BY <1>2 DEF Task!SessionEndReturns, Task!lifeVars, Task!drainVars, Task!countVars,
     taskPcs, taskEnds, EndsOf

(* A cancellation raised in an engaged session ends the try block, or, in  *)
(* an entrypoint that first reports its end, is swallowed for now.         *)
LEMMA CancelStep ==
  ASSUME LifecycleIsSound, NEW s \in Sessions, CancelRaised(s)
  PROVE  Task!CancelRaised(s) \/ Task!CancelAbsorbed(s)
<1> USE DEF Task!lifeVars, Task!drainVars, Task!countVars
<1>1. /\ TypeOK /\ SessionShape(s) /\ Session(s) /\ cancel[s] /\ cancel' = [cancel EXCEPT ![s] = FALSE]
      /\ UNCHANGED <<shutdown, entered>>
  BY DEF LifecycleIsSound, Session, CancelRaised
<1>2. taskPcs[s] = TaskPc(s)
  BY DEF taskPcs
<1>3. ASSUME phase[s] \in Engaged, phase'[s] = "ending",
             \/ phase[s] = "teardown" /\ status' = status
             \/ phase[s] # "teardown" /\ Settle(s, "FAILED")
      PROVE  Task!CancelRaised(s)
  <2>1. Task!EnterSessionEnd(s)
    BY <1>1, <1>3, TryBlockEnds
  <2>2. absorbed' = absorbed
    BY <1>3 DEF CancelRaised
  <2>3. TaskPc(s) \in {"entry", "held", "teardown"} /\ (TaskPc(s) = "teardown" <=> phase[s] = "teardown")
    BY <1>3 DEF TaskPc, EntryPhases, Engaged
  <2> QED BY <1>1, <1>2, <1>3, <2>1, <2>2, <2>3
      DEF Task!CancelRaised, Task!Settle, Settle, Task!Unfinished, taskPcs, taskEnds, EndsOf
<1>4. ASSUME phase[s] \in {"scheduled", "ending"}, phase'[s] = "finished", status' = status
      PROVE  Task!CancelRaised(s)
  <2>1. TaskPc(s) = phase[s] /\ TaskPc(s)' = "finished" /\ EndsOf(s)' = EndsOf(s)
    BY <1>1, <1>4 DEF TaskPc, EndsOf, EntryPhases, SessionShape
  <2>2. taskPcs' = [taskPcs EXCEPT ![s] = "finished"] /\ taskEnds' = taskEnds
    BY <1>1, <2>1, TaskUpdate
  <2>3. absorbed' = absorbed
    BY <1>4 DEF CancelRaised
  <2> QED BY <1>1, <1>2, <1>4, <2>1, <2>2, <2>3
      DEF Task!CancelRaised, Task!Unfinished, taskPcs, taskEnds, EndsOf
<1>5. ASSUME phase[s] \in EntryPhases, phase'[s] = "inlineEnd", status' = status
      PROVE  Task!CancelAbsorbed(s)
  <2>1. TaskPc(s) = "entry" /\ TaskPc(s)' = "entry" /\ EndsOf(s)' = EndsOf(s)
    BY <1>5 DEF TaskPc, EndsOf, EntryPhases
  <2>2. taskPcs' = taskPcs /\ taskEnds' = taskEnds
    BY <1>1, <2>1, TaskUpdate
  <2>3. absorbed' = [absorbed EXCEPT ![s] = @ + 1] /\ absorbed[s] < MaxCancels
    BY <1>1, <1>5, LifecycleConstants DEF CancelRaised, SessionShape, TypeOK
  <2> QED BY <1>1, <1>2, <1>5, <2>1, <2>2, <2>3
      DEF Task!CancelAbsorbed, Task!UserCode, taskPcs, taskEnds, EndsOf
<1>6. CASE phase[s] = "scheduled" /\ At(s, "finished", 1) /\ status' = status
  BY <1>1, <1>4, <1>6 DEF At, TypeOK
<1>7. CASE Propagate(s, "cancellation")
  <2>1. CASE phase[s] \in {"starting", "startHooks", "greeting"} /\ LeaveEntry(s, "cancelled")
    <3>1. phase[s] \in Engaged /\ phase[s] \in EntryPhases
      BY <2>1 DEF Engaged, EntryPhases
    <3>2. CASE HeldOpen(s)
      BY <1>1, <1>3, <2>1, <3>1, <3>2, LeaveTryAt DEF LeaveEntry
    <3>3. CASE ~HeldOpen(s)
      BY <1>1, <1>5, <2>1, <3>1, <3>3 DEF LeaveEntry, At, TypeOK
    <3> QED BY <3>2, <3>3
  <2>2. CASE phase[s] = "inlineEnd" /\ LeaveInlineEnd(s, "cancelled")
    BY <1>1, <1>3, <2>2, LeaveTryAt DEF LeaveInlineEnd, Engaged, EntryPhases
  <2>3. CASE phase[s] = "ending" /\ At(s, "finished", hook[s]) /\ status' = status
    BY <1>1, <1>4, <2>3 DEF At, TypeOK
  <2> QED BY <1>7, <2>1, <2>2, <2>3 DEF Propagate
<1>8. CASE phase[s] = "held" /\ Settle(s, "FAILED") /\ LeaveTry(s, finish[s])
  BY <1>1, <1>3, <1>8, LeaveTryAt DEF Engaged
<1>9. CASE phase[s] = "teardown" /\ LeaveTry(s, finish[s]) /\ status' = status
  BY <1>1, <1>3, <1>9, LeaveTryAt DEF Engaged
<1> QED BY <1>6, <1>7, <1>8, <1>9 DEF CancelRaised

(* Every step of a session is a step of its task.                          *)
LEMMA SessionSteps ==
  ASSUME LifecycleIsSound, NEW s \in Sessions, Session(s)
  PROVE  TaskStep \/ UNCHANGED Task!taskVars
<1> USE DEF TaskStep, Task!lifeVars, Task!drainVars, Task!countVars
<1>1. TypeOK /\ SessionShape(s) /\ taskPcs[s] = TaskPc(s)
  BY DEF LifecycleIsSound, taskPcs
<1>2. ASSUME NEW c \in Causes, Propagate(s, c), ~cancel[s], UNCHANGED <<cancel, shutdown, absorbed, entered>>
      PROVE  TaskStep \/ UNCHANGED Task!taskVars
  <2>1. CASE phase[s] \in {"starting", "startHooks", "greeting"} /\ LeaveEntry(s, "cancelled")
    BY <1>2, <2>1, EntryLeaves DEF Outcomes
  <2>2. CASE phase[s] = "inlineEnd" /\ LeaveInlineEnd(s, "cancelled")
    BY <1>2, <2>2, InlineEndLeaves DEF Outcomes
  <2>3. CASE phase[s] = "ending" /\ At(s, "finished", hook[s]) /\ status' = status
    BY <1>1, <1>2, <2>3, TaskFinishes DEF At, TypeOK
  <2> QED BY <1>2, <2>1, <2>2, <2>3 DEF Propagate
<1>3. CASE FirstStep(s)
  <2>1. TaskPc(s) = "scheduled" /\ EndsOf(s) = 0 /\ ~entered[s]
    BY <1>1, <1>3 DEF FirstStep, TaskPc, EndsOf, EntryPhases, SessionShape
  <2>2. CASE At(s, "finished", 1) /\ UNCHANGED <<entered, status>>
    <3>1. TaskPc(s)' = "finished" /\ EndsOf(s)' = EndsOf(s)
      BY <1>1, <2>1, <2>2 DEF TaskPc, EndsOf, At, TypeOK, EntryPhases
    <3>2. taskPcs' = [taskPcs EXCEPT ![s] = "finished"] /\ taskEnds' = taskEnds
      BY <1>1, <3>1, TaskUpdate
    <3>3. Task!FirstStep(s)
      BY <1>1, <1>3, <2>1, <2>2, <3>2 DEF FirstStep, Task!FirstStep, taskPcs, taskEnds, EndsOf
    <3> QED BY <3>3
  <2>3. CASE entered' = [entered EXCEPT ![s] = TRUE] /\ Settle(s, "FAILED") /\ LeaveTry(s, "none")
    <3>1. TaskPc(s)' = "ending" /\ EndsOf(s)' = 1
      BY <1>1, <2>3, LeaveTryAt DEF TaskPc, EndsOf, EntryPhases, TypeOK
    <3>2. taskPcs' = [taskPcs EXCEPT ![s] = "ending"]
      BY <1>1, <3>1, TaskUpdate
    <3>3. taskEnds' = [taskEnds EXCEPT ![s] = @ + 1]
      BY <1>1, <2>1, <3>1, TaskUpdate DEF taskEnds
    <3>4. FirstStepRaises(s)
      BY <1>3, <2>3, <3>2, <3>3
         DEF FirstStep, FirstStepRaises, Task!Settle, Settle, Task!EnterSessionEnd, taskPcs, taskEnds, EndsOf
    <3> QED BY <3>4
  <2>4. CASE entered' = [entered EXCEPT ![s] = TRUE] /\ At(s, "starting", 1) /\ status' = status
    <3>1. TaskPc(s)' = "entry" /\ EndsOf(s)' = EndsOf(s)
      BY <1>1, <2>1, <2>4 DEF TaskPc, EndsOf, At, TypeOK, EntryPhases
    <3>2. taskPcs' = [taskPcs EXCEPT ![s] = "entry"] /\ taskEnds' = taskEnds
      BY <1>1, <3>1, TaskUpdate
    <3>3. Task!FirstStep(s)
      BY <1>1, <1>3, <2>1, <2>4, <3>2 DEF FirstStep, Task!FirstStep, taskPcs, taskEnds, EndsOf
    <3> QED BY <3>3
  <2> QED BY <1>3, <2>2, <2>3, <2>4 DEF FirstStep
<1>4. CASE BecomesPrimary(s)
  BY <1>1, <1>4, HiddenStep DEF BecomesPrimary, taskVars
<1>5. CASE StartReturns(s)
  <2>1. phase[s] \in EntryPhases /\ phase'[s] \in EntryPhases
    BY <1>1, <1>5 DEF StartReturns, At, TypeOK, EntryPhases
  <2> QED BY <1>1, <1>5, <2>1, HiddenStep DEF StartReturns
<1>6. CASE EntryRaises(s)
  <2>1. CASE phase[s] \in {"starting", "greeting"}
    BY <1>6, <2>1, EntryLeaves DEF EntryRaises, Outcomes
  <2> QED BY <1>6, <2>1 DEF EntryRaises
<1>7. CASE GreetingReturns(s)
  BY <1>7, EntryLeaves DEF GreetingReturns, Outcomes
<1>8. CASE Hangup(s)
  <2>1. taskPcs' = taskPcs /\ taskEnds' = taskEnds
    BY <1>8 DEF Hangup, taskPcs, taskEnds, TaskPc, EndsOf
  <2>2. TaskPc(s) \in {"entry", "held"} /\ (TaskPc(s) = "held" <=> phase[s] = "held")
    BY <1>8 DEF Hangup, TaskPc, EntryPhases
  <2>3. Task!Hangup(s)
    BY <1>1, <1>8, <2>1, <2>2 DEF Hangup, Task!Hangup, taskPcs, taskEnds, EndsOf
  <2> QED BY <2>3
<1>9. CASE ShutdownWakes(s)
  <2>1. TaskPc(s) = "held" /\ TaskPc(s)' = "teardown" /\ EndsOf(s)' = EndsOf(s)
    BY <1>1, <1>9 DEF ShutdownWakes, At, TypeOK, TaskPc, EndsOf, EntryPhases
  <2>2. taskPcs' = [taskPcs EXCEPT ![s] = "teardown"] /\ taskEnds' = taskEnds
    BY <1>1, <2>1, TaskUpdate
  <2>3. Task!ShutdownWakes(s)
    BY <1>1, <1>9, <2>1, <2>2 DEF ShutdownWakes, Task!ShutdownWakes, taskPcs, taskEnds, EndsOf
  <2> QED BY <2>3
<1>10. CASE TeardownEnds(s)
  <2>1. TaskPc(s) = "teardown" /\ phase[s] \in Engaged /\ phase'[s] = "ending"
    BY <1>1, <1>10, LeaveTryAt DEF TeardownEnds, TaskPc, Engaged, EntryPhases
  <2>2. Task!EnterSessionEnd(s)
    BY <1>10, <2>1, TryBlockEnds DEF TeardownEnds
  <2>3. Task!TeardownReturns(s) \/ Task!TeardownRaises(s)
    BY <1>1, <1>10, <2>1, <2>2
       DEF TeardownEnds, Task!TeardownReturns, Task!TeardownRaises, Task!Settle, Settle, taskPcs
  <2> QED BY <2>3
<1>11. CASE HookReturns(s)
  <2>1. CASE At(s, phase[s], hook[s] + 1) /\ status' = status
    BY <1>1, <1>11, <2>1, HiddenStep DEF HookReturns, At, TypeOK
  <2>2. CASE phase[s] = "startHooks" /\ At(s, "greeting", 1) /\ status' = status
    <3>1. phase[s] \in EntryPhases /\ phase'[s] \in EntryPhases
      BY <1>1, <2>2 DEF At, TypeOK, EntryPhases
    <3> QED BY <1>1, <1>11, <2>2, <3>1, HiddenStep DEF HookReturns
  <2>3. CASE phase[s] = "startHooks" /\ LeaveEntry(s, "success")
    BY <1>11, <2>3, EntryLeaves DEF HookReturns, Outcomes
  <2>4. CASE phase[s] = "inlineEnd" /\ LeaveInlineEnd(s, error[s])
    <3>1. error[s] \in Outcomes
      BY <1>1 DEF TypeOK
    <3> QED BY <1>11, <2>4, <3>1, InlineEndLeaves DEF HookReturns
  <2> QED BY <1>11, <2>1, <2>2, <2>3, <2>4 DEF HookReturns
<1>12. CASE HookCancelsItself(s)
  BY <1>2, <1>12 DEF HookCancelsItself, Causes
<1>13. CASE EndTimesOut(s)
  <2>1. CASE Propagate(s, "timeout")
    <3>1. phase[s] = "ending" /\ UNCHANGED <<cancel, shutdown, absorbed, entered>> /\ ~cancel[s]
      BY <1>13 DEF EndTimesOut
    <3> QED BY <1>2, <2>1, <3>1 DEF Causes
  <2>2. CASE UNCHANGED <<phase, status>>
    BY <1>1, <1>13, <2>2, HiddenStep DEF EndTimesOut
  <2> QED BY <1>13, <2>1, <2>2 DEF EndTimesOut
<1>14. CASE SessionEndReturns(s)
  BY <1>1, <1>14, TaskFinishes DEF SessionEndReturns, At, TypeOK
<1>15. CASE Cancel(s)
  <2>1. \A t \in Sessions : TaskPc(t)' = TaskPc(t)
    BY <1>15 DEF Cancel, TaskPc
  <2>2. TaskPc(s) \in Task!Unfinished
    BY <1>15 DEF Cancel, TaskPc, Task!Unfinished, Unfinished, UserPhases, EntryPhases
  <2>3. Task!CancelTasks({s})
    BY <1>1, <1>15, <2>2 DEF Cancel, Task!CancelTasks, TypeOK
  <2>4. Cancelled(s)
    BY <1>15, <2>1, <2>3 DEF Cancel, Cancelled
  <2> QED BY <2>4
<1>16. CASE CancelRaised(s)
  BY <1>16, CancelStep
<1>17. CASE CancelAbsorbed(s)
  <2>1. taskPcs' = taskPcs /\ taskEnds' = taskEnds
    BY <1>17 DEF CancelAbsorbed, taskPcs, taskEnds, TaskPc, EndsOf
  <2>2. TaskPc(s) \in {"entry", "teardown", "ending"}
    BY <1>17 DEF CancelAbsorbed, TaskPc, UserPhases, EntryPhases
  <2>3. absorbed[s] < MaxCancels
    BY <1>1, <1>17, LifecycleConstants DEF CancelAbsorbed, SessionShape, TypeOK
  <2>4. Task!CancelAbsorbed(s)
    BY <1>1, <1>17, <2>1, <2>2, <2>3
       DEF CancelAbsorbed, Task!CancelAbsorbed, Task!UserCode, taskPcs, taskEnds, EndsOf
  <2> QED BY <2>4
<1> QED BY <1>3, <1>4, <1>5, <1>6, <1>7, <1>8, <1>9, <1>10, <1>11, <1>12, <1>13, <1>14, <1>15,
           <1>16, <1>17 DEF Session

(* Every step of run_session and of its end is one CoroutinePool allows an *)
(* entrypoint and a session_end_fnc, so what is proved of the pool's       *)
(* sessions is proved of these.                                            *)
THEOREM LifecycleIsATask == Spec => TaskSteps
<1>1. LifecycleIsSound /\ [Next]_vars => [TaskStep]_(Task!taskVars)
  <2> SUFFICES ASSUME LifecycleIsSound, [Next]_vars PROVE TaskStep \/ UNCHANGED Task!taskVars
    OBVIOUS
  <2>1. CASE UNCHANGED vars
    BY <2>1 DEF vars, taskVars, Task!taskVars, TaskPc
  <2> QED BY <2>1, SessionSteps DEF Next, Over
<1> QED BY <1>1, LifecycleStaysSound, PTL DEF Spec, TaskSteps, TaskStep
=============================================================================

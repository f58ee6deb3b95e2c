-------------------------- MODULE HotReload_proofs --------------------------
(***************************************************************************)
(* The file watcher and hot reload, for every set of files, agents and     *)
(* sessions, and any number of edits.                                      *)
(***************************************************************************)
EXTENDS HotReload, TLAPS

----------------------------------------------------------------------------
(* The watcher.                                                            *)

(* Nothing is buffered before the watcher runs or after stop() returned,   *)
(* and only a watcher that was started watches.                            *)
BufferInv ==
  /\ PendingHasFlush
  /\ watcher = "new" => pending = {} /\ loop = "none" /\ stopPc = "idle"
  /\ stopPc # "idle" => watcher = "stopped"
  /\ stopPc = "done" => pending = {}

(* Every step of the watcher keeps a debounce task for what is buffered.   *)
LEMMA BufferStep ==
  ASSUME BufferInv, [WatcherNext]_watcherVars
  PROVE  BufferInv'
<1> USE DEF BufferInv, PendingHasFlush
<1>1. CASE Start
  BY <1>1 DEF Start
<1>2. CASE RefreshPaths
  BY <1>2 DEF RefreshPaths
<1>3. CASE AwatchYields
  BY <1>3 DEF AwatchYields, HandleBatch
<1>4. CASE AwatchCrashes
  BY <1>4 DEF AwatchCrashes
<1>5. CASE Loop
  BY <1>5 DEF Loop, AwatchEnds, LoopAgain
<1>6. CASE Flush
  BY <1>6 DEF Flush, FlushWakes, HandlerEnds
<1>7. CASE Stop
  <2>1. CASE StopBegins
    <3>1. watcher' = "stopped"
      BY <2>1 DEF StopBegins
    <3>2. pending' = IF stopPc' = "done" THEN {} ELSE pending
      BY <2>1 DEF StopBegins
    <3>3. stopPc' = "done" => pending' = {}
      BY <3>2
    <3> QED BY <3>1, <3>3
  <2>2. CASE StopCancelsWatch
    BY <2>2 DEF StopCancelsWatch
  <2>3. CASE StopEnds
    BY <2>3 DEF StopEnds
  <2> QED BY <1>7, <2>1, <2>2, <2>3 DEF Stop
<1>8. CASE UNCHANGED watcherVars
  BY <1>8 DEF watcherVars
<1> QED BY <1>1, <1>2, <1>3, <1>4, <1>5, <1>6, <1>7, <1>8 DEF WatcherNext

(* So the buffer is served in every state.                                 *)
LEMMA BufferIsServed == WatcherSpec => []BufferInv
<1>1. WatcherInit => BufferInv
  BY DEF WatcherInit, BufferInv, PendingHasFlush
<1>2. BufferInv /\ [WatcherNext]_watcherVars => BufferInv'
  BY BufferStep
<1> QED BY <1>1, <1>2, PTL DEF WatcherSpec

(* While the watcher runs, what is buffered has a debounce task, however   *)
(* batches, flushes and slow handlers overlap.                             *)
THEOREM PendingIsFlushed == WatcherSpec => []PendingHasFlush
<1>1. BufferInv => PendingHasFlush
  BY DEF BufferInv
<1> QED BY <1>1, BufferIsServed, PTL

(* After stop() the debounce task that outlived it finds the buffer empty. *)
THEOREM StopIsQuiet == WatcherSpec => QuietAfterStop
<1>1. BufferInv /\ [WatcherNext]_watcherVars
        => [stopPc = "done" => ~(flush = "sleeping" /\ flush' = "handling")]_watcherVars
  BY DEF BufferInv, WatcherNext, Start, RefreshPaths, AwatchYields, HandleBatch, AwatchCrashes, Loop,
     AwatchEnds, LoopAgain, Flush, FlushWakes, HandlerEnds, Stop, StopBegins, StopCancelsWatch, StopEnds
<1> QED BY <1>1, BufferIsServed, PTL DEF WatcherSpec, QuietAfterStop

----------------------------------------------------------------------------
(* Hot reload.                                                             *)

FileType == [version : Nat, content : Contents \cup {"gone"}]

(* The types the arguments need; the bound on the versions is the model's. *)
ReloadTypes ==
  /\ file \in [Paths -> FileType]
  /\ loaded \in [Agents -> Nat] /\ current \in [Sessions -> Nat]
  /\ phase \in [Sessions -> {"connecting", "starting", "live", "over"}]
  /\ depth \in [Sessions -> Nat]

(* LaggardsAreExcused has to hold of the sessions that are still starting. *)
ExcusedInv ==
  \A s \in Sessions :
    phase[s] \in {"starting", "live"} /\ current[s] # loaded[AgentOf[s]]
      => s \in excused \cup cutOff

(* An agent that does not run what its file says will hear of the file, or *)
(* the last batch of the file called it deleted or did not come to it.     *)
Heralded(p) == \E kind \in Kinds : <<p, kind>> \in unseen \cup pending
HeraldInv ==
  /\ unseen \subseteq Changes /\ pending \subseteq Changes
  /\ \A a \in Agents :
       file[SourceOf[a]].content \in Loadable /\ ~RunsItsFile(a)
         => Heralded(SourceOf[a]) \/ SourceOf[a] \in buried \cup stranded

(* What one session, in none of these steps, and one edit leave alone.     *)
Undisturbed == UNCHANGED <<pending, file, unseen, loaded, historyVars>>

(* A session's step leaves the watcher and the files alone.                *)
LEMMA SessionLeaves ==
  ASSUME NEW s \in Sessions, Session(s)
  PROVE  Undisturbed
BY DEF Session, BuildAgent, Register, Unregister, HandOver, PinEnter, PinExit, Undisturbed,
       watcherVars, historyVars

(* An edit makes one file newer and leaves the classes alone.              *)
LEMMA EditorEdits ==
  ASSUME ReloadTypes, Editor
  PROVE  /\ UNCHANGED <<watcherVars, loaded, sessionVars, historyVars>>
         /\ \E p \in Paths, kind \in Kinds, f \in FileType :
              /\ file' = [file EXCEPT ![p] = f]
              /\ unseen' = unseen \cup {<<p, kind>>}
<1>1. PICK p \in Paths : Remove(p) \/ \E c \in Contents : Write(p, c) \/ Create(p, c)
  BY DEF Editor
<1>2. file[p] \in FileType /\ file[p].version \in Nat
  BY DEF ReloadTypes, FileType
<1>3. CASE Remove(p)
  <2> DEFINE f == [file[p] EXCEPT !.content = "gone"]
  <2>1. f \in FileType /\ f.content = "gone" /\ file' = [file EXCEPT ![p] = f]
    BY <1>2, <1>3 DEF Remove, FileType
  <2> HIDE DEF f
  <2> QED BY <1>3, <2>1 DEF Remove, Kinds, historyVars
<1>4. ASSUME NEW c \in Contents, NEW kind \in Kinds, Edit(p, kind, c)
      PROVE  /\ UNCHANGED <<watcherVars, loaded, sessionVars, historyVars>>
             /\ \E q \in Paths, k \in Kinds, f \in FileType :
                  /\ file' = [file EXCEPT ![q] = f]
                  /\ unseen' = unseen \cup {<<q, k>>}
  <2> DEFINE f == [version |-> file[p].version + 1, content |-> c]
  <2>1. f \in FileType /\ file' = [file EXCEPT ![p] = f]
    BY <1>2, <1>4 DEF Edit, FileType
  <2> HIDE DEF f
  <2> QED BY <1>4, <2>1 DEF Edit
<1> QED BY <1>1, <1>3, <1>4 DEF Write, Create, Kinds

(* A batch is collapsed to the files it has a change of.                   *)
LEMMA CollapsedDomain ==
  \A changes, p : p \in DOMAIN Collapsed(changes) <=> \E c \in changes : c[1] = p
BY DEF Collapsed

(* Every step keeps the types.                                             *)
LEMMA ReloadTypesStep ==
  ASSUME ReloadTypes, [ReloadNext]_vars
  PROVE  ReloadTypes'
<1> USE DEF ReloadTypes
<1>1. CASE Editor
  BY <1>1, EditorEdits DEF sessionVars, FileType
<1>2. CASE Yields
  BY <1>2 DEF Yields, sessionVars, historyVars
<1>3. CASE FlushReloads
  <2>1. UNCHANGED <<file, phase, depth>>
    BY <1>3 DEF FlushReloads
  <2>2. \A p \in Paths : ClassOf(file[p]) \in Nat
    BY ReloadConstants DEF FileType, ClassOf, Elsewhere
  <2>3. loaded' \in [Agents -> Nat]
    BY <1>3, <2>2, ReloadConstants DEF FlushReloads, OnChange
  <2>4. current' \in [Sessions -> Nat]
    BY <1>3, <2>3, ReloadConstants DEF FlushReloads, OnChange
  <2> QED BY <2>1, <2>3, <2>4
<1>4. ASSUME NEW s \in Sessions, Session(s) PROVE ReloadTypes'
  BY <1>4, SessionLeaves, ReloadConstants
     DEF Undisturbed, Session, BuildAgent, Register, Unregister, HandOver, PinEnter, PinExit
<1>5. CASE UNCHANGED vars
  BY <1>5 DEF vars, reloadVars, sessionVars, historyVars
<1> QED BY <1>1, <1>2, <1>3, <1>4, <1>5 DEF ReloadNext

(* What a flush does that comes to the agents `handled` and re-binds the   *)
(* sessions `rebound`, session by session and agent by agent.              *)
FlushOutcome(changes, handled, rebound) ==
  /\ \A a \in handled : file[SourceOf[a]].content # "unreadable"
  /\ \A s \in rebound : phase[s] = "live" /\ s \notin pinned /\ AgentOf[s] \in handled
  /\ \A a \in Agents : loaded'[a] = IF a \in handled /\ Replaced(a)
                                    THEN ClassOf(file[SourceOf[a]]) ELSE loaded[a]
  /\ \A s \in Sessions : current'[s] = IF s \in rebound THEN loaded'[AgentOf[s]] ELSE current[s]
  /\ handed' = handed \ rebound
  /\ \A s \in Sessions :
       s \in excused \cup cutOff \/ (AgentOf[s] \in handled /\ Replaced(AgentOf[s])) =>
         s \in rebound \/ s \in excused' \cup cutOff' \/ phase[s] \notin {"starting", "live"}
  /\ stranded' = {p \in stranded \cup DOMAIN changes :
                    p \in DOMAIN changes =>
                      \E a \in Touched(changes) \ handled : SourceOf[a] = p}

\* Every flush has such an outcome.
LEMMA FlushEffect ==
  ASSUME ReloadTypes, FlushReloads
  PROVE  \E handled \in SUBSET Touched(Collapsed(pending)), rebound \in SUBSET Sessions :
           FlushOutcome(Collapsed(pending), handled, rebound)
<1> DEFINE changes == Collapsed(pending)
<1> HIDE DEF changes
<1>1. OnChange(changes)
  BY DEF FlushReloads, changes
<1>2. PICK handled \in SUBSET Touched(changes) :
        LET replaced  == {a \in handled : Replaced(a)}
            scanned   == LiveSessions(replaced) \ pinned
            unhandled == Touched(changes) \ handled
        IN  /\ \A a \in handled : file[SourceOf[a]].content # "unreadable"
            /\ loaded' = [a \in Agents |-> IF a \in replaced THEN ClassOf(file[SourceOf[a]])
                                                              ELSE loaded[a]]
            /\ \E failing, unread \in SUBSET scanned :
                 LET rebound == Rebound(scanned, failing, unread)
                 IN  /\ unread # {} \/ unhandled # {} => Aborted(unhandled, unread, replaced)
                     /\ current' = [s \in Sessions |-> IF s \in rebound THEN loaded'[AgentOf[s]]
                                                                         ELSE current[s]]
                     /\ handed' = handed \ rebound
                     /\ excused' = (excused \ rebound) \cup failing
                                     \cup {s \in Sessions : AgentOf[s] \in replaced
                                              /\ (phase[s] = "starting" \/ s \in pinned)}
                     /\ cutOff' = (cutOff \ rebound) \cup unread
            /\ stranded' = {p \in stranded \cup DOMAIN changes :
                              p \in DOMAIN changes => \E a \in unhandled : SourceOf[a] = p}
  BY <1>1 DEF OnChange
<1> DEFINE replaced == {a \in handled : Replaced(a)}
           scanned  == LiveSessions(replaced) \ pinned
<1>3. PICK failing \in SUBSET scanned, unread \in SUBSET scanned :
         LET rebound == Rebound(scanned, failing, unread)
         IN  /\ current' = [s \in Sessions |-> IF s \in rebound THEN loaded'[AgentOf[s]]
                                                                 ELSE current[s]]
             /\ handed' = handed \ rebound
             /\ excused' = (excused \ rebound) \cup failing
                             \cup {s \in Sessions : AgentOf[s] \in replaced
                                      /\ (phase[s] = "starting" \/ s \in pinned)}
             /\ cutOff' = (cutOff \ rebound) \cup unread
  BY <1>2
<1> DEFINE rebound == Rebound(scanned, failing, unread)
<1>4. rebound \in SUBSET Sessions /\ rebound = scanned \ (failing \cup unread)
  BY DEF Rebound, LiveSessions
<1>5. \A s \in rebound : phase[s] = "live" /\ s \notin pinned /\ AgentOf[s] \in handled
  BY DEF Rebound, LiveSessions, Registered
<1>6. \A s \in Sessions :
        s \in excused \cup cutOff \/ (AgentOf[s] \in handled /\ Replaced(AgentOf[s])) =>
          s \in rebound \/ s \in excused' \cup cutOff' \/ phase[s] \notin {"starting", "live"}
  <2> SUFFICES ASSUME NEW s \in Sessions, s \notin rebound, phase[s] \in {"starting", "live"},
                      s \in excused \cup cutOff \/ (AgentOf[s] \in handled /\ Replaced(AgentOf[s]))
               PROVE  s \in excused' \cup cutOff'
    OBVIOUS
  <2>1. CASE s \in excused \cup cutOff
    BY <1>3, <2>1
  <2>2. CASE AgentOf[s] \in replaced
    BY <1>3, <1>4, <2>2 DEF LiveSessions, Registered
  <2> QED BY <2>1, <2>2
<1>7. \A a \in Agents : loaded'[a] = IF a \in handled /\ Replaced(a)
                                     THEN ClassOf(file[SourceOf[a]]) ELSE loaded[a]
  BY <1>2
<1>8. /\ \A a \in handled : file[SourceOf[a]].content # "unreadable"
      /\ stranded' = {p \in stranded \cup DOMAIN changes :
                        p \in DOMAIN changes =>
                          \E a \in Touched(changes) \ handled : SourceOf[a] = p}
  BY <1>2
<1>9. FlushOutcome(changes, handled, rebound)
  BY <1>3, <1>5, <1>6, <1>7, <1>8 DEF FlushOutcome
<1> HIDE DEF rebound, replaced, scanned
<1> QED BY <1>4, <1>9 DEF changes

----------------------------------------------------------------------------
(* What an agent and a session may run.                                    *)

(* Every step leaves a lagging session an excuse.                          *)
LEMMA ExcusedStep ==
  ASSUME ReloadTypes, ExcusedInv, [ReloadNext]_vars
  PROVE  ExcusedInv'
<1> USE DEF ExcusedInv
<1>0. \A s \in Sessions : AgentOf[s] \in Agents
  BY ReloadConstants
<1>1. CASE Editor
  BY <1>1, EditorEdits DEF sessionVars, historyVars
<1>2. CASE Yields
  BY <1>2 DEF Yields, sessionVars, historyVars
<1>3. CASE FlushReloads
  <2>1. PICK handled \in SUBSET Touched(Collapsed(pending)), rebound \in SUBSET Sessions :
               FlushOutcome(Collapsed(pending), handled, rebound)
    BY <1>3, FlushEffect
  <2>2. UNCHANGED phase
    BY <1>3 DEF FlushReloads
  <2> SUFFICES ASSUME NEW s \in Sessions, phase[s] \in {"starting", "live"},
                      s \notin rebound, current[s] # loaded'[AgentOf[s]]
               PROVE  s \in excused' \cup cutOff'
    BY <2>1, <2>2 DEF FlushOutcome
  <2>3. s \in excused \cup cutOff \/ (AgentOf[s] \in handled /\ Replaced(AgentOf[s]))
    BY <1>0, <2>1 DEF FlushOutcome
  <2> QED BY <2>1, <2>3 DEF FlushOutcome
<1>4. ASSUME NEW s \in Sessions, Session(s) PROVE ExcusedInv'
  <2>1. UNCHANGED <<loaded, excused, cutOff>>
    BY <1>4, SessionLeaves DEF Undisturbed, historyVars
  <2>2. \A t \in Sessions : \/ current'[t] = current[t] /\ phase'[t] = phase[t]
                            \/ current'[t] = loaded[AgentOf[t]]
                            \/ phase'[t] = "over"
                            \/ current'[t] = current[t] /\ phase[t] = "starting"
    BY <1>4 DEF Session, BuildAgent, Register, Unregister, HandOver, PinEnter, PinExit, ReloadTypes
  <2> QED BY <2>1, <2>2
<1>5. CASE UNCHANGED vars
  BY <1>5 DEF vars, reloadVars, sessionVars, historyVars
<1> QED BY <1>1, <1>2, <1>3, <1>4, <1>5 DEF ReloadNext

(* Every step leaves a file that its agent does not run in a batch, or     *)
(* notes that a batch did not load it.                                     *)
LEMMA HeraldStep ==
  ASSUME ReloadTypes, HeraldInv, [ReloadNext]_vars
  PROVE  HeraldInv'
<1> USE DEF HeraldInv, Heralded
<1>0. \A a \in Agents : SourceOf[a] \in Paths
  BY ReloadConstants
<1>1. CASE Editor
  <2>1. PICK p \in Paths, kind \in Kinds, f \in FileType :
              /\ file' = [file EXCEPT ![p] = f]
              /\ unseen' = unseen \cup {<<p, kind>>}
    BY <1>1, EditorEdits
  <2>2. UNCHANGED <<pending, loaded, buried, stranded>>
    BY <1>1, EditorEdits DEF watcherVars, historyVars
  <2>3. unseen' \subseteq Changes
    BY <2>1 DEF Changes
  <2>4. ASSUME NEW a \in Agents, file'[SourceOf[a]].content \in Loadable, ~RunsItsFile(a)'
        PROVE  \/ \E k \in Kinds : <<SourceOf[a], k>> \in unseen' \cup pending
               \/ SourceOf[a] \in buried \cup stranded
    <3>1. CASE SourceOf[a] = p
      BY <2>1, <3>1
    <3>2. CASE SourceOf[a] # p
      <4>1. file'[SourceOf[a]] = file[SourceOf[a]]
        BY <1>0, <2>1, <3>2 DEF ReloadTypes
      <4> QED BY <2>1, <2>2, <2>4, <4>1 DEF RunsItsFile
    <3> QED BY <3>1, <3>2
  <2> QED BY <2>2, <2>3, <2>4
<1>2. CASE Yields
  BY <1>2 DEF Yields, HandleBatch, historyVars, RunsItsFile
<1>3. CASE FlushReloads
  <2> DEFINE changes == Collapsed(pending)
  <2>1. PICK handled \in SUBSET Touched(changes), rebound \in SUBSET Sessions :
               FlushOutcome(changes, handled, rebound)
    BY <1>3, FlushEffect
  <2>2. UNCHANGED <<file, unseen>> /\ pending' = {}
    BY <1>3 DEF FlushReloads
  <2>3. buried' = {p \in buried \cup DOMAIN changes : p \in DOMAIN changes => changes[p] = "deleted"}
    BY <1>3 DEF FlushReloads
  <2>4. ASSUME NEW a \in Agents, file[SourceOf[a]].content \in Loadable, ~RunsItsFile(a)'
        PROVE  \/ \E k \in Kinds : <<SourceOf[a], k>> \in unseen
               \/ SourceOf[a] \in buried' \cup stranded'
    <3>0. loaded'[a] # ClassOf(file[SourceOf[a]])
      BY <2>2, <2>4 DEF RunsItsFile
    <3>1. ~RunsItsFile(a) /\ a \notin handled
      BY <2>1, <2>4, <3>0 DEF FlushOutcome, RunsItsFile, Replaced, ClassOf
    <3>2. CASE SourceOf[a] \in DOMAIN changes
      <4>1. CASE changes[SourceOf[a]] = "deleted"
        <5> HIDE DEF changes
        <5> QED BY <2>3, <3>2, <4>1
      <4>2. CASE changes[SourceOf[a]] # "deleted"
        <5> HIDE DEF changes
        <5>1. a \in Touched(changes) \ handled
          BY <3>1, <3>2, <4>2 DEF Touched
        <5> QED BY <2>1, <3>2, <5>1 DEF FlushOutcome
      <4> QED BY <4>1, <4>2
    <3>3. CASE SourceOf[a] \notin DOMAIN changes
      <4>1. \A c \in pending : c[1] # SourceOf[a]
        BY <3>3, CollapsedDomain
      <4>2. \A k \in Kinds : <<SourceOf[a], k>> \notin pending
        BY <4>1
      <4> HIDE DEF changes
      <4> QED BY <2>1, <2>3, <2>4, <3>1, <3>3, <4>2 DEF FlushOutcome
    <3> QED BY <3>2, <3>3
  <2> HIDE DEF changes
  <2> QED BY <2>2, <2>4
<1>4. ASSUME NEW s \in Sessions, Session(s) PROVE HeraldInv'
  BY <1>4, SessionLeaves DEF Undisturbed, historyVars, RunsItsFile
<1>5. CASE UNCHANGED vars
  BY <1>5 DEF vars, watcherVars, reloadVars, historyVars, RunsItsFile
<1> QED BY <1>1, <1>2, <1>3, <1>4, <1>5 DEF ReloadNext

(* The three parts together are an invariant.                              *)
LEMMA ReloadStaysSound ==
  ReloadSpec => [](ReloadTypes /\ ExcusedInv /\ HeraldInv)
<1>1. ReloadInit => ReloadTypes /\ ExcusedInv /\ HeraldInv
  BY ReloadConstants DEF ReloadInit, ReloadTypes, FileType, Contents, ExcusedInv, HeraldInv,
     RunsItsFile, ClassOf
<1>2. ReloadTypes /\ ExcusedInv /\ HeraldInv /\ [ReloadNext]_vars
        => (ReloadTypes /\ ExcusedInv /\ HeraldInv)'
  BY ReloadTypesStep, ExcusedStep, HeraldStep
<1> QED BY <1>1, <1>2, PTL DEF ReloadSpec

(* No reload just misses a live session: one that lags was being built,    *)
(* pinned or unable to take the class when the reload came, or the pass    *)
(* ended before it, at a session whose current_agent raises.               *)
THEOREM NoSessionIsMissed == ReloadSpec => []LaggardsAreExcused
<1>1. ExcusedInv => LaggardsAreExcused
  BY DEF ExcusedInv, LaggardsAreExcused, Registered
<1> QED BY <1>1, ReloadStaysSound, PTL

(* With nothing left to handle, the agents run what their files say, but   *)
(* for a file that is back while its last batch called it deleted, and one *)
(* that its last batch, having failed elsewhere, did not come to.          *)
THEOREM SettledAgentsAreCurrent == ReloadSpec => []SettledIsCurrent
<1>1. HeraldInv => SettledIsCurrent
  BY DEF HeraldInv, Heralded, SettledIsCurrent, Settled
<1> QED BY <1>1, ReloadStaysSound, PTL

----------------------------------------------------------------------------
(* When a session may be swapped.                                          *)

(* A live session is swapped, or taken back from a hand-over, only in the  *)
(* flush of a batch that has a change of its own agent's file.             *)
THEOREM SiblingsStay == ReloadSpec => SiblingsAreUntouched
<1> DEFINE Untouched ==
      \A s \in Sessions :
        phase[s] = "live" /\ (current'[s] # current[s] \/ (s \in handed /\ s \notin handed'))
          => \E change \in pending : change[1] = SourceOf[AgentOf[s]]
<1>1. ASSUME ReloadTypes, [ReloadNext]_vars PROVE Untouched
  <2>1. CASE Editor
    BY <2>1, <1>1, EditorEdits DEF sessionVars
  <2>2. CASE Yields
    BY <2>2 DEF Yields, sessionVars
  <2>3. CASE FlushReloads
    <3>1. PICK handled \in SUBSET Touched(Collapsed(pending)), rebound \in SUBSET Sessions :
                 FlushOutcome(Collapsed(pending), handled, rebound)
      BY <1>1, <2>3, FlushEffect
    <3>2. \A s \in rebound : SourceOf[AgentOf[s]] \in DOMAIN Collapsed(pending)
      BY <3>1 DEF FlushOutcome, Touched
    <3>3. \A s \in rebound : \E change \in pending : change[1] = SourceOf[AgentOf[s]]
      BY <3>2, CollapsedDomain
    <3> QED BY <3>1, <3>3 DEF FlushOutcome
  <2>4. ASSUME NEW s \in Sessions, Session(s) PROVE Untouched
    BY <1>1, <2>4 DEF Session, BuildAgent, Register, Unregister, HandOver, PinEnter, PinExit, ReloadTypes
  <2>5. CASE UNCHANGED vars
    BY <2>5 DEF vars, reloadVars, sessionVars
  <2> QED BY <1>1, <2>1, <2>2, <2>3, <2>4, <2>5 DEF ReloadNext
<1>2. ReloadTypes /\ [ReloadNext]_vars => [Untouched]_vars
  BY <1>1
<1> QED BY <1>2, ReloadStaysSound, PTL DEF ReloadSpec, SiblingsAreUntouched

(* Where pins do not nest, a session inside pin_reload is pinned, and has  *)
(* its agent already.                                                      *)
PinInv ==
  \A s \in Sessions : depth[s] > 0 => depth[s] = 1 /\ s \in pinned /\ phase[s] # "connecting"

(* While pins do not nest, a session in a block is pinned.                 *)
LEMMA PinStep ==
  ASSUME MaxPins <= 1, ReloadTypes, PinInv, [ReloadNext]_vars
  PROVE  PinInv' /\ \A s \in Sessions : depth[s] > 0 => current'[s] = current[s]
<1> USE DEF PinInv
<1>1. CASE Editor
  BY <1>1, EditorEdits DEF sessionVars
<1>2. CASE Yields
  BY <1>2 DEF Yields, sessionVars
<1>3. CASE FlushReloads
  <2>1. PICK handled \in SUBSET Touched(Collapsed(pending)), rebound \in SUBSET Sessions :
               FlushOutcome(Collapsed(pending), handled, rebound)
    BY <1>3, FlushEffect
  <2>2. UNCHANGED <<phase, depth, pinned>>
    BY <1>3 DEF FlushReloads
  <2> QED BY <2>1, <2>2 DEF FlushOutcome
<1>4. ASSUME NEW s \in Sessions, Session(s)
      PROVE  PinInv' /\ \A t \in Sessions : depth[t] > 0 => current'[t] = current[t]
  <2>1. CASE BuildAgent(s) \/ Register(s) \/ Unregister(s) \/ HandOver(s)
    BY <2>1 DEF BuildAgent, Register, Unregister, HandOver, ReloadTypes
  <2>2. CASE PinEnter(s)
    <3>0. depth[s] = 0
      BY <2>2, ReloadConstants DEF PinEnter, ReloadTypes
    <3>1. depth' = [depth EXCEPT ![s] = depth[s] + 1] /\ UNCHANGED <<phase, current>>
      BY <2>2 DEF PinEnter
    <3>2. phase[s] # "connecting" /\ pinned' = pinned \cup {s}
      BY <2>2 DEF PinEnter
    <3> QED BY <3>0, <3>1, <3>2 DEF ReloadTypes
  <2>3. CASE PinExit(s)
    <3>0. depth[s] = 1
      BY <2>3 DEF PinExit
    <3>1. depth' = [depth EXCEPT ![s] = depth[s] - 1] /\ UNCHANGED <<phase, current>>
      BY <2>3 DEF PinExit
    <3>2. pinned' = pinned \ {s}
      BY <2>3 DEF PinExit
    <3> QED BY <3>0, <3>1, <3>2 DEF ReloadTypes
  <2> QED BY <1>4, <2>1, <2>2, <2>3 DEF Session
<1>5. CASE UNCHANGED vars
  BY <1>5 DEF vars, reloadVars, sessionVars
<1> QED BY <1>1, <1>2, <1>3, <1>4, <1>5 DEF ReloadNext

(* Swaps are called for, as long as pins do not nest: the inner exit of a  *)
(* nested pin lets the next reload through.                                *)
THEOREM OnlyCalledForSwaps ==
  ASSUME MaxPins <= 1
  PROVE  ReloadSpec => SwapsAreCalledFor
<1>1. ReloadInit => PinInv
  BY DEF ReloadInit, PinInv
<1>2. ReloadTypes /\ PinInv /\ [ReloadNext]_vars
        => PinInv' /\ [\A s \in Sessions : depth[s] > 0 => current'[s] = current[s]]_vars
  BY PinStep
<1>3. ReloadSpec => PinHolds
  BY <1>1, <1>2, ReloadStaysSound, PTL DEF ReloadSpec, PinHolds
<1> QED BY <1>3, SiblingsStay, PTL DEF SwapsAreCalledFor
=============================================================================

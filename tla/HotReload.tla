----------------------------- MODULE HotReload -----------------------------
(***************************************************************************)
(* Hot reload: the file watcher hands a batch to ReloadCoordinator, which  *)
(* re-imports the edited modules, replaces the classes of their agents and *)
(* re-binds the live sessions, all in one step of the event loop.  Around  *)
(* it, editors write files, sessions start and end, pin themselves and     *)
(* hand over to other agents.                                              *)
(*                                                                         *)
(* A class is the version of its file it was loaded from, or one that the  *)
(* file imports.  The watcher runs throughout, over files that do not      *)
(* change.                                                                 *)
(***************************************************************************)
EXTENDS FileWatcher, FiniteSetsExt, TLC

CONSTANTS
  Agents,
  SourceOf,    \* AgentConfig.source_path, per agent
  Sessions,
  AgentOf,     \* the agent each session resolves to
  MaxEdits,    \* bound on the versions written, over all files
  Replaces,    \* whether editors may save by deleting and creating
  Handoffs,    \* whether a session may hand over to an agent of its own
  MaxPins      \* bound on the nesting of pin_reload in one session

ASSUME ReloadConstants ==
  /\ SourceOf \in [Agents -> Paths] /\ AgentOf \in [Sessions -> Agents]
  /\ Replaces \in BOOLEAN /\ Handoffs \in BOOLEAN
  /\ MaxEdits \in Nat /\ MaxPins \in Nat

VARIABLES
  file,      \* version and content of each file
  unseen,    \* the changes watchfiles has not yielded yet
  loaded,    \* AgentConfig.agent_cls
  phase,     \* of each session
  current,   \* the entry class each session was last given
  handed,    \* the sessions whose current agent is of another class
  depth,     \* how many pin_reload blocks each session is in
  pinned,    \* _pinned
  excused,   \* history: sessions that a reload of their agent could not move
  cutOff,    \* history: sessions that a reload of their agent did not come to
  buried,    \* history: the files that the last batch they were in reported deleted
  stranded   \* history: the files that the last batch they were in did not come to

sessionVars == <<phase, current, handed, depth, pinned>>
historyVars == <<excused, cutOff, buried, stranded>>
reloadVars  == <<file, unseen, loaded, sessionVars, historyVars>>
vars == <<watcherVars, reloadVars>>

(* A module that defines its agent; one that imports it, under its name,   *)
(* from a module that is not reloaded; one that fails to import; and one   *)
(* on which the reloader itself raises: no UTF-8, or a NUL.                *)
Contents == {"defines", "imports", "broken", "unreadable"}
Loadable == {"defines", "imports"}

\* The class a file imports: the same one each time, unlike those it defines.
Elsewhere == MaxEdits + 1
ClassOf(f) == IF f.content = "imports" THEN Elsewhere ELSE f.version

Registered(s) == phase[s] = "live"

----------------------------------------------------------------------------
(* Editors.                                                                *)

MayEdit == MapThenSumSet(LAMBDA p : file[p].version, Paths) < MaxEdits

Edit(p, kind, content) ==
  /\ MayEdit
  /\ file' = [file EXCEPT ![p] = [version |-> @.version + 1, content |-> content]]
  /\ unseen' = unseen \cup {<<p, kind>>}
  /\ UNCHANGED <<watcherVars, loaded, sessionVars, historyVars>>

Write(p, content)  == file[p].content # "gone" /\ Edit(p, "modified", content)
Create(p, content) == file[p].content = "gone" /\ Edit(p, "created", content)

Remove(p) ==
  /\ Replaces
  /\ file[p].content # "gone" /\ MayEdit
  /\ file' = [file EXCEPT ![p].content = "gone"]
  /\ unseen' = unseen \cup {<<p, "deleted">>}
  /\ UNCHANGED <<watcherVars, loaded, sessionVars, historyVars>>

\* awatch yields what has changed since it last did.
Yields ==
  /\ unseen # {}
  /\ HandleBatch(unseen)
  /\ unseen' = {}
  /\ UNCHANGED <<watcher, loop, paths, watched, restart, stopPc, batches, refreshes>>
  /\ UNCHANGED <<file, loaded, sessionVars, historyVars>>

----------------------------------------------------------------------------
(* The reload.                                                             *)

\* Mutant: one file of a batch is reloaded.
TouchedFirst(changes) ==
  {a \in Agents : /\ SourceOf[a] = CHOOSE p \in DOMAIN changes : TRUE
                  /\ changes[SourceOf[a]] # "deleted"}

\* The agents a batch reloads: their file changed and is not reported deleted.
Touched(changes) ==
  {a \in Agents : SourceOf[a] \in DOMAIN changes /\ changes[SourceOf[a]] # "deleted"}

(* Whether a reload yields another class than before.  The text is read    *)
(* now, whatever the change was; what fails to import keeps the class.     *)
Replaced(a) ==
  /\ file[SourceOf[a]].content \in Loadable
  /\ file[SourceOf[a]].content = "imports" => loaded[a] # Elsewhere

\* registry.sessions_for, over the agents replaced.
LiveSessions(replaced) == {s \in Sessions : Registered(s) /\ AgentOf[s] \in replaced}

\* Mutant: a session whose agent raises ends the pass as well.
ReboundUntilFailure(scanned, failing, unread) ==
  IF failing = {} THEN scanned \ unread ELSE {}

(* A session whose new agent or update_agent raises is skipped.  One whose *)
(* current_agent raises ends the pass, for those behind it too.            *)
Rebound(scanned, failing, unread) == scanned \ (failing \cup unread)

(* What keeps the batch from its other agents: an unreadable file among    *)
(* them, or a pass over one agent's sessions that ended early.             *)
Aborted(unhandled, unread, replaced) ==
  \/ unread = {} /\ \E a \in unhandled : file[SourceOf[a]].content = "unreadable"
  \/ \E a \in replaced : unread # {} /\ unread \subseteq LiveSessions({a})

(* on_change for one flush of the watcher.  `handled` are the agents it    *)
(* comes to, `failing` the sessions that cannot take their class, `unread` *)
(* those that a pass which ended early did not come to.                    *)
OnChange(changes) ==
  \E handled \in SUBSET Touched(changes) :
    LET replaced  == {a \in handled : Replaced(a)}
        scanned   == LiveSessions(replaced) \ pinned
        unhandled == Touched(changes) \ handled
    IN  /\ \A a \in handled : file[SourceOf[a]].content # "unreadable"
        /\ loaded' = [a \in Agents |-> IF a \in replaced THEN ClassOf(file[SourceOf[a]])
                                                          ELSE loaded[a]]
        /\ \E failing, unread \in SUBSET scanned :
             LET rebound == Rebound(scanned, failing, unread)
             IN  /\ unread # {} \/ unhandled # {} => Aborted(unhandled, unread, replaced)
                 /\ current' = [s \in Sessions |-> IF s \in rebound THEN loaded'[AgentOf[s]]
                                                                     ELSE current[s]]
                 /\ handed' = handed \ rebound
                 /\ excused' = (excused \ rebound) \cup failing
                                 \cup {s \in Sessions : AgentOf[s] \in replaced
                                          /\ (phase[s] = "starting" \/ s \in pinned)}
                 /\ cutOff' = (cutOff \ rebound) \cup unread
        /\ stranded' = {p \in stranded \cup DOMAIN changes :
                          p \in DOMAIN changes => \E a \in unhandled : SourceOf[a] = p}

FlushReloads ==
  /\ flush = "sleeping" /\ pending # {}
  /\ OnChange(Collapsed(pending))
  /\ LET changes == Collapsed(pending)
     IN  buried' = {p \in buried \cup DOMAIN changes : p \in DOMAIN changes => changes[p] = "deleted"}
  /\ pending' = {} /\ flush' = "none"
  /\ UNCHANGED <<watcher, loop, paths, watched, restart, stopPc, batches, refreshes>>
  /\ UNCHANGED <<file, unseen, phase, depth, pinned>>

----------------------------------------------------------------------------
(* Sessions.  run_session connects, builds the agent, awaits start() and   *)
(* then tells the observers, of which the registry is one.                 *)

BuildAgent(s) ==
  /\ phase[s] = "connecting"
  /\ phase' = [phase EXCEPT ![s] = "starting"]
  /\ current' = [current EXCEPT ![s] = loaded[AgentOf[s]]]
  /\ UNCHANGED <<watcherVars, file, unseen, loaded, handed, depth, pinned, historyVars>>

\* LiveSessionRegistry.on_session_start
Register(s) ==
  /\ phase[s] = "starting"
  /\ phase' = [phase EXCEPT ![s] = "live"]
  /\ UNCHANGED <<watcherVars, file, unseen, loaded, current, handed, depth, pinned, historyVars>>

\* LiveSessionRegistry.on_session_end, also of a session that never went live.
Unregister(s) ==
  /\ phase[s] # "over"
  /\ phase' = [phase EXCEPT ![s] = "over"]
  /\ UNCHANGED <<watcherVars, file, unseen, loaded, current, handed, depth, pinned, historyVars>>

\* The application updates its session with an agent of another class.
HandOver(s) ==
  /\ Handoffs /\ phase[s] \in {"starting", "live"} /\ s \notin handed
  /\ handed' = handed \cup {s}
  /\ UNCHANGED <<watcherVars, file, unseen, loaded, phase, current, depth, pinned, historyVars>>

\* Mutant: a pin is only noted for a session that is registered.
PinEnterLate(s) ==
  /\ phase[s] \in {"starting", "live"} /\ depth[s] < MaxPins
  /\ depth' = [depth EXCEPT ![s] = @ + 1]
  /\ pinned' = IF Registered(s) THEN pinned \cup {s} ELSE pinned
  /\ UNCHANGED <<watcherVars, file, unseen, loaded, phase, current, handed, historyVars>>

\* pin_reload: pin on entry, unpin on exit.
PinEnter(s) ==
  /\ phase[s] \in {"starting", "live"} /\ depth[s] < MaxPins
  /\ depth' = [depth EXCEPT ![s] = @ + 1]
  /\ pinned' = pinned \cup {s}
  /\ UNCHANGED <<watcherVars, file, unseen, loaded, phase, current, handed, historyVars>>

PinExit(s) ==
  /\ depth[s] > 0
  /\ depth' = [depth EXCEPT ![s] = @ - 1]
  /\ pinned' = pinned \ {s}
  /\ UNCHANGED <<watcherVars, file, unseen, loaded, phase, current, handed, historyVars>>

ReloadInit ==
  /\ watcher = "running" /\ loop = "watching" /\ stopPc = "idle"
  /\ paths = Paths /\ watched = Paths /\ restart = FALSE
  /\ pending = {} /\ flush = "none" /\ batches = 0 /\ refreshes = 0
  /\ file = [p \in Paths |-> [version |-> 0, content |-> "defines"]]
  /\ unseen = {}
  /\ loaded = [a \in Agents |-> 0]
  /\ phase = [s \in Sessions |-> "connecting"]
  /\ current = [s \in Sessions |-> 0]
  /\ handed = {} /\ pinned = {}
  /\ excused = {} /\ cutOff = {} /\ buried = {} /\ stranded = {}
  /\ depth = [s \in Sessions |-> 0]

Editor == \E p \in Paths : Remove(p) \/ \E c \in Contents : Write(p, c) \/ Create(p, c)
Session(s) ==
  BuildAgent(s) \/ Register(s) \/ Unregister(s) \/ HandOver(s) \/ PinEnter(s) \/ PinExit(s)

ReloadNext == Editor \/ Yields \/ FlushReloads \/ \E s \in Sessions : Session(s)
ReloadSpec == ReloadInit /\ [][ReloadNext]_vars

----------------------------------------------------------------------------
ReloadTypeOK ==
  /\ file \in [Paths -> [version : 0 .. MaxEdits, content : Contents \cup {"gone"}]]
  /\ unseen \subseteq Changes
  /\ loaded \in [Agents -> 0 .. Elsewhere] /\ current \in [Sessions -> 0 .. Elsewhere]
  /\ phase \in [Sessions -> {"connecting", "starting", "live", "over"}]
  /\ depth \in [Sessions -> 0 .. MaxPins]
  /\ handed \cup pinned \cup excused \cup cutOff \subseteq Sessions
  /\ buried \cup stranded \subseteq Paths

(* A live session lags behind its agent only when a reload found it being  *)
(* built, pinned, or unable to take the class, or did not come to it since *)
(* the pass had ended: one that cannot take its class costs no other.      *)
LaggardsAreExcused ==
  \A s \in Sessions :
    Registered(s) /\ current[s] # loaded[AgentOf[s]] => s \in excused \cup cutOff

\* Only an edit of its own agent's file changes what a session runs.
SiblingsAreUntouched ==
  [][\A s \in Sessions :
       phase[s] = "live" /\ (current'[s] # current[s] \/ (s \in handed /\ s \notin handed'))
         => \E change \in pending : change[1] = SourceOf[AgentOf[s]]]_vars

(* A session inside pin_reload keeps the agent it entered with.            *)
PinHolds ==
  [][\A s \in Sessions : depth[s] > 0 => current'[s] = current[s]]_vars

(* A live session is swapped only when it is called for: by an edit of its *)
(* own agent's file, and never inside pin_reload.                          *)
SwapsAreCalledFor == PinHolds /\ SiblingsAreUntouched

RunsItsFile(a) == loaded[a] = ClassOf(file[SourceOf[a]])
Settled == unseen = {} /\ pending = {}

(* When every change has been handled, an agent whose file can be loaded   *)
(* runs what the file says, bad saves before it or not, so the next        *)
(* session does; but for a file that is there again while its last batch   *)
(* still called it deleted, or that its last batch did not come to.        *)
SettledIsCurrent ==
  Settled => \A a \in Agents :
    file[SourceOf[a]].content \in Loadable /\ SourceOf[a] \notin buried \cup stranded
      => RunsItsFile(a)

----------------------------------------------------------------------------
(* What the repository says and the code does not do.                      *)

(* "final-state-wins": when every change has been handled, an agent runs   *)
(* what its file says, however it and the other files were saved.          *)
SavedIsCurrent ==
  Settled => \A a \in Agents : file[SourceOf[a]].content \in Loadable => RunsItsFile(a)

(* "a failure to re-bind one session is isolated so it can never abort the *)
(* others": no pass ends early.                                            *)
NoneIsCutOff ==
  \A s \in Sessions :
    Registered(s) /\ current[s] # loaded[AgentOf[s]] => s \in excused

(* "swaps every live session to the new class on its next turn".           *)
EveryLiveSessionSwaps ==
  \A s \in Sessions : Registered(s) => current[s] = loaded[AgentOf[s]]

(* "Each live session still on the old class is re-bound".                 *)
OnlyOldClassIsRebound ==
  [][\A s \in handed : s \in handed']_vars
=============================================================================

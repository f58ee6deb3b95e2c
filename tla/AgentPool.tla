----------------------------- MODULE AgentPool -----------------------------
(***************************************************************************)
(* AgentPool: one object that is put together once, registers agents and   *)
(* observers, and drives the LiveKit or the Pipecat backend behind the     *)
(* same seam.  The order in which its constructor wires the parts decides  *)
(* who hears of a call: LiveKit's wiring reads the pool's observer list    *)
(* live, Pipecat's wiring copies it.  Requests to drain come from any      *)
(* thread and are audited.                                                 *)
(*                                                                         *)
(* Calls run in this process; those of LiveKit under isolation="process"   *)
(* do not and are left out.  What a Pipecat pipeline pushes, and when it   *)
(* ends, is Pipecat's: Serial says that it hands one frame at a time to an *)
(* observer.                                                               *)
(***************************************************************************)
EXTENDS Naturals, FiniteSets, Sequences, SequencesExt, FiniteSetsExt

CONSTANTS
  AgentNames,
  Directories,  \* what discover() may find: sequences of modules, in order of their names
  Given,        \* the observers handed to the constructor, in order
  Added,        \* the observers add_observer() may be called with later
  Calls,
  Threads,      \* bound on the requests to drain
  Serial

Broken == "broken"   \* in place of a name: the call raises
Unmarked == "unmarked" \* a class or a callable without @agent_config
Anyone == ""         \* no signal names an agent
Top    == "top"      \* SessionIntrospectionRegistry
Reload == "reload"   \* LiveSessionRegistry

ASSUME AgentPoolAssumption ==
  /\ Serial \in BOOLEAN /\ IsFiniteSet(Added) /\ IsFiniteSet(Threads)
  /\ Given \in Seq(ToSet(Given)) /\ IsInjective(Given)  \* no observer is given twice
  /\ \A d \in Directories : \A i \in DOMAIN d :
       d[i].stem \in AgentNames /\ \A k \in DOMAIN d[i].found : d[i].found[k].name \in AgentNames
  /\ {Anyone, Broken, Unmarked} \cap AgentNames = {}
  /\ {Top, Reload} \cap (ToSet(Given) \cup Added) = {}

VARIABLES
  pool,      \* "unbuilt", "refused", "built" or "serving"
  options,   \* what the constructor was called with
  agents,    \* the registry, in registration order
  observers, \* _PoolRuntimeState.observers
  captured,  \* PipecatBackend._observers
  draining,
  call,      \* how far each call is
  startAt, endAt,  \* the hook each round is at; 0: it has not begun, Done: it is over
  told,      \* history: the hooks run for each call
  rows,      \* the calls each of the pool's own registries holds
  request,   \* how far each drain request is
  event,     \* the number of its audit event
  seq,       \* AuditLog._seq
  sunk       \* history: the numbers the sink was handed, in order

registryVars == <<pool, options, agents>>
observerVars == <<observers, captured>>
roundVars == <<startAt, endAt, told, rows>>
auditVars == <<request, event, seq, sunk>>
vars == <<registryVars, observerVars, draining, call, roundVars, auditVars>>

\* _BACKENDS and _ISOLATION_MODES; "" stands for any other name.
Backends == {"livekit", "pipecat"}
Isolations == {"coroutine", "process"}

Options == [backend : Backends \cup {""}, isolation : Isolations \cup {""}, values : {"good", "bad"},
            top : BOOLEAN, reload : BOOLEAN, first : AgentNames \cup {Broken}]

PoolInit ==
  /\ pool = "unbuilt" /\ options \in Options /\ agents = <<>>
  /\ observers = <<>> /\ captured = <<>> /\ draining = FALSE
  /\ call = [c \in Calls |-> "none"]
  /\ startAt = [c \in Calls |-> 0] /\ endAt = [c \in Calls |-> 0]
  /\ told = [c \in Calls |-> <<>>] /\ rows = [r \in {Top, Reload} |-> {}]
  /\ request = [t \in Threads |-> "none"] /\ event = [t \in Threads |-> 0]
  /\ seq = 0 /\ sunk = <<>>

----------------------------------------------------------------------------
(* The constructor.                                                        *)

OnPipecat == options.backend = "pipecat"
Inspected == options.top /\ options.isolation = "coroutine"

\* The values are looked at first, and then the backend is resolved and built.
Malformed ==
  \/ options.isolation \notin Isolations
  \/ options.values = "bad"
  \/ options.backend \notin Backends

\* _setup_hot_reload, the last step: LiveKit only, coroutine isolation only.
ReloadRefused == options.reload /\ (OnPipecat \/ options.isolation # "coroutine")

\* Mutant: the introspection registry is added after the backend was wired.
ConstructTopLast ==
  /\ pool = "unbuilt"
  /\ IF Malformed \/ options.first = Broken \/ ReloadRefused
     THEN pool' = "refused" /\ UNCHANGED <<agents, observerVars>>
     ELSE /\ pool' = "built"
          /\ agents' = <<options.first>>
          /\ captured' = Given
          /\ observers' = Given \o (IF Inspected THEN <<Top>> ELSE <<>>) \o (IF options.reload THEN <<Reload>> ELSE <<>>)
  /\ UNCHANGED <<options, draining, call, roundVars, auditVars>>

(* __init__: the observers, the first agent, introspection, the wiring     *)
(* with its copy of the observers, hot reload.  An error anywhere leaves   *)
(* no pool.                                                                *)
Construct ==
  LET before == Given \o (IF Inspected THEN <<Top>> ELSE <<>>)
  IN  /\ pool = "unbuilt"
      /\ IF Malformed \/ options.first = Broken \/ ReloadRefused
         THEN pool' = "refused" /\ UNCHANGED <<agents, observerVars>>
         ELSE /\ pool' = "built"
              /\ agents' = <<options.first>>
              /\ captured' = before
              /\ observers' = IF options.reload THEN Append(before, Reload) ELSE before
      /\ UNCHANGED <<options, draining, call, roundVars, auditVars>>

Exists == pool \in {"built", "serving"}

AddObserver(o) ==
  /\ Exists /\ o \notin ToSet(observers)
  /\ observers' = Append(observers, o)
  /\ UNCHANGED <<registryVars, captured, draining, call, roundVars, auditVars>>

----------------------------------------------------------------------------
(* The registry of agents.                                                 *)

\* The pool's own dictionary or the Pipecat backend's: neither takes a name twice.
Register(a) == a \notin ToSet(agents) /\ agents' = Append(agents, a)
Unregister(a) == \E i \in DOMAIN agents : agents[i] = a /\ agents' = RemoveAt(agents, i)

Add(a) ==
  /\ Exists /\ Register(a)
  /\ UNCHANGED <<pool, options, observerVars, draining, call, roundVars, auditVars>>

\* The name an @agent_config gives, or the one that stands in where it gives none.
NameOf(d, otherwise) == IF d.mark \in AgentNames THEN d.mark ELSE otherwise

(* What a module offers: LiveKit takes its first own Agent class, marked   *)
(* or not, Pipecat every own callable that is marked; what is only         *)
(* imported there counts for neither.                                      *)
AgentsOf(file) ==
  LET own == SelectSeq(file.found, LAMBDA d : d.local /\ (OnPipecat => d.mark # Unmarked))
  IN  CASE file.skipped -> <<>>
        [] ~file.skipped /\ ~file.imports -> <<Broken>>
        [] OnPipecat /\ ~file.skipped /\ file.imports -> [i \in DOMAIN own |-> NameOf(own[i], own[i].name)]
        [] OTHER -> IF own = <<>> THEN <<Broken>> ELSE <<NameOf(own[1], file.stem)>>

\* A walk through a directory adds all up to a module that raises, or a name taken.
Discovered(files) ==
  LET offered == FlattenSeq([i \in DOMAIN files |-> AgentsOf(files[i])])
      Upto(n) == agents \o SubSeq(offered, 1, n)
      Passed == {n \in 0 .. Len(offered) : Upto(n) \in Seq(AgentNames) /\ IsInjective(Upto(n))}
  IN  \E n \in Passed : (\A m \in Passed : m <= n) /\ agents' = Upto(n)

Discover(files) ==
  /\ Exists
  /\ Discovered(files) /\ agents' # agents
  /\ UNCHANGED <<pool, options, observerVars, draining, call, roundVars, auditVars>>

RemoveAgent(a) ==
  /\ Exists /\ Unregister(a)
  /\ UNCHANGED <<pool, options, observerVars, draining, call, roundVars, auditVars>>

RunPool ==
  /\ pool = "built" /\ agents # <<>>
  /\ pool' = "serving"
  /\ UNCHANGED <<options, agents, observerVars, draining, call, roundVars, auditVars>>

----------------------------------------------------------------------------
(* Calls.                                                                  *)

\* Pipecat takes no notice of the isolation.
Serving == pool = "serving" /\ (OnPipecat \/ options.isolation = "coroutine")
Listeners == IF OnPipecat THEN captured ELSE observers
Done == Cardinality(Added) + Len(Given) + 3
Within(position) == position \in 1 .. Len(Listeners)
Telling(c) == Within(startAt[c]) \/ Within(endAt[c])

\* A for loop over the list as it now is: what is appended behind its end comes too late.
After(position) == IF position < Len(Listeners) THEN position + 1 ELSE Done

\* Any agent will do, or the one that a routing signal names; Broken: nothing resolves.
Routed(wanted) ==
  IF agents = <<>> \/ wanted \notin ToSet(agents) \cup {Anyone} THEN Broken
  ELSE IF wanted = Anyone THEN agents[1] ELSE wanted

\* bot() and launch_job: nothing is begun while draining; the builder may raise.
CallArrives(c, wanted) ==
  /\ Serving /\ call[c] = "none"
  /\ \/ draining /\ call' = [call EXCEPT ![c] = "declined"]
     \/ ~draining /\ Routed(wanted) # Broken /\ call' = [call EXCEPT ![c] = "live"]
     \/ ~draining /\ call' = [call EXCEPT ![c] = "failed"]
  /\ UNCHANGED <<registryVars, observerVars, draining, roundVars, auditVars>>

\* A StartFrame, of which every processor pushes one, or a session that has started.
Starts(c) ==
  /\ call[c] = "live" /\ startAt[c] = 0 /\ endAt[c] = 0
  /\ startAt' = [startAt EXCEPT ![c] = After(0)]
  /\ UNCHANGED <<registryVars, observerVars, draining, call, endAt, told, rows, auditVars>>

\* Mutant: every EndFrame and CancelFrame is taken for the first.
EndsAgain(c) ==
  /\ call[c] = "live"
  /\ startAt[c] # 0
  /\ Serial \/ ~OnPipecat => ~Telling(c)
  /\ endAt' = [endAt EXCEPT ![c] = After(0)]
  /\ UNCHANGED <<registryVars, observerVars, draining, call, startAt, told, rows, auditVars>>

(* An EndFrame or a CancelFrame: once, and only after a start.  A LiveKit  *)
(* session that fails before it has started is reported all the same.      *)
Ends(c) ==
  /\ call[c] = "live" /\ endAt[c] = 0
  /\ OnPipecat => startAt[c] # 0
  /\ Serial \/ ~OnPipecat => ~Telling(c)
  /\ endAt' = [endAt EXCEPT ![c] = After(0)]
  /\ UNCHANGED <<registryVars, observerVars, draining, call, startAt, told, rows, auditVars>>

\* One hook; the pool's own registries note the call, the others are the application's.
TellStart(c) ==
  /\ call[c] = "live" /\ Within(startAt[c])
  /\ LET o == Listeners[startAt[c]]
     IN  /\ told' = [told EXCEPT ![c] = Append(@, <<"start", o>>)]
         /\ rows' = [r \in DOMAIN rows |-> IF r = o THEN rows[r] \cup {c} ELSE rows[r]]
  /\ startAt' = [startAt EXCEPT ![c] = After(@)]
  /\ UNCHANGED <<registryVars, observerVars, draining, call, endAt, auditVars>>

TellEnd(c) ==
  /\ call[c] = "live" /\ Within(endAt[c])
  /\ LET o == Listeners[endAt[c]]
     IN  /\ told' = [told EXCEPT ![c] = Append(@, <<"end", o>>)]
         /\ rows' = [r \in DOMAIN rows |-> IF r = o THEN rows[r] \ {c} ELSE rows[r]]
  /\ endAt' = [endAt EXCEPT ![c] = After(@)]
  /\ UNCHANGED <<registryVars, observerVars, draining, call, startAt, auditVars>>

\* The session task or the pipeline is over, with the rounds it was in.
CallIsOver(c) ==
  /\ call[c] = "live"
  /\ call' = [call EXCEPT ![c] = "over"]
  /\ UNCHANGED <<registryVars, observerVars, draining, roundVars, auditVars>>

----------------------------------------------------------------------------
(* Drain and its audit.                                                    *)

Requested(t, to) == request' = [request EXCEPT ![t] = to]

\* LiveKit does not tell a repeated request from the first; without a running pool it is nothing.
LiveKitDrains(t) ==
  IF Serving THEN draining' = TRUE /\ Requested(t, "begun")
             ELSE Requested(t, "done") /\ UNCHANGED draining

\* Pipecat does, but the flag is looked at and set in two steps.
PipecatLooks(t) == Requested(t, IF draining THEN "done" ELSE "checked") /\ UNCHANGED draining

DrainAsked(t) ==
  /\ Exists /\ request[t] = "none"
  /\ IF OnPipecat THEN PipecatLooks(t) ELSE LiveKitDrains(t)
  /\ UNCHANGED <<registryVars, observerVars, call, roundVars, event, seq, sunk>>

DrainSet(t) ==
  /\ request[t] = "checked"
  /\ draining' = TRUE
  /\ Requested(t, "begun")
  /\ UNCHANGED <<registryVars, observerVars, call, roundVars, event, seq, sunk>>

\* Mutant: the number is read under the lock and advanced with the sink.
NumberEventLate(t) ==
  /\ request[t] = "begun"
  /\ event' = [event EXCEPT ![t] = Len(sunk) + 1]
  /\ seq' = seq + 1
  /\ Requested(t, "numbered")
  /\ UNCHANGED <<registryVars, observerVars, draining, call, roundVars, sunk>>

\* emit(), with the lock held.
NumberEvent(t) ==
  /\ request[t] = "begun"
  /\ event' = [event EXCEPT ![t] = seq + 1]
  /\ seq' = seq + 1
  /\ Requested(t, "numbered")
  /\ UNCHANGED <<registryVars, observerVars, draining, call, roundVars, sunk>>

\* emit(), the lock released; whatever the sink raises is suppressed.
SinkEvent(t) ==
  /\ request[t] = "numbered"
  /\ sunk' = Append(sunk, event[t])
  /\ Requested(t, "done")
  /\ UNCHANGED <<registryVars, observerVars, draining, call, roundVars, event, seq>>

----------------------------------------------------------------------------
PoolNext ==
  \/ Construct
  \/ \E o \in Added : AddObserver(o)
  \/ \E a \in AgentNames : Add(a) \/ RemoveAgent(a)
  \/ \E files \in Directories : Discover(files)
  \/ RunPool
  \/ \E c \in Calls :
       \/ \E wanted \in AgentNames \cup {Anyone} : CallArrives(c, wanted)
       \/ Starts(c) \/ Ends(c)
       \/ TellStart(c) \/ TellEnd(c) \/ CallIsOver(c)
  \/ \E t \in Threads : DrainAsked(t) \/ DrainSet(t) \/ NumberEvent(t) \/ SinkEvent(t)

PoolSpec == PoolInit /\ [][PoolNext]_vars

----------------------------------------------------------------------------
(* Properties.                                                             *)

PoolTypeOK ==
  /\ IsInjective(agents) /\ ToSet(agents) \subseteq AgentNames
  /\ IsInjective(observers)
  /\ \A r \in DOMAIN rows : rows[r] \subseteq Calls
  /\ draining \in BOOLEAN /\ seq \in 0 .. Cardinality(Threads)

(* The live sessions that "openrtc top" shows and that hot reload re-binds *)
(* are the calls of the pool on either backend: a live call whose start    *)
(* has been told is in every registry the pool set up, and one whose end   *)
(* has been told is in none.                                               *)
RegistriesFollowCalls ==
  /\ PoolTypeOK
  /\ \A c \in Calls : call[c] = "live" /\ ~Telling(c) =>
       /\ startAt[c] # 0 /\ endAt[c] = 0 =>
            /\ Inspected => c \in rows[Top]
            /\ options.reload => c \in rows[Reload]
       /\ endAt[c] # 0 => \A r \in DOMAIN rows : c \notin rows[r]

(* No observer is told of the same start or end twice, and none is told of *)
(* a start after the end, however often the frames of a pipeline pass it,  *)
(* and though the list of observers may grow while a round is under way.   *)
HooksArePaired ==
  \A c \in Calls :
    /\ IsInjective(told[c])
    /\ \A i, j \in DOMAIN told[c] :
         told[c][i][1] = "end" /\ told[c][j] = <<"start", told[c][i][2]>> => j < i

(* The audit has no gap and no number twice: what the sink was handed and  *)
(* what threads hold in hand is exactly 1 .. seq; and a worker that drains *)
(* has its drain recorded, or a request is about to record it.             *)
AuditIsWhole ==
  LET inHand == {t \in Threads : request[t] = "numbered"}
  IN  /\ ToSet(sunk) \cup {event[t] : t \in inHand} = 1 .. seq
      /\ Len(sunk) + Cardinality(inHand) = seq
      /\ draining => seq > 0 \/ \E t \in Threads : request[t] = "begun"

----------------------------------------------------------------------------
(* What the code does not do.                                              *)

(* add_observer: "Register a session observer notified for every session   *)
(* in the pool.  Call before run()."                                       *)
AddedBeforeRunIsTold ==
  \A c \in Calls : call[c] = "live" /\ startAt[c] # 0 /\ ~Telling(c) =>
    \A o \in ToSet(observers) : \E i \in DOMAIN told[c] : told[c][i][2] = o

(* The audit event of a drain comes once, however often it is asked for.   *)
DrainAuditedOnce == seq <= 1

(* The sink is handed the events in the order of their numbers.            *)
AuditInOrder == \A i, j \in DOMAIN sunk : i < j => sunk[i] < sunk[j]
=============================================================================

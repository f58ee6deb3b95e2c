# OpenRTC in TLA+

OpenRTC runs many voice agents in one worker process. In its coroutine mode every
LiveKit job is an asyncio task of one event loop; before it, LiveKit gave every job a
process of its own, and the operating system took care of what a session left
behind. These modules specify the code that has taken over that part: the
session tasks and the pool that owns them, what a session tells the gauges, the
observers and the limits, how a job is admitted and routed, how the code of
a running agent is replaced, what is measured meanwhile and told to whom, and how a
worker is put together from a command line and a constructor.

Paths below are relative to `src/src/openrtc/`.

- [The system](#the-system)
- [Modelling conventions](#modelling-conventions)
- [Modules](#modules)
- [Runs](#runs)
- [Where the code and its documentation differ](#where-the-code-and-its-documentation-differ)
- [Proofs](#proofs)
- [Not modelled](#not-modelled)
- [Plan](#plan)

## The system

Everything that matters here runs on one event loop (the exceptions are the
metrics reporter, the CPU sampler and `watchfiles`, which have threads of their
own). So there is no preemption between two `await`s, and every hazard sits at an
`await`: anything else that is ready may run there, and a cancellation may arrive
there.

| component | state it keeps | operations | correct when |
|---|---|---|---|
| **session executor** `runtime/coroutine_runtime.py` `CoroutineJobExecutor` | `_status`, the session task, `_shutdown_fut` | `launch_job`, `_run_entrypoint`, `_teardown`, `join`, `aclose`, `kill` | a session that reached its entrypoint ends with a verdict that never changes, and its end callback starts exactly once, whichever of return, error, hangup and one or more cancellations end it |
| **coroutine pool** same file, `CoroutinePool` | `_executors`, `_started`, `_draining`, the failure streak | `start`, `launch_job`, `drain`, `begin_drain`, `aclose`, the done callbacks, the memory watermark | slots balance; after `aclose` nothing runs; drain and close end; the supervisor fires once per streak |
| **agent server** `runtime/coroutine_server.py` | the pool, its own drain loop (livekit-agents) | supervisor and memory callbacks, which schedule `aclose` | SIGTERM ends the worker within its window (it may not, see below) |
| **session wiring** `core/wiring.py` | `_openrtc_session_finish` on the context, gauges in `observability/metrics.py` | `run_session`, `run_session_end`, `_finish_session` | the gauges count the calls that are up; every counted call is reported finished once, with the right outcome |
| **observers** `observability/base_observer.py` | none | a round of start hooks, a round of end hooks, each with a timeout | one faulty observer costs neither the call nor the others, unless a cancellation is let through |
| **circuit breaker** `core/circuit_breaker.py` | outcome window and `_open_until`, per tenant | `record_outcome`, `should_reject` | locks out a tenant for enough of its own failures, and nobody else |
| **routing and request filters** `routing/` | none | resolve the agent and the tenant, own a room, caps | the filter that accepts a job and the resolver that runs it agree |
| **file watcher** `runtime/file_watcher.py` | watched paths, pending changes, two tasks | `start`, `stop`, `refresh_paths`, batches, debounce | no change is stranded, no refresh lost, quiet after `stop` |
| **hot reload** `reload/` | the agents' classes, live sessions, pins | coordinator, re-bind, pin | the pool runs what the files say; a bad save changes nothing and holds up no other file; a pinned session is left alone |
| **metrics, reporter** `observability/metrics.py`, `cli/reporter_cli.py` | gauges, a bounded event stream | record, drain | nothing is counted twice or lost silently |
| **introspection** `observability/introspection*.py` and samplers | running samplers, a socket, the task factory, the sampling thread's counts | `start`, `aclose`, `snapshot`, samples | a closed stack leaves nothing behind; a report is sound though a thread writes while it reads |
| **agent pool** `core/pool.py`, `core/audit.py` | registrations, observers, audit sequence | constructor, `add`, `discover`, `remove`, `add_observer`, `run`, `begin_drain`, filter stack | its registries hold the live calls, the audit has no gap |
| **Pipecat backend** `backends/pipecat/` | registered builders, a copy of the observers, calls | wire, serve, dispatch, drain, start/end hooks | each hook once, the end last |
| **options of a session** `core/turn_handling.py`, `core/tenant_config.py`, `core/config.py`, `core/serialization.py` | a cache of tenants | merge, look up, serialize | what was given arrives, at the session it is meant for |
| **command line** `cli/` | `sys.argv` and the environment, for the time of a run | inject, parse, strip, hand over; `top`'s keys and pages | LiveKit's program finds what is its own; each session is on one page |
| **snapshots** `observability/snapshot.py`, `resident_set.py`, `savings.py` | none | reading `/proc`, arithmetic on one reading | pure; left to the tests |

How they interact: LiveKit's server offers a job, the *filters* (circuit breaker,
tenant cap, agent cap, base filter, outermost first) accept or reject it; later
the server calls `CoroutinePool.launch_job`, whose executor runs
`run_session` as its entrypoint; it resolves the agent, raises the gauges, starts
the LiveKit session, calls the observers (of which the reload registry is one)
and returns, while the call stays up until the caller hangs up. When
the task ends, `run_session_end` reports the outcome to the observers, the
gauges and the breaker; the done callback of the task gives the slot back and
feeds the supervisor, which may close the worker. What the gauges record goes through a
bounded buffer to the reporter's thread and into a file; the live sessions are listed,
with what the samplers know of them, to whoever connects to the worker's socket.
Beside all that the file
watcher hands saved files to the reload coordinator, which changes the classes the next
session is built from and the sessions that are live.

The hard behaviours, each with the line where it bites, are the `hazards` of
`PROJECT.json`. They are of five kinds: a cancellation that arrives at an
inconvenient `await` (or is swallowed there); a check made at one time and
used at another (filter and session start, agent built and session registered);
something that must be done exactly once along several paths; a close,
drain or stop that must end, whatever it races with; and two readings of one
signal that must agree.

## Modelling conventions

*A step is the code between two suspension points.* `Task.cancel()` only marks a
task; the `CancelledError` is raised by its next step. So `cancel` is a
variable, and delivering a cancellation is an action of its own, with
everything else the loop may run in between. Done callbacks run in the
order asyncio runs them, in one step where nothing can come between.

*User code is a choice.* An entrypoint, a shutdown callback, a hook or a handler may
return, raise or swallow a cancellation (bounded by `MaxAbsorb` or `MaxCancels`), and
take as long as it likes. Where it has a timeout in the code, its end is fair; where
it has none, it is not.

*History variables* (marked "history" in every VARIABLES) record what
happened, for the properties; no action's guard reads one but as a bound.

*Mutants.* Operators marked "Mutant" are faulty variants of the operator that
follows them: what a plausible mistake in that code would be. No specification uses
them; each is there to show that a property can tell the difference.

## Modules

| module | models | composed of |
|---|---|---|
| `WorkerSlots` | abstract: what a worker promises the dispatcher about slots | |
| `CoroutinePool` | executor, pool, supervisor, scheduled close | implements `WorkerSlots` |
| `ServerDrain` | livekit-agents' drain loop over the pool | extends `CoroutinePool` |
| `CoroutinePool_proofs` | theorems about both | extends `ServerDrain` |
| `SessionLifecycle` | `run_session`, `run_session_end`, observer rounds, gauge | steps are steps of a `CoroutinePool` entrypoint |
| `SessionLifecycle_proofs` | theorems about it | extends `SessionLifecycle` |
| `CircuitBreaker` | the breaker against a clock | |
| `Routing` | agent and tenant of a job, read twice, as operators | |
| `Admission` | the filter stack, session start and end, breaker, supervisor | extends `Routing`, `CircuitBreaker` |
| `Admission_proofs` | theorems about it, the breaker and the two readings of an agent | extends `Admission`, `InputsCheck`, `SequenceLemmas` |
| `FileWatcher` | watch loop, debounce tasks, stop, refresh | |
| `HotReload` | editors, coordinator, re-bind, pins, sessions | extends `FileWatcher` |
| `HotReload_proofs` | theorems about it and the watcher | extends `HotReload` |
| `MetricsStream` | the gauges' events, the reporter's thread, its stop, the file | |
| `MetricsStream_proofs` | theorems about it | extends `MetricsStream`, `SequenceLemmas` |
| `SessionSampling` | sampling thread, samplers and reports of `openrtc top` | |
| `IntrospectionStack` | start, close and kill of the stack on one socket path; the memory watermark | |
| `Introspection_proofs` | theorems about both, the pages of `top` and the handoff of a command line | extends `SessionSampling`, `IntrospectionStack`, `InputsCheck`, `SequenceLemmas` |
| `AgentPool` | constructor, registry, observers, calls of either backend, drain and audit | |
| `AgentPool_proofs` | theorems about it, registrations on their way to a job process, and the options of sessions | extends `AgentPool`, `InputsCheck`, `SequenceLemmas` |
| `SequenceLemmas` | facts about sequences, naturals and recursive functions that several proofs need | |
| `CommandLine` | a command line, its options and environment up to LiveKit's program, as operators | |
| `TopView` | keys, order and pages of `openrtc top`, as operators | |
| `SessionOptions` | turn handling, tenants' providers, serialization, as operators | |
| `InputsCheck` | the stateless parts against what they are meant to do, one input a state | extends `Routing`, `CommandLine`, `TopView`, `SessionOptions` |
| `MC*` | constant values and symmetry sets for TLC | |

`PROJECT.json` "map" gives, for each definition, the lines it stands for.

**CoroutinePool.** `pc[j]` is where job `j`'s task is suspended: *scheduled*, in the
*entry*point, *held* at `await shutdown_fut`, in *teardown*, in session *end*ing; then
*finished* (the task is done, its callbacks not run) and *closed*; or *refused*.
`DoneCallback` is the pool's done callback followed by every
`executor.aclose()` that awaited the task, which is the order they were added in and
matters: the slot is released and the status observed *before* `aclose` settles it.
`closePc` walks through `CoroutinePool.aclose`: the await of the introspection stack,
the snapshot of `_executors`, the gather, and the close timeout, which
cancels once more and goes on waiting, since `wait_for` does. `aclosing` tells the
executor's `aclose` by its caller: the pool, or the server ending one job.
`WorkerSlots` is the abstraction: an executor in the list is a held slot, and
the door is shut by draining or closing.

**ServerDrain** adds the loop of `AgentServer.drain`, which this repository does
not contain but documents, and which joins one executor after another
under a timeout. `join()` returns without suspending when the task is done and awaits the task
otherwise. So the loop goes in one step to the next session that is not finished (`JoinNext`);
it wakes behind the done callback of the session it awaited (`JoinReturns`), and when all that is still
listed has finished it never suspends again (`Starved`: nothing else on the loop runs). `ready` keeps done
callbacks in the order they were queued. `join()` also swallows `CancelledError`, so the timeout's
cancellation lands in a session.

**SessionLifecycle** opens up the *entry* and *ending* states of the pool: starting, the
round of start hooks, greeting, the end reported inline (an error, or a simulated
job) or deferred to the real end of the call. `hook[s]` is the observer
being called, and `cut[s]` what raised the `CancelledError` that ended a round of end hooks: a
cancellation of the session, the timeout of `session_end`, or a hook whose own error was taken for an
earlier cancellation. `TaskSteps` is the refinement: each step of a session is a step
`CoroutinePool` allows the task it models, under `TaskPc`.

**CircuitBreaker, Routing, Admission.** Time is a counter of ticks of which
several events may share one. A job in `Routing` is what the two readings
distinguish: which keys its job and room metadata hold, which room prefixes fit,
and what the custom router would answer. `Admission` follows a job through *offered,
screened, accepted, running, over*. The three upper filters do not
suspend, so they are one step; the gauges only rise when the session starts.

**FileWatcher, HotReload.** A change is a path and a kind, the buffer a set of
them; the debounce time is not counted. In `HotReload` a class *is* the version of
its file that it was loaded from, or the one the file imports under its name (`Elsewhere`, the same each
time), so "the session runs the current code" is an equation. The coordinator does not suspend, so a reload
is one step (`FlushReloads`) over the agents of the batch. A file that does not import keeps its class;
one on which the reloader itself raises (no UTF-8, or a NUL byte before Python 3.12) ends the batch, whose order is
not fixed. Every session that is reached may fail to re-bind, and one whose `current_agent` raises
ends the pass and with it the batch (`Aborted`). `cutOff` and `stranded` remember whom that left out.

**MetricsStream.** Three actors: the event loop records, the reporter's thread takes a
snapshot and drains on its interval, and the main thread stops it, gives up waiting after
the join's timeout, emits a last time and closes the sink. Each lock is held for one step;
what a thread has drained and not yet written is in its `hands`. A write may fail
(`MaxFaults`), which ends the thread, or makes `stop()` raise.

**SessionSampling, IntrospectionStack.** The sampling thread is cut where another thread
may come in: between the read of a count and its store, and at each row of a report. A
report replaces the dictionary of counts, so a store may go to one nobody reads any more,
or fail the report by adding a key. The stack's `start` and `aclose` are cut at
their awaits, two workers share one socket path, and either may be killed.

**AgentPool.** One constructor for both backends and isolations, with every way it may
refuse; `Construct` keeps the order of its steps, because the Pipecat backend copies the list of
observers in the middle of it. A call tells one observer at a time, `startAt` and `endAt` being the
place in the list. `Serial` says that Pipecat hands its observers one frame at a time.

**CommandLine, TopView, SessionOptions, InputsCheck.** Operators without state; `InputsCheck`
has one state for each input. A token of a command line is a flag, a flag with its value
attached, a word or `--`. An option has a place its value came from instead of a value.
A plugin has a class (its parameters, those it requires, the attributes of its `_opts`) and the arguments
it was given; what travels is what `_opts` holds, and the class is called with that, or raises `TypeError`.
A job has the executor, the remote endpoint and the factory that decide the default turn detector, which
may be none.

## Runs

`tlc -config X.cfg M` in this directory; `PROJECT.json` names the module of
each. A "pass" run ends without an error, a "violation" run exhibits a sentence of the
documentation that the code does not keep (see the next section).

| run | specification | what it shows |
|---|---|---|
| `pool` | `FairSpec`, 2 jobs | slot accounting, `session_end_fnc` exactly once, settled and final verdicts, the supervisor once per streak, a quiet pool after close, `WorkerSlots` implemented; a close, also one that a trip asks for, ends although a session swallows a cancellation; `drain()` ends, and behind a shut door the slots empty, unless a call goes on for ever |
| `server_drain` | violation | *if calls end*, the SIGTERM loop ends |
| `server_drain_window` | violation | the loop ends within its window |
| `lifecycle` | `FairSpec`, 2 sessions, 2 observers, 2 cancellations each | every step is one of the pool's task; the gauge counts the calls that are up; finished exactly once; the end reaches every observer unless a cancellation or the timeout of `session_end` leaves a hook, so a hook that raises or hangs costs the others nothing; a hangup is reported unless code without a timeout never returns |
| `inputs` | `InputsSpec`, all inputs of seven kinds | filter and resolver agree; LiveKit's program is handed what is its own and every option arrives; each row is on one page; turn options, in the mapping or else in the older style, and tenants' providers arrive, and registrations exactly when plugins keep their arguments in `_opts` |
| `admission` | `AdmissionSpec`, 3 jobs | caps are soft by at most the burst; lockouts are earned by the tenant they name, notices alternate; a locked-out tenant admits nobody, and its calls still drain |
| `watcher` | `FairWatcherSpec`, 2 paths | nothing stranded, a refresh takes effect, quiet after stop |
| `reload` | `ReloadSpec`, 2 files, 2 agents, 2 sessions of one | no live session missed without a reason, a settled pool is current but for a file called deleted or an aborted batch, a session is swapped only for an edit of its own file and never while pinned |
| `metrics` | `MetricsFairSpec`, 2 sessions, 1 failing write | every event in one place or counted as refused; the file in order, with the refused counted where they are missing; snapshots agree with the events around them; `stop()` ends |
| `introspection` | `MCSpec`: sampling or stack | the cpu and memory of rows are sound; a worker closed after it was up leaves nothing; one warning per crossing |
| `agent_pool` | `PoolSpec`, 2 calls, 2 drains | between rounds of hooks the registries hold the live calls on either backend; hooks once, the end last; the audit whole |
| `cli_isolation` | violation | LiveKit's program finds none of OpenRTC's flags |

### Bounds

- *Pool*: two jobs let every pair of steps of two sessions interleave, and a session
  race the pool; nothing in the code relates three sessions but the failure streak.
  With `FailureLimit` 1 and two jobs a streak can be completed, go on, or be
  interrupted; that a later streak fires again takes three jobs and is left to the proof, which
  needs no bound. `Terminable` bounds the jobs the server ends one by one,
  `Stray` the sessions whose teardown raises a `CancelledError` of its own. `MaxAbsorb`
  1 is the most a close copes with; with 2 it does not (below).
- *Lifecycle*: two sessions share the gauge, one simulated and one real; two
  observers give a first and a last; two cancellations of each reach both of the
  code's handlers (the entrypoint's, the end's).
- *Inputs*: registries of at most two agents out of two names; shapes with both keys of
  one metadata object filled are left out (the first wins in the one function
  both readings share). Command lines of four items out of eleven, which put every kind of token
  before and after every other; tables of three rows in pages of any size; three sessions of
  two tenants, whose answers may change between them. Plugins differ in what their class takes, requires and
  keeps in `_opts`; jobs in the executor, the endpoint and what the factory makes, nothing included. Of a page
  only an argument of `paginate` is checked: no command passes one yet.
- *Admission*: three jobs overshoot a cap of one by two, and fill a breaker of two samples
  with one to spare; a window and a cooldown of one tick on a clock of three show
  expiry, reopening and recovery. A cancellation that reaches a session after a trip is not
  followed further.
- *Watcher, Reload*: two batches are needed for the cancelled debounce and two refreshes for
  the lost one. `MaxEdits` bounds the saves of all files together: two are a good save after
  a bad or a half-finished one, two saves of one file inside a debounce, or one of each file, of which one
  may abort the batch. Two sessions of one agent are one that ends a pass and one behind it; the agent of the
  other file has none, since what keeps a session from an edit of another file is that file alone.
  `MaxPins` 1 is one block at a time; with 2, see below.
- *Metrics*: a buffer of two is full while a third event is recorded; two cycles of the thread
  and the last emit write an overflow row between two drains. One failing write can end either
  thread.
- *Introspection*: two sessions dispute the samples, two samples and two reports reach a store that
  crosses a report; two workers dispute the path; four readings of memory are a crossing, a return
  and a second crossing with a reading between.
- *Agent pool*: one observer given and one added later; two calls route differently and overlap; two
  threads are enough for a second number before the first is sunk.

### Fairness

`LoopFairness` is what asyncio promises: a task that is ready runs, a done
callback runs, a timer fires. Besides it assumes that `setup_fnc` and
`session_end_fnc` end, both of which have a timeout, and that
`close_timeout` is positive. It assumes nothing about calls: `CloseCompletes` holds without, and
`DrainCompletes` and `HangupIsReported` say themselves whom they wait for (some entrypoint or teardown goes
on for ever; LiveKit's `start()`, the greeting or a shutdown callback never comes back). Only
`ServerCallsEndSpec` adds that every call ends (`ServedCallsEnd`), so that the counterexample of `server_drain` owes
nothing to a call that goes on. In `SessionLifecycle`, hooks
end because each has its timeout. In `FileWatcher` the loop runs
ready tasks and `on_change` returns; batches that never cease could
postpone the debounce for ever, which the bound on batches excludes, so nothing is
claimed about that. In `MetricsStream` the main thread goes on, and the wait for the
reporter's thread has its timeout; of the reporter's thread no more is assumed than that a write
under the sink's lock returns or fails.

Deadlock is checked where the system has an explicit end state (`Exited` in the pool, `Over` in
the lifecycle) and switched off where jobs, batches or edits simply run out.

## Where the code and its documentation differ

Three differences are checked as runs; the quotations are in `PROJECT.json` "findings".

| run | documentation | code |
|---|---|---|
| `server_drain` | SIGTERM drains: "stop accepting, await in-flight, exit within `drain_timeout`" | of two sessions that finish in one iteration of the loop, the drain wakes behind the first and joins the second again and again without suspending, so that session is never reaped and no timeout fires |
| `server_drain_window` | the drain window is bounded by `drain_timeout` | `join()` swallows the timeout's cancellation and the loop joins the next session |
| `cli_isolation` | OpenRTC-only flags are stripped from the line LiveKit parses | `--isolation` and `--max-concurrent-sessions` are declared by the worker commands and missing from the strip list |

### Further counterexamples

Behaviour a maintainer should know of, to be reproduced with `tlc -config <cfg> <module>`. They are
not among the checked runs; each ends with a counterexample to the property named. These need
constants of their own:

| configuration, module | property | what happens |
|---|---|---|
| `PoolCloseStubborn`, `MCCoroutinePool` | `CloseCompletes` | `wait_for` waits for the cancelled gather before `kill()` is reached; a session that swallows two cancellations holds the close |
| `BreakerFresh`, `MCCircuitBreaker` | `FreshAfterRecovery` | outcomes are recorded while open, so the window after a recovery is not fresh |
| `AdmissionRouter`, `MCAdmission` | `SoftCaps` | the per-agent cap does not ask the custom router |
| `AdmissionNoisy`, `MCAdmission` | `NoisyTenantSparesWorker` | supervisor and breaker default to the same threshold, so one tenant's failures may close the worker |
| `ReloadNested`, `MCHotReload` | `PinHolds` | the exit of an inner pinned block unpins the outer one |
| `LifecycleHooks`, `MCSessionLifecycle` | `OwnCancellationIsIsolated` | `cancelling()` stays above zero once a cancellation was swallowed, so a `CancelledError` that a hook raises by itself ends the round |
| `ReloadAborts`, `MCHotReload` | `SavedIsCurrent` | a file that cannot be read as UTF-8 raises out of the reloader and ends the batch; a good save of another file in it is not loaded, and nothing is left to handle |

The others are found by putting the property in the place of those of the run's configuration, as
an INVARIANT or, where marked, a PROPERTY:

| configuration, module | property | what happens |
|---|---|---|
| `Pool`, `MCCoroutinePool` | `ClosedWithVerdict` | cancelled in teardown, a session is still RUNNING when `process_closed` is emitted |
| `ServerDrain`, `MCServerDrain` | `ReapedIsSettled` | the cancellation of `drain_timeout` has no `aclose()` behind it; a session it catches in teardown is reaped and reported RUNNING |
| `Lifecycle`, `MCSessionLifecycle` | `SuccessIsTheVerdict` | the outcome of a held call is fixed when the entrypoint returns, though an outcome is documented as how the session ended |
| `Inputs`, `MCInputs` | `ForeignNameIsNotOurs` | metadata that names an unregistered agent is passed over, and a prefix may still match |
| | `TenantSeenAlike` | padding is stripped by one reading of the tenant and not by the other |
| | `RegisteredShips` | "Registration data is spawn-safe": neither the keyword arguments nor the options inside a plugin are tried when an agent is registered |
| | `ProvidersRoundTrip` | "Provider objects already round-trip": an argument that a plugin does not keep in `_opts` is lost, and an attribute of `_opts` that is no parameter is a `TypeError` in the job process |
| | `OlderOptionsAreHeard` | older turn options given beside a mapping are dropped |
| | `IsolationFromEnvironment` | `connect` runs a worker and reads neither `OPENRTC_ISOLATION` nor `OPENRTC_MAX_CONCURRENT_SESSIONS` |
| `Watcher`, `MCFileWatcher` | `HandlerIsNotCut` (PROPERTY) | a batch that arrives during `on_change` cancels it |
| `Reload`, `MCHotReload` | `OnlyOldClassIsRebound` (PROPERTY) | a session that handed over to another agent is re-bound to the class of the agent it started with |
| | `SavedIsCurrent` | a deletion anywhere in the debounce window wins over a later save |
| | `NoneIsCutOff` | a session whose `current_agent` raises ends the pass for those behind it |
| | `EveryLiveSessionSwaps` | a session that has its agent and is not registered yet is missed |
| `Metrics`, `MCMetricsStream` | `ClosedFileIsWhole` | `stop()` gives up on a thread that is late with what it drained, and closes the sink without it |
| `Introspection`, `MCIntrospection` | `SharesAddUp` | a sample taken between two rows of a report is in the share of the second and not in the total of the first |
| | `MarksAreOfLiveSessions` | the block is charged to the session that ran last, also when it has ended |
| | `ClosedEarlyIsGone` | a close before `start()` returned finds `_running` unset and leaves the thread, the tasks, the factory and the socket |
| | `RunningWorkerIsFound` | a closing worker unlinks the socket of one that runs |
| `AgentPool`, `MCAgentPool` | `AddedBeforeRunIsTold` | an observer added before `run()` is not in the copy the Pipecat backend took in the constructor |
| | `DrainAuditedOnce` | every `begin_drain()` answers true and is audited |
| | `AuditInOrder` | the sink is called after the lock is released |

Two timeouts bound an end hook, its own and that of `session_end`, which is over the whole round: a round of hooks that
are each slow and each in time may be cut by the second. `EndReachesEveryObserver` names that as
a cause (`cut` is "timeout") rather than excluding it.

One more needs no run: `CoroutinePool.draining` is documented as true once `aclose()` has
started, but only `drain` and `begin_drain` set it.

## Proofs

Eight modules hold theorems, checked with `tlapm M.tla`: one for each component that has state, which
also hold those about the stateless parts, and `SequenceLemmas`. They hold for every value of the constants under the assumption the
component's module names, of which most only say that a constant has its type. The others: a
session's agent is not called "none" (`LifecycleConstants`), names that mark a special case are no
agent, tenant, session, worker or observer; threads, observers to add and sampled sessions are finitely many, and
no observer is given twice (`AgentPoolAssumption`); readings of memory divide by any number of sessions, which
scales a unit and saves the fractions (`SamplingAssumption`). Jobs, sessions, calls, agents and
tenants may be infinitely many where nothing is said. TLC evaluates every assumption.

An invariant that is not inductive is strengthened; the argument names what had to be added, and
why the property alone does not survive a step. Where a theorem
has a hypothesis of its own, it is what the code needs, and a counterexample without it is named.

**`CoroutinePool_proofs`**

| theorem | argument |
|---|---|
| `TypeCorrect` | inductive as it stands |
| `SlotsBalance` | inductive given the type invariant; `SlotSteps` reduces `Next` to the three kinds of step that touch the list |
| `VerdictsAreFinal` | every assignment of `status` goes through `Settle` |
| `EndStartsOnce` | strengthened by `BodyReached`: which `pc` means that the try block was reached |
| `ReapedSessionsAreSettled` | strengthened by `CancelHasOwner`: a task with a cancellation in it, or one that left teardown RUNNING, has an `aclose()` awaiting it; this is why a RUNNING status cannot survive the reaping |
| `ClosedPoolStaysQuiet` | `SnapshotCovers`: after the snapshot no executor outside it can appear, because `_started` is false, and every one in it has its `aclose()`; `AclosesAreCurrent` (an `aclose()` has returned only when its task is over) makes a finished gather an empty pool. `PoolClosesOnce` is the lemma that the pool is never started again |
| `PoolImplementsSlots` | initial states map to initial states; `SlotSteps` and `DoorSteps` map each step to a step of `WorkerSlots` or a stutter |
| `SupervisorFiresOncePerRun` | strengthened by `RunIsCounted`: the counter is the length of the failing suffix of `outcomes`, and the flag says whether that suffix has reached the limit |
| `ServerDrainKeepsThePool`, `ServerDrainKeepsVerdicts`, `ServerDrainImplementsSlots` | of `ServerSpec`: a step of it is a step of the pool, for which the step lemmas above serve again, or `DrainTimesOut`, which writes one cancellation. `PoolInv` gathers what does not ask who cancels; `CancelHasOwner` is left out, and `ClosedPoolIsQuiet` turns out not to need it |
| `SettledUntilDrainTimesOut` | `SettleInv`, which does ask, kept as long as `timedOut` is FALSE. Without that hypothesis it fails: see the counterexample to `ReapedIsSettled` |

**`SessionLifecycle_proofs`**

| theorem | argument |
|---|---|
| `LifecycleStaysSound` | types, and for each phase whether the body was entered, the agent resolved, the status settled and the outcome left on the context (`SessionShape`); inductive, one session at a time |
| `GaugeIsExact` | the gauge of an agent is the cardinality of its live calls (`GaugeInv`); a step moves one session into or out of that set, or none |
| `FinishedOnce`, `EndReachesAll` | `ReportsInv`: the reports are those of the finished sessions, and a round of end hooks that no `CancelledError` left is whole (`RoundsAreWhole`); that a round was left only in a session with a cancellation or a timeout behind it is in `SessionShape` |
| `LifecycleIsATask` | each action maps to a step of the pool's task or a stutter under `TaskPc`; the shape of a session supplies the guard of the pool's step |

**`Admission_proofs`** (with the breaker, and the routing of `InputsCheck`)

| theorem | argument |
|---|---|
| `AdmissionTypeCorrect`, `AdmissionStaysSound` | the gauges count exactly the running sessions, each of which has its agent and its tenant; without that a decrement could miss the key it was added to |
| `NoticesInTurn` | inductive given the types |
| `LockoutsAreEarned` | `WindowIsTheEnd`: the window is the end of all that has ended, cut off only by age. Counting the failures in it counts failures that happened |
| `FilterAgreesWithResolver` | by the cases of the resolver, for a registry of any length |
| `CapsAreSoft` | supposes `NoRouter` and `NoPadding`, for jobs read alike by filter and session. `CapsHold` bounds the sessions under way by the cap and the largest burst. With a router: `AdmissionRouter`; with padding: `TenantSeenAlike` |
| `LockedOutDrains` | supposes `NoPadding`. `FailuresAreSessions` ties what the breaker was told to failed sessions of the same tenant |

**`HotReload_proofs`** (with the watcher)

| theorem | argument |
|---|---|
| `PendingIsFlushed`, `StopIsQuiet` | `BufferInv`: beside the property itself, what `stop()` has done at each of its places; at its end the buffer is empty and stays so |
| `NoSessionIsMissed` | `ExcusedInv`: a session that lags behind its agent was excused by the reload that passed it by, also while it is being built, or cut off from it. `FlushOutcome` says what a flush does session by session |
| `SettledAgentsAreCurrent` | `HeraldInv`: a file newer than its agent has a change on the way, not yet seen or in the buffer, was last called deleted, or was left out by the last batch it was in |
| `SiblingsStay` | from the types and the step alone |
| `OnlyCalledForSwaps` | supposes `MaxPins <= 1`: `PinInv`, a session inside a block is in one block, and in the set of the pinned. `ReloadNested` shows what an inner block does |

**`Introspection_proofs`** (with the pages of `TopView` and the lines of `CommandLine`)

| theorem | argument |
|---|---|
| `TopIsSound` | `SamplingInv`: no session has more samples than the total, the one the thread has read and not stored included, whatever a report does to the dictionary in between |
| `ClosedIsGone` | what each place of `start()` and `aclose()` has up (`WorkerShape`), worker by worker |
| `OneWarningPerCrossing` | `WarnInv`: the flag is set while a warning reading has had no low one after it, and the warnings are as many as the crossings so far; a reading adds at most one crossing, and never to a set flag |
| `EachRowIsOnOnePage` | division with remainder: the slots of a page are the numbers between two multiples of its size (`PageHolds`), and rounding up gives enough pages and none too many (`PagesAreEnough`) |
| `PagesShowTheTable`, `EveryPageShowsTheTable` | a row's rank is the number of rows that come before it; the order is total (`OrderIsTotal`), so the ranks are the numbers of the table, which is sorted (`TableIsSorted`); consecutive cuts of a sequence put together are the sequence (`CutsFlatten`). The second is the first for the pages the model starts from |
| `EveryHandoffIsClean` | the leading paths of a line become options, so the line has the items of one without paths (`InjectItems`). Its tokens are stripped one by one; after every item the strip is between options again, unless "--" closed the line (`StripItem`, `StripItems`). An option arrives by the place it goes to (`OptionsArrive`; `--no-watch` is not among them, since it decides only `HotReloads`). Supposes that each item is one the strip list has or one that is LiveKit's own: `InputsIsolation` shows the counterexample, an option that the strip list lacks |

**`AgentPool_proofs`** (with `SessionOptions`)

| theorem | argument |
|---|---|
| `AuditHasNoGap` | `AuditInv`: numbers given and not yet written are in the hands of one thread each |
| `HooksComeInPairs`, `RegistriesHoldTheCalls` | suppose `Serial`, Pipecat's frames one at a time: `RoundInv` says how far a round has come in the list and who has been told, `RegistryInv` what the registries hold of it. With `Serial` FALSE in `AgentPool.cfg`, `HooksArePaired` is violated |
| `RegistrationsArrive` | by the kinds of a value (`ValuesArrive`): a plugin comes back equal if and only if `_opts` has the arguments that were given and no attribute beside them |
| `SessionsGetTheirOptions`, `EveryInputSurvives` | of a job with any executor, endpoint and factory; turn handlings are compared by what they say, name by name: what a merge says (`MergeSays`), what the older options say once renamed (`FromDeprecatedSays`) and what they mean (`OlderOptionsMeant`), what the defaults add (`OverDefaultsSays`). Of a tenant, the cache holds the answer of the first session it was asked for (`CacheKeepsFirst`), by induction over the sessions. The second theorem is the first for what the model starts from |

**`MetricsStream_proofs`**

| theorem | argument |
|---|---|
| `StreamStaysSound` | what the hands of a thread may hold at each place, who may hold the lock, and that a buffer that has refused an event stays full until it is drained |
| `EventsStayAccounted` | `Accounted`: the pipeline's lines weigh as much as was recorded, no event is in it twice, and the counters bound its lines from both sides. A step is a record, a snapshot, a drain, a write, or leaves the lines alone (`RecordingSteps`, `OtherSteps`), and each preserves a weight or adds to it at one place |
| `StreamStaysWhole` | `InOrder`, while stop() was in time and no write failed: of the threads only one has lines in its hands, which follow the file, and the buffer follows both |
| `SnapshotsStayReconciled` | the same invariant: each snapshot in it lies between what the lines before it tell and what the lines up to the next cover |

Sums over a sequence would need induction over data. They are the cardinality of a set of pairs instead
(`Upto` in `MetricsStream`, `Weigh` and `Total` in `SequenceLemmas`), so that the theorems about finite sets of
the library give what a concatenation or an append does to them.

What a recursion computes for every input does need induction, and the library's induction theorems
take an operator, which the provers cannot instantiate. `SequenceLemmas` has one that takes a set
instead (`InductionOnNat`: a set of naturals with 0 and every successor is all of them), and from it what
a recursive function is up to its bound (`RecursionUpTo`) and what flattening pieces gives
(`FlattenSteps`, `CutsFlatten`). That is why `Strip` is a recursive function rather than a fold, and why the
handoff is stated with `FlattenSeq`.

Only model-checked: liveness (`CloseCompletes`, `DrainCompletes`, `HangupIsReported`,
`RefreshTakesEffect`, `StopReturns`), since the prover does neither fairness nor ENABLED. Every other
property of a passing run is the subject of a theorem.

## Not modelled

- *Snapshots and the savings estimate*: reads of `/proc` and arithmetic on one reading.
- *Terminal output*: the dashboard, the tables of `list` and `top`, `logs`; the scoping of log
  records to a session, and the statistics in the header of `top`.
- *Loading*: the execution of a user's module and the reference to an agent's class that a job
  process resolves; prewarm, whose resources are LiveKit's; the building of a Pipecat pipeline.
- *Pickling of a pool, membership records, `current_load`*: one expression each over state that is modelled.
- *livekit-agents*: only what the repository calls or documents of it.
- Within the modules: the set-up hook patched into an executor is taken not to raise;
  `start()` is called once; the registry of agents does not change while jobs are
  admitted; two agents of one file are given the class of one execution of it; a debounce
  task cancelled inside `on_change` ends in that step; a `SystemExit` that an edited module raises
  is caught nowhere, and asyncio raises it out of the event loop: with the worker gone, nothing is left to specify;
  what `watchfiles` does on a
  path that does not exist is a crash or nothing.

## Plan

Written, in this order, because each rests on the one before:

1. `WorkerSlots`, `CoroutinePool`, `ServerDrain`, and `CoroutinePool_proofs`.
2. `SessionLifecycle`, a refinement of the pool's task.
3. `Routing`, `CircuitBreaker`, and `Admission` over both.
4. `FileWatcher`, and `HotReload` over it.
5. `MetricsStream`, `SessionSampling`, `IntrospectionStack`, `AgentPool`.
6. `CommandLine`, `TopView`, `SessionOptions`, and `InputsCheck` over them and `Routing`.
7. `SequenceLemmas`, and the proofs about the lifecycle, admission, reload, introspection, the
   agent pool and the metrics stream; last, those about the parts that compute over a sequence: the
   pages of `top`, the command line, the turn options and the tenants' providers.

Left: the parts listed under "Not modelled", and liveness, which stays with TLC.

The runs are kept few, each with its own question; a difference that has been fixed or
documented needs no run.

---------------------------- MODULE FileWatcher ----------------------------
(***************************************************************************)
(* runtime/file_watcher.py: a background task consumes watchfiles.awatch   *)
(* and buffers the changes; a debounce task, started anew for every batch, *)
(* hands what was collected to on_change.  refresh_paths replaces the      *)
(* watched paths while running, stop() tears both tasks down.              *)
(*                                                                         *)
(* A change is a path with a kind.  The buffer is a set: collapsing reads  *)
(* which kinds a path has, in no order.  The debounce time is not          *)
(* counted; the flush comes at any time after the batch.                   *)
(***************************************************************************)
EXTENDS Naturals, FiniteSets

CONSTANTS
  Paths,
  AutoDiscover,  \* whether the paths were discovered, so that they may be refreshed
  MaxBatches,    \* bound on the batches awatch yields
  MaxRefreshes   \* bound on the calls of refresh_paths

ASSUME WatcherConstants == AutoDiscover \in BOOLEAN /\ MaxBatches \in Nat /\ MaxRefreshes \in Nat

Kinds   == {"created", "modified", "deleted"}
Changes == Paths \X Kinds

VARIABLES
  watcher,   \* _state
  loop,      \* _watch_task: none, watching (in awatch), between (two awatch), ended, crashed
  paths,     \* _paths
  watched,   \* the paths of the current awatch
  restart,   \* _restart_event
  pending,   \* _pending
  flush,     \* the last debounce task: none (or done), sleeping, or in on_change
  stopPc,    \* stop(): idle, cancelling the flush, cancelling the watch, done
  batches, refreshes

watcherVars == <<watcher, loop, paths, watched, restart, pending, flush, stopPc, batches, refreshes>>

\* _collapse_changes
Collapsed(changes) ==
  [p \in {c[1] : c \in changes} |->
     IF <<p, "deleted">> \in changes THEN "deleted"
     ELSE IF <<p, "created">> \in changes THEN "created" ELSE "modified"]

Start ==
  /\ watcher = "new"
  /\ watcher' = "running"
  /\ loop' = "watching"
  /\ watched' = paths
  /\ restart' = FALSE
  /\ UNCHANGED <<paths, pending, flush, stopPc, batches, refreshes>>

(* _discover_user_modules may find anything that was imported meanwhile.   *)
(* Before start() there is no event to set.                                *)
RefreshPaths ==
  /\ AutoDiscover /\ refreshes < MaxRefreshes
  /\ \E found \in SUBSET Paths : paths' = found
  /\ restart' = (restart \/ (watcher = "running"))
  /\ refreshes' = refreshes + 1
  /\ UNCHANGED <<watcher, loop, watched, pending, flush, stopPc, batches>>

\* Mutant: a batch that comes during on_change starts no debounce task of its own.
HandleBatchWhenFree(changes) ==
  /\ pending' = pending \cup changes
  /\ flush' = IF flush = "handling" THEN "handling" ELSE "sleeping"

(* _handle_change_batch: the debounce task is cancelled, also while it is  *)
(* in on_change, and a new one sleeps.                                     *)
HandleBatch(changes) ==
  /\ pending' = pending \cup changes
  /\ flush' = "sleeping"

\* awatch yields; the cancellation by stop() ends it at the next resumption.
AwatchYields ==
  /\ loop = "watching" /\ stopPc \in {"idle", "flush"}
  /\ batches < MaxBatches
  /\ \E changes \in SUBSET (watched \X Kinds) \ {{}} : HandleBatch(changes)
  /\ batches' = batches + 1
  /\ UNCHANGED <<watcher, loop, paths, watched, restart, stopPc, refreshes>>

\* Any exception of awatch is logged; the watcher goes on as running.
AwatchCrashes ==
  /\ loop = "watching" /\ watched # {}
  /\ loop' = "crashed"
  /\ UNCHANGED <<watcher, paths, watched, restart, pending, flush, stopPc, batches, refreshes>>

\* The mirror task ends this awatch for a restart or a stop.
AwatchEnds ==
  /\ loop = "watching"
  /\ restart \/ watcher = "stopped"
  /\ loop' = "between"
  /\ UNCHANGED <<watcher, paths, watched, restart, pending, flush, stopPc, batches, refreshes>>

\* Mutant: the restart event is cleared and the paths of the last round kept.
LoopAgainSamePaths ==
  /\ loop = "between"
  /\ loop' = IF watcher = "stopped" THEN "ended" ELSE "watching"
  /\ restart' = (restart /\ watcher = "stopped")
  /\ UNCHANGED <<watcher, paths, watched, pending, flush, stopPc, batches, refreshes>>

(* The event is cleared and the paths are read in one step: a refresh that *)
(* comes while the last awatch is torn down is not lost.                   *)
LoopAgain ==
  /\ loop = "between"
  /\ loop' = IF watcher = "stopped" THEN "ended" ELSE "watching"
  /\ restart' = (restart /\ watcher = "stopped")
  /\ watched' = paths
  /\ UNCHANGED <<watcher, paths, pending, flush, stopPc, batches, refreshes>>

\* _flush_after wakes: the buffer is emptied into on_change, if there is any.
FlushWakes ==
  /\ flush = "sleeping"
  /\ flush' = IF pending = {} THEN "none" ELSE "handling"
  /\ pending' = {}
  /\ UNCHANGED <<watcher, loop, paths, watched, restart, stopPc, batches, refreshes>>

\* on_change returns, or raises and is logged.
HandlerEnds ==
  /\ flush = "handling"
  /\ flush' = "none"
  /\ UNCHANGED <<watcher, loop, paths, watched, restart, pending, stopPc, batches, refreshes>>

(* stop(): a live flush is cancelled and awaited; meanwhile awatch may     *)
(* yield once more and start another one, which nobody cancels.            *)
StopBegins ==
  /\ watcher # "stopped"
  /\ watcher' = "stopped"
  /\ restart' = (watcher = "running")
  /\ stopPc' = CASE flush # "none" -> "flush"
                 [] flush = "none" /\ loop # "none" -> "watch"
                 [] OTHER -> "done"
  /\ flush' = "none"
  /\ pending' = IF stopPc' = "done" THEN {} ELSE pending
  /\ UNCHANGED <<loop, paths, watched, batches, refreshes>>

StopCancelsWatch ==
  /\ stopPc = "flush"
  /\ stopPc' = "watch"
  /\ UNCHANGED <<watcher, loop, paths, watched, restart, pending, flush, batches, refreshes>>

\* Mutant: the buffer is not emptied.
StopEndsUncleared ==
  /\ stopPc = "watch"
  /\ stopPc' = "done"
  /\ loop' = IF loop = "crashed" THEN "crashed" ELSE "ended"
  /\ UNCHANGED <<watcher, paths, watched, restart, pending, flush, batches, refreshes>>

StopEnds ==
  /\ stopPc = "watch"
  /\ stopPc' = "done"
  /\ loop' = IF loop = "crashed" THEN "crashed" ELSE "ended"
  /\ pending' = {}
  /\ UNCHANGED <<watcher, paths, watched, restart, flush, batches, refreshes>>

WatcherInit ==
  /\ watcher = "new" /\ loop = "none"
  /\ paths = Paths /\ watched = {}
  /\ restart = FALSE /\ pending = {} /\ flush = "none"
  /\ stopPc = "idle"
  /\ batches = 0 /\ refreshes = 0

Loop == AwatchEnds \/ LoopAgain
Flush == FlushWakes \/ HandlerEnds
Stop == StopBegins \/ StopCancelsWatch \/ StopEnds

WatcherNext == Start \/ RefreshPaths \/ AwatchYields \/ AwatchCrashes \/ Loop \/ Flush \/ Stop

WatcherSpec == WatcherInit /\ [][WatcherNext]_watcherVars

(* The event loop runs every task that can go on; on_change returns.       *)
FairWatcherSpec ==
  WatcherSpec /\ WF_watcherVars(Loop) /\ WF_watcherVars(Flush)
              /\ WF_watcherVars(StopCancelsWatch \/ StopEnds)

----------------------------------------------------------------------------
WatcherTypeOK ==
  /\ watcher \in {"new", "running", "stopped"}
  /\ loop \in {"none", "watching", "between", "ended", "crashed"}
  /\ paths \subseteq Paths /\ watched \subseteq Paths
  /\ restart \in BOOLEAN /\ pending \subseteq Changes
  /\ flush \in {"none", "sleeping", "handling"}
  /\ stopPc \in {"idle", "flush", "watch", "done"}
  /\ batches \in 0 .. MaxBatches /\ refreshes \in 0 .. MaxRefreshes

(* While the watcher runs, a buffered change has a debounce task that will *)
(* hand it over: no order of batches, flushes and handlers strands it.     *)
PendingHasFlush ==
  watcher = "running" /\ pending # {} => flush = "sleeping"

(* Once stop() has returned, on_change is not called again, although a     *)
(* debounce task started while stop() was waiting survives it.             *)
QuietAfterStop ==
  [][stopPc = "done" => ~(flush = "sleeping" /\ flush' = "handling")]_watcherVars

(* Refreshed paths are watched in the end, unless the watcher stops or its *)
(* loop has crashed.                                                       *)
RefreshTakesEffect ==
  (watcher = "running" /\ watched # paths) ~>
    (watched = paths \/ watcher = "stopped" \/ loop = "crashed")

----------------------------------------------------------------------------
(* What a comment says and the code does not do.                           *)

(* _flush_after: "If new events arrive while on_change is awaiting,        *)
(* _handle_change_batch will schedule the next flush around them."         *)
HandlerIsNotCut ==
  [][~(watcher = "running" /\ flush = "handling" /\ flush' = "sleeping")]_watcherVars
=============================================================================

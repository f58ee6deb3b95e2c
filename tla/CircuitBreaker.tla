--------------------------- MODULE CircuitBreaker ---------------------------
(***************************************************************************)
(* core/circuit_breaker.py: one breaker per tenant.  A session's end       *)
(* records an outcome in the tenant's sliding window; when more than a     *)
(* ratio of enough outcomes failed the breaker opens for a cooldown.  It   *)
(* closes lazily: only should_reject, asked at the next job, notices that  *)
(* the cooldown is over.                                                   *)
(*                                                                         *)
(* Time is a counter of ticks; several events may share one.               *)
(***************************************************************************)
EXTENDS Integers, Sequences, FiniteSets, FiniteSetsExt

CONSTANTS
  Tenants,
  RatioNum, RatioDen,  \* failure_ratio, as a fraction
  MinSamples,          \* min_samples
  Window,              \* window_seconds
  Cooldown,            \* cooldown_seconds
  MaxTime,             \* bound on the clock
  MaxOutcomes          \* bound on the outcomes recorded for one tenant

ASSUME BreakerConstants ==
  /\ RatioNum \in Nat /\ RatioDen \in Nat \ {0}
  /\ MinSamples \in Nat \ {0}
  /\ Window \in Nat /\ Cooldown \in Nat
  /\ MaxTime \in Nat /\ MaxOutcomes \in Nat

VARIABLES
  now,       \* the time source
  recent,    \* _outcomes: the outcomes in the window, oldest first
  openUntil, \* _open_until: {} while closed, else the set with the time it ends at
  notices,   \* history: what on_state_change was told, per tenant
  ended      \* history: every outcome recorded, per tenant

breakerVars == <<now, recent, openUntil, notices, ended>>

Outcome == [at : Nat, ok : BOOLEAN]
IsOpen(t) == openUntil[t] # {}

Failed(seq) == Cardinality({i \in DOMAIN seq : ~seq[i].ok})
Trips(seq)  == Len(seq) >= MinSamples /\ Failed(seq) * RatioDen > RatioNum * Len(seq)

\* Mutant of Prune: outcomes never leave the window.
PruneNothing(seq) == seq

\* _prune: from the left, up to the first outcome in the window.
Prune(seq) ==
  LET inWindow == {i \in DOMAIN seq : seq[i].at + Window >= now}
  IN  SubSeq(seq, Min(inWindow \cup {Len(seq) + 1}), Len(seq))

Notify(t, state) == notices' = [notices EXCEPT ![t] = Append(@, state)]

\* record_outcome(tenant, success=ok)
RecordOutcome(t, ok) ==
  LET window == Prune(Append(recent[t], [at |-> now, ok |-> ok]))
  IN  /\ ended' = [ended EXCEPT ![t] = Append(@, [at |-> now, ok |-> ok])]
      /\ IF IsOpen(t) \/ ~Trips(window)
         THEN recent' = [recent EXCEPT ![t] = window] /\ UNCHANGED <<openUntil, notices>>
         ELSE /\ recent' = [recent EXCEPT ![t] = <<>>]
              /\ openUntil' = [openUntil EXCEPT ![t] = {now + Cooldown}]
              /\ Notify(t, "open")
      /\ UNCHANGED now

\* Mutant: the cooldown is compared the wrong way round.
RejectsLate(t) == \E until \in openUntil[t] : now > until

(* should_reject(tenant): its answer, and the recovery it may perform.     *)
Rejects(t) == \E until \in openUntil[t] : now < until
\* Mutant: the recovery is announced and the breaker left open.
AskLeavesOpen(t) ==
  IF IsOpen(t) /\ ~Rejects(t)
  THEN /\ Notify(t, "closed")
       /\ UNCHANGED <<now, recent, openUntil, ended>>
  ELSE UNCHANGED breakerVars

Ask(t) ==
  IF IsOpen(t) /\ ~Rejects(t)
  THEN /\ openUntil' = [openUntil EXCEPT ![t] = {}]
       /\ Notify(t, "closed")
       /\ UNCHANGED <<now, recent, ended>>
  ELSE UNCHANGED breakerVars

Tick ==
  /\ now < MaxTime
  /\ now' = now + 1
  /\ UNCHANGED <<recent, openUntil, notices, ended>>

BreakerInit ==
  /\ now = 0
  /\ recent = [t \in Tenants |-> <<>>]
  /\ openUntil = [t \in Tenants |-> {}]
  /\ notices = [t \in Tenants |-> <<>>]
  /\ ended = [t \in Tenants |-> <<>>]

BreakerNext ==
  \/ Tick
  \/ \E t \in Tenants : Ask(t)
  \/ \E t \in Tenants, ok \in BOOLEAN : Len(ended[t]) < MaxOutcomes /\ RecordOutcome(t, ok)

BreakerSpec == BreakerInit /\ [][BreakerNext]_breakerVars

----------------------------------------------------------------------------
BreakerTypeOK ==
  /\ now \in Nat
  /\ recent \in [Tenants -> Seq(Outcome)]
  /\ openUntil \in [Tenants -> SUBSET Nat]
  /\ notices \in [Tenants -> Seq({"open", "closed"})]
  /\ ended \in [Tenants -> Seq(Outcome)]

(* on_state_change hears "open" and "closed" in turn, and the last one is  *)
(* what the breaker is: a breaker does not open while open, nor close      *)
(* twice, whatever outcomes arrive in between.                             *)
NoticesAlternate ==
  \A t \in Tenants :
    /\ \A i \in DOMAIN notices[t] : notices[t][i] = (IF i % 2 = 1 THEN "open" ELSE "closed")
    /\ IsOpen(t) <=> Len(notices[t]) % 2 = 1

(* A tenant is locked out only for failures of its own, enough of them,    *)
(* that ended within one window before its breaker opened.                 *)
FailuresIn(t, from, to) ==
  Cardinality({i \in DOMAIN ended[t] : ~ended[t][i].ok /\ from <= ended[t][i].at + Window
                                         /\ ended[t][i].at <= to})
LockoutIsEarned ==
  \A t \in Tenants : \A until \in openUntil[t] :
    \E opened \in 0 .. now :
      /\ until = opened + Cooldown
      /\ FailuresIn(t, opened, opened) * RatioDen > RatioNum * MinSamples

(* "fresh window after recovery", says the comment where the window is     *)
(* cleared: when a breaker closes, nothing recorded before counts again.   *)
FreshAfterRecovery ==
  [][\A t \in Tenants : IsOpen(t) /\ ~IsOpen(t)' => recent'[t] = <<>>]_breakerVars
=============================================================================

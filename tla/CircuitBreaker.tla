---------------------------- MODULE CircuitBreaker ----------------------------
(***************************************************************************)
(* The shared circuit breaker of xai-circuit-breaker (breaker.rs and       *)
(* window.rs).  Callers on several threads ask check() before a request    *)
(* and report its outcome with record().  The breaker keeps its state, the *)
(* opening time and the is_open mirror in atomics that are read without a  *)
(* lock; probe_state_lock guards every change of the state and the probe   *)
(* accounting; a second mutex guards the sliding window; the two are never *)
(* held together.                                                          *)
(*                                                                         *)
(* One action is the work of a caller between two points where another     *)
(* caller can see or change what it has read: each load of an atomic, each *)
(* store another caller may load, each critical section's entry.  Time is  *)
(* the breaker's clock, in ticks since its construction.                   *)
(***************************************************************************)
EXTENDS Integers, Sequences, FiniteSets, FiniteSetsExt

CONSTANTS
    Callers,         \* threads that use one breaker
    NoCaller,        \* nobody holds probe_state_lock
    MaxProbes,       \* config.half_open_max_probes, after the clamp to 1
    OpenDuration,    \* config.open_duration
    WindowDuration,  \* config.window_duration
    MinSamples,      \* config.min_samples
    RateNum,         \* config.error_rate_threshold is RateNum / RateDen
    RateDen,
    MaxEntries,      \* MAX_WINDOW_ENTRIES
    MaxTime          \* bound: the clock stops here

\* The configuration as with_clock leaves it, and callers that are not NoCaller.
ASSUME BreakerConfig ==
    /\ NoCaller \notin Callers
    /\ MaxProbes \in Nat \ {0}
    /\ OpenDuration \in Nat /\ WindowDuration \in Nat /\ MinSamples \in Nat
    /\ RateNum \in Nat /\ RateDen \in Nat \ {0}
    /\ MaxEntries \in Nat \ {0}
    /\ MaxTime \in Nat

VARIABLES
    state,           \* state: "Closed", "Open" or "HalfOpen"
    openedAt,        \* opened_at_millis
    probes,          \* half_open_probes
    claimedAt,       \* probe_claimed_at_millis: encoded, 0 for none
    isOpenFast,      \* is_open_fast
    lock,            \* holder of probe_state_lock
    window,          \* the SlidingWindow: entries and its failure count
    now,             \* the clock
    pc,              \* what each caller does next
    saw,             \* what each caller has loaded: opened_at, its now, its outcome
    claims           \* history: when each probe of this half-open generation was admitted

vars == <<state, openedAt, probes, claimedAt, isOpenFast, lock, window, now,
          pc, saw, claims>>
accounting == <<probes, claimedAt, claims>>

States == {"Closed", "Open", "HalfOpen"}
Steps == {"idle", "opened", "compare", "cas", "mirror", "reload", "probe",
          "admitted", "prev", "sample", "push", "trip", "publish", "latch",
          "close", "reset", "clear", "rate"}
Entry == [at : Nat, failure : BOOLEAN]
NoSight == [opened |-> 0, now |-> 0, failure |-> FALSE]

NO_PROBE_CLAIM == 0
EncodeProbeClaim(t) == t + 1

-----------------------------------------------------------------------------
(***************************************************************************)
(* The sliding window.                                                     *)
(***************************************************************************)

FailuresIn(entries) == Cardinality({i \in DOMAIN entries : entries[i].failure})

Dropped(w, n) ==
    [entries  |-> SubSeq(w.entries, n + 1, Len(w.entries)),
     failures |-> w.failures - FailuresIn(SubSeq(w.entries, 1, n))]

\* push: a full window makes room by dropping its front entry.
Push(w, failure, at) ==
    LET v == IF Len(w.entries) >= MaxEntries THEN Dropped(w, 1) ELSE w
    IN  [entries  |-> Append(v.entries, [at |-> at, failure |-> failure]),
         failures |-> v.failures + (IF failure THEN 1 ELSE 0)]

\* evict: entries leave from the front until one is not older than the window.
\* The code's checked_sub fails only where no entry could be older.
Evict(w, t) ==
    LET old(n) == \A i \in 1..n : w.entries[i].at < t - WindowDuration
    IN  Dropped(w, Max({n \in 0..Len(w.entries) : old(n)}))

\* sample_count() >= min_samples && error_rate() >= error_rate_threshold
ShouldTrip(w) ==
    /\ Len(w.entries) >= MinSamples
    /\ w.failures * RateDen >= RateNum * Len(w.entries)

EmptyWindow == [entries |-> <<>>, failures |-> 0]

-----------------------------------------------------------------------------
(***************************************************************************)
(* check()                                                                 *)
(***************************************************************************)

Goto(c, step) == pc' = [pc EXCEPT ![c] = step]
Sees(c, sight) == saw' = [saw EXCEPT ![c] = sight]

\* Where the caller of check() goes for the state it has just loaded.
Dispatch(s) ==
    IF s = "Closed" THEN "admitted" ELSE IF s = "Open" THEN "opened" ELSE "probe"

Check(c) ==
    /\ pc[c] = "idle"
    /\ Goto(c, Dispatch(state))
    /\ UNCHANGED <<state, openedAt, isOpenFast, lock, window, now, saw, accounting>>

\* check_open: the opening time is loaded, ...
LoadOpened(c) ==
    /\ pc[c] = "opened"
    /\ Sees(c, [NoSight EXCEPT !.opened = openedAt])
    /\ Goto(c, "compare")
    /\ UNCHANGED <<state, openedAt, isOpenFast, lock, window, now, accounting>>

\* ... compared with the clock, and a caller that is too early is refused.
CoolDownOver(opened, t) == t - opened >= OpenDuration

CompareOpened(c) ==
    /\ pc[c] = "compare"
    /\ Goto(c, IF CoolDownOver(saw[c].opened, now) THEN "cas" ELSE "idle")
    /\ Sees(c, NoSight)
    /\ UNCHANGED <<state, openedAt, isOpenFast, lock, window, now, accounting>>

\* The Open -> HalfOpen compare-and-swap under the probe lock.
CasHalfOpen(c) ==
    /\ pc[c] = "cas"
    /\ lock = NoCaller
    /\ \/ /\ state = "Open"
          /\ state' = "HalfOpen"
          /\ lock' = c
          /\ Goto(c, "mirror")
       \/ /\ state # "Open"
          /\ Goto(c, "reload")
          /\ UNCHANGED <<state, lock>>
    /\ UNCHANGED <<openedAt, isOpenFast, window, now, saw, accounting>>

\* Mutant: the swap leaves the mirror set.
StoreMirrorForgotten(c) ==
    /\ pc[c] = "mirror"
    /\ lock' = NoCaller
    /\ Goto(c, "probe")
    /\ UNCHANGED <<state, openedAt, isOpenFast, window, now, saw, accounting>>

\* The winner stores the mirror and unlocks, then competes for a probe slot.
StoreMirror(c) ==
    /\ pc[c] = "mirror"
    /\ isOpenFast' = FALSE
    /\ lock' = NoCaller
    /\ Goto(c, "probe")
    /\ UNCHANGED <<state, openedAt, window, now, saw, accounting>>

\* The loser loads the state again; one that is still Open refuses the caller.
Reload(c) ==
    /\ pc[c] = "reload"
    /\ Goto(c, IF state = "Open" THEN "idle" ELSE Dispatch(state))
    /\ UNCHANGED <<state, openedAt, isOpenFast, lock, window, now, saw, accounting>>

-----------------------------------------------------------------------------
(***************************************************************************)
(* try_half_open_probe: one critical section; nothing it writes is loaded  *)
(* outside the lock.                                                       *)
(***************************************************************************)

\* Mutant: the lease ends a tick late.
ReclaimableLate ==
    /\ claimedAt # NO_PROBE_CLAIM
    /\ now - (claimedAt - 1) > OpenDuration

\* The last claim is a whole lease old.
Reclaimable ==
    /\ claimedAt # NO_PROBE_CLAIM
    /\ now - (claimedAt - 1) >= OpenDuration

\* Mutant: a reclaimed slot keeps the expired claim time.
ClaimedKeepingLease(c) ==
    /\ claimedAt' = IF probes' = probes THEN claimedAt ELSE EncodeProbeClaim(now)
    /\ claims' = Append(claims, now)
    /\ Goto(c, "admitted")

\* The slot is the caller's: the claim is published with its time.
Claimed(c) ==
    /\ claimedAt' = EncodeProbeClaim(now)
    /\ claims' = Append(claims, now)
    /\ Goto(c, "admitted")

\* Mutant: the reservation of a refused caller is not taken back.
RefusedLeaking(c) ==
    /\ Goto(c, "idle")
    /\ probes' = IF state = "HalfOpen" THEN probes + 1 ELSE probes
    /\ UNCHANGED <<claimedAt, claims>>

\* A caller without a slot leaves the accounting as it found it.
Refused(c) == Goto(c, "idle") /\ UNCHANGED accounting

Probe(c) ==
    /\ pc[c] = "probe"
    /\ lock = NoCaller
    /\ \/ state # "HalfOpen" /\ Refused(c)
       \/ /\ state = "HalfOpen"
          /\ \/ probes < MaxProbes /\ probes' = probes + 1 /\ Claimed(c)
             \/ probes >= MaxProbes /\ Reclaimable /\ UNCHANGED probes /\ Claimed(c)
             \/ probes >= MaxProbes /\ ~Reclaimable /\ Refused(c)
    /\ UNCHANGED <<state, openedAt, isOpenFast, lock, window, now, saw>>

-----------------------------------------------------------------------------
(***************************************************************************)
(* record()                                                                *)
(***************************************************************************)

\* An admitted caller whose request is dropped never records.
Abandon(c) ==
    /\ pc[c] = "admitted"
    /\ Goto(c, "idle")
    /\ UNCHANGED <<state, openedAt, isOpenFast, lock, window, now, saw, accounting>>

Record(c, failure) ==
    /\ pc[c] = "admitted"
    /\ Sees(c, [NoSight EXCEPT !.now = now, !.failure = failure])
    /\ Goto(c, "prev")
    /\ UNCHANGED <<state, openedAt, isOpenFast, lock, window, now, accounting>>

\* prev_state: what the rest of record() acts on, however old it gets.
LoadPrevState(c) ==
    /\ pc[c] = "prev"
    /\ \/ state = "Closed" /\ Goto(c, "sample")
       \/ state = "Open" /\ Goto(c, "push")
       \/ state = "HalfOpen" /\ saw[c].failure /\ Goto(c, "trip")
       \/ state = "HalfOpen" /\ ~saw[c].failure /\ Goto(c, "close")
    /\ UNCHANGED <<state, openedAt, isOpenFast, lock, window, now, saw, accounting>>

\* The critical section of the window mutex, for prev_state Closed and Open.
Sample(c) ==
    LET w == Evict(Push(window, saw[c].failure, saw[c].now), saw[c].now)
    IN  /\ pc[c] \in {"sample", "push"}
        /\ window' = w
        /\ Goto(c, IF pc[c] = "sample" /\ ShouldTrip(w) THEN "trip" ELSE "idle")
        /\ Sees(c, NoSight)
        /\ UNCHANGED <<state, openedAt, isOpenFast, lock, now, accounting>>

\* trip: the new Open generation, in the order of its stores.
Trip(c) ==
    /\ pc[c] = "trip"
    /\ lock = NoCaller
    /\ lock' = c
    /\ openedAt' = now
    /\ Goto(c, "publish")
    /\ Sees(c, NoSight)
    /\ UNCHANGED <<state, isOpenFast, window, now, accounting>>

ResetAccounting ==
    /\ probes' = 0
    /\ claimedAt' = NO_PROBE_CLAIM
    /\ claims' = <<>>

PublishOpen(c) ==
    /\ pc[c] = "publish"
    /\ ResetAccounting
    /\ state' = "Open"
    /\ Goto(c, "latch")
    /\ UNCHANGED <<openedAt, isOpenFast, lock, window, now, saw>>

LatchOpen(c) ==
    /\ pc[c] = "latch"
    /\ isOpenFast' = TRUE
    /\ lock' = NoCaller
    /\ Goto(c, "idle")
    /\ UNCHANGED <<state, openedAt, window, now, saw, accounting>>

\* close: the state is stored first, the window is cleared after the unlock.
Close(c) ==
    /\ pc[c] = "close"
    /\ lock = NoCaller
    /\ lock' = c
    /\ state' = "Closed"
    /\ Goto(c, "reset")
    /\ Sees(c, NoSight)
    /\ UNCHANGED <<openedAt, isOpenFast, window, now, accounting>>

ResetClosed(c) ==
    /\ pc[c] = "reset"
    /\ ResetAccounting
    /\ isOpenFast' = FALSE
    /\ lock' = NoCaller
    /\ Goto(c, "clear")
    /\ UNCHANGED <<state, openedAt, window, now, saw>>

ClearWindow(c) ==
    /\ pc[c] = "clear"
    /\ window' = EmptyWindow
    /\ Goto(c, "idle")
    /\ UNCHANGED <<state, openedAt, isOpenFast, lock, now, saw, accounting>>

-----------------------------------------------------------------------------
(***************************************************************************)
(* error_rate() and the clock.                                             *)
(***************************************************************************)

ReadClock(c) ==
    /\ pc[c] = "idle"
    /\ Sees(c, [NoSight EXCEPT !.now = now])
    /\ Goto(c, "rate")
    /\ UNCHANGED <<state, openedAt, isOpenFast, lock, window, now, accounting>>

ErrorRate(c) ==
    /\ pc[c] = "rate"
    /\ window' = Evict(window, saw[c].now)
    /\ Goto(c, "idle")
    /\ Sees(c, NoSight)
    /\ UNCHANGED <<state, openedAt, isOpenFast, lock, now, accounting>>

Tick ==
    /\ now < MaxTime
    /\ now' = now + 1
    /\ UNCHANGED <<state, openedAt, isOpenFast, lock, window, pc, saw, accounting>>

Init ==
    /\ state = "Closed" /\ openedAt = 0 /\ isOpenFast = FALSE
    /\ probes = 0 /\ claimedAt = NO_PROBE_CLAIM /\ claims = <<>>
    /\ lock = NoCaller
    /\ window = EmptyWindow
    /\ now = 0
    /\ pc = [c \in Callers |-> "idle"]
    /\ saw = [c \in Callers |-> NoSight]

Next ==
    \/ \E c \in Callers :
        \/ Check(c) \/ LoadOpened(c) \/ CompareOpened(c) \/ CasHalfOpen(c)
        \/ StoreMirror(c) \/ Reload(c) \/ Probe(c)
        \/ Abandon(c) \/ LoadPrevState(c) \/ Sample(c)
        \/ Trip(c) \/ PublishOpen(c) \/ LatchOpen(c)
        \/ Close(c) \/ ResetClosed(c) \/ ClearWindow(c)
        \/ ReadClock(c) \/ ErrorRate(c)
        \/ \E failure \in BOOLEAN : Record(c, failure)
    \/ Tick

Spec == Init /\ [][Next]_vars

-----------------------------------------------------------------------------
(***************************************************************************)
(* Properties.                                                             *)
(***************************************************************************)

\* Types, the probe counter within its limit (try_half_open_probe takes back the
\* reservation of a caller it refuses) and the incremental failure count equal
\* to the failures in the window.
TypeOK ==
    /\ state \in States
    /\ openedAt \in Nat /\ claimedAt \in Nat /\ now \in 0..MaxTime
    /\ probes \in 0..MaxProbes
    /\ isOpenFast \in BOOLEAN
    /\ lock \in Callers \cup {NoCaller}
    /\ window \in [entries : Seq(Entry), failures : Nat] /\ Len(window.entries) <= MaxEntries
    /\ window.failures = FailuresIn(window.entries)
    /\ pc \in [Callers -> Steps]
    /\ saw \in [Callers -> [opened : Nat, now : Nat, failure : BOOLEAN]]
    /\ claims \in Seq(Nat)

\* is_open() answers from the mirror: whenever nobody is between the stores of
\* a transition, is_open_fast is exactly state == Open, whatever the order in
\* which trips, closes and half-open swaps of several callers went through.
MirrorMatches == lock = NoCaller => (isOpenFast <=> state = "Open")

\* Claims of this half-open generation that are younger than a lease.
Unexpired == {i \in DOMAIN claims : now - claims[i] < OpenDuration}

\* At most half_open_max_probes probes younger than open_duration are out at a
\* time, reclaimed slots of abandoned probes and racing callers included.
ProbesBounded == Cardinality(Unexpired) <= MaxProbes

\* The comment in check_open: a breaker that is Open has no claimed slot, so
\* the swap to HalfOpen need not reset the counter (and a late prober of the
\* previous generation has left nothing behind).
OpenHasNoProbes == state = "Open" => probes = 0 /\ claimedAt = NO_PROBE_CLAIM

\* A caller is refused in HalfOpen only while some probe of this generation is
\* younger than open_duration: a lost probe delays recovery by one cool-down.
RefusedForFreshClaim ==
    [][\A c \in Callers :
        Probe(c) /\ state = "HalfOpen" /\ pc'[c] = "idle" => Unexpired # {}]_vars

=============================================================================

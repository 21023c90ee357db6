------------------------- MODULE CircuitBreakerProofs -------------------------
(***************************************************************************)
(* Theorems about CircuitBreaker, for any number of callers and any        *)
(* configuration.  Two inductive invariants carry them: Transitions, what  *)
(* the holder of probe_state_lock has already stored, and ProbeLedger, how *)
(* the counter and the last claim time account for the admitted probes.    *)
(* The types need a third part, WindowOK: the failure count of the sliding *)
(* window, kept by increments, is the number of failures in it.            *)
(***************************************************************************)
EXTENDS CircuitBreaker, FiniteSetTheorems, TLAPS

\* The types the proofs need; the window plays no part in them.
CoreType ==
    /\ state \in States
    /\ isOpenFast \in BOOLEAN
    /\ lock \in Callers \cup {NoCaller}
    /\ pc \in [Callers -> Steps]
    /\ probes \in Nat /\ claimedAt \in Nat /\ now \in Nat
    /\ claims \in Seq(Nat)

\* The steps at which a caller holds probe_state_lock.
Holding == {"mirror", "publish", "latch", "reset"}

\* The lock has one holder, which is at one of those steps, and the state it
\* has stored by then is still the state.
Transitions ==
    /\ \A c \in Callers : pc[c] \in Holding <=> lock = c
    /\ \A c \in Callers :
        /\ pc[c] = "mirror" => state = "HalfOpen"
        /\ pc[c] = "latch" => state = "Open"
        /\ pc[c] = "reset" => state = "Closed"
    /\ MirrorMatches
    /\ OpenHasNoProbes

\* Slots are counted up to the limit; the claim time is the last admission;
\* past the limit, every earlier admission is a lease older than the last.
ProbeLedger ==
    /\ Len(claims) <= MaxProbes => probes = Len(claims)
    /\ Len(claims) > MaxProbes => probes = MaxProbes
    /\ Len(claims) = 0 => claimedAt = NO_PROBE_CLAIM
    /\ Len(claims) > 0 => claimedAt = claims[Len(claims)] + 1
    /\ \A i \in 1..Len(claims) : claims[i] <= claims[Len(claims)]
    /\ \A i \in 1..Len(claims) : claims[i] <= now
    /\ Len(claims) > MaxProbes =>
        \A i \in 1..(Len(claims) - 1) :
            claims[Len(claims)] - claims[i] >= OpenDuration

BreakerInv == CoreType /\ Transitions /\ ProbeLedger

-----------------------------------------------------------------------------

\* The accounting that trip, close and the constructor leave is a ledger.
LEMMA EmptyLedger ==
  ASSUME probes = 0, claimedAt = NO_PROBE_CLAIM, claims = <<>>
  PROVE  ProbeLedger
<1>1. Len(claims) = 0 /\ 1..Len(claims) = {}
  OBVIOUS
<1> QED BY <1>1, BreakerConfig DEF ProbeLedger

\* A freshly constructed breaker (with_clock) satisfies the invariant.
LEMMA InitInv == Init => BreakerInv
<1> SUFFICES ASSUME Init PROVE BreakerInv
  OBVIOUS
<1>1. CoreType
  <2>1. isOpenFast \in BOOLEAN
    BY Zenon DEF Init
  <2> QED BY <2>1 DEF Init, CoreType, States, Steps, NO_PROBE_CLAIM
<1>2. \A c \in Callers : pc[c] = "idle" /\ lock # c
  BY BreakerConfig DEF Init
<1>3. Transitions
  BY <1>2 DEF Init, Transitions, MirrorMatches, OpenHasNoProbes, Holding
<1>4. ProbeLedger
  BY EmptyLedger DEF Init
<1> QED BY <1>1, <1>3, <1>4 DEF BreakerInv

\* The steps that move only a caller's own program counter, its locals or the
\* window: check, record and error_rate outside the probe lock.
Local(c, here, there) ==
    /\ pc[c] \in here
    /\ pc' = [pc EXCEPT ![c] = there]
    /\ UNCHANGED <<state, isOpenFast, lock, now, accounting>>

\* A step that moves one caller between two points outside the lock keeps the
\* invariant.
LEMMA LocalKeepsInv ==
  ASSUME BreakerInv, NEW c \in Callers,
         NEW here \in SUBSET (Steps \ Holding), NEW there \in Steps \ Holding,
         Local(c, here, there)
  PROVE  BreakerInv'
<1>1. CoreType'
  BY DEF BreakerInv, CoreType, Local, accounting
<1>2. Transitions'
  <2>1. \A d \in Callers : pc'[d] = pc[d] \/ (d = c /\ pc[c] \notin Holding /\ pc'[c] \notin Holding)
    BY DEF BreakerInv, CoreType, Local
  <2>2. UNCHANGED <<state, isOpenFast, lock, probes, claimedAt>>
    BY DEF Local, accounting
  <2> QED
    BY <2>1, <2>2 DEF BreakerInv, Transitions, MirrorMatches, OpenHasNoProbes, Holding
<1>3. ProbeLedger'
  BY DEF BreakerInv, ProbeLedger, Local, accounting
<1> QED BY <1>1, <1>2, <1>3 DEF BreakerInv

\* check(), record() and error_rate() outside the probe lock are such steps.
LEMMA UnlockedKeepsInv ==
  ASSUME BreakerInv, NEW c \in Callers,
         \/ Check(c) \/ LoadOpened(c) \/ CompareOpened(c) \/ Reload(c)
         \/ Abandon(c) \/ LoadPrevState(c) \/ Sample(c) \/ ClearWindow(c)
         \/ ReadClock(c) \/ ErrorRate(c) \/ \E failure \in BOOLEAN : Record(c, failure)
  PROVE  BreakerInv'
<1>0. state \in States
  BY DEF BreakerInv, CoreType
<1>1. \E there \in Steps \ Holding : Local(c, Steps \ Holding, there)
  <2>1. CASE Check(c)
    BY <1>0, <2>1 DEF Check, Goto, Dispatch, Local, States, Steps, Holding, accounting
  <2>2. CASE LoadOpened(c) \/ CompareOpened(c)
    BY <2>2 DEF LoadOpened, CompareOpened, Goto, Local, Steps, Holding, accounting
  <2>3. CASE Reload(c)
    BY <1>0, <2>3 DEF Reload, Goto, Dispatch, Local, States, Steps, Holding, accounting
  <2>4. CASE LoadPrevState(c)
    BY <1>0, <2>4 DEF LoadPrevState, Goto, Local, States, Steps, Holding, accounting
  <2>5. CASE Sample(c)
    BY <2>5 DEF Sample, Goto, Local, Steps, Holding, accounting
  <2>6. CASE Abandon(c) \/ ClearWindow(c) \/ ReadClock(c) \/ ErrorRate(c)
             \/ \E failure \in BOOLEAN : Record(c, failure)
    BY <2>6 DEF Abandon, ClearWindow, ReadClock, ErrorRate, Record, Goto, Local,
       Steps, Holding, accounting
  <2> QED BY <2>1, <2>2, <2>3, <2>4, <2>5, <2>6
<1>2. PICK there \in Steps \ Holding : Local(c, Steps \ Holding, there)
  BY <1>1
<1> QED BY <1>2, LocalKeepsInv

\* The Open -> HalfOpen swap and its mirror store keep the invariant.
LEMMA HalfOpenKeepsInv ==
  ASSUME BreakerInv, NEW c \in Callers, CasHalfOpen(c) \/ StoreMirror(c)
  PROVE  BreakerInv'
<1>1. CASE CasHalfOpen(c)
  BY <1>1, BreakerConfig DEF CasHalfOpen, Goto, BreakerInv, CoreType, Transitions, ProbeLedger,
     MirrorMatches, OpenHasNoProbes, States, Steps, Holding, accounting
<1>2. CASE StoreMirror(c)
  BY <1>2, BreakerConfig DEF StoreMirror, Goto, BreakerInv, CoreType, Transitions, ProbeLedger,
     MirrorMatches, OpenHasNoProbes, States, Steps, Holding, accounting
<1> QED BY <1>1, <1>2

\* The stores of trip and close that leave the accounting alone.
LEMMA TransitionKeepsInv ==
  ASSUME BreakerInv, NEW c \in Callers, Trip(c) \/ LatchOpen(c) \/ Close(c)
  PROVE  BreakerInv'
<1> USE BreakerConfig DEF Goto, BreakerInv, CoreType, Transitions, ProbeLedger,
     MirrorMatches, OpenHasNoProbes, States, Steps, Holding, accounting
<1>1. CASE Trip(c)
  BY <1>1 DEF Trip
<1>2. CASE LatchOpen(c)
  BY <1>2 DEF LatchOpen
<1>3. CASE Close(c)
  BY <1>3 DEF Close
<1> QED BY <1>1, <1>2, <1>3

\* The stores of trip and close that start a new generation.
LEMMA ResetKeepsInv ==
  ASSUME BreakerInv, NEW c \in Callers, PublishOpen(c) \/ ResetClosed(c)
  PROVE  BreakerInv'
<1>1. probes' = 0 /\ claimedAt' = NO_PROBE_CLAIM /\ claims' = <<>>
  BY DEF PublishOpen, ResetClosed, ResetAccounting
<1>2. ProbeLedger'
  <2>1. Len(claims') = 0 /\ 1..Len(claims') = {}
    BY <1>1
  <2> QED BY <1>1, <2>1, BreakerConfig DEF ProbeLedger
<1>3. CoreType' /\ Transitions'
  <2> USE BreakerConfig, <1>1 DEF Goto, BreakerInv, CoreType, Transitions,
       MirrorMatches, OpenHasNoProbes, States, Steps, Holding, NO_PROBE_CLAIM
  <2>1. CASE PublishOpen(c)
    BY <2>1 DEF PublishOpen
  <2>2. CASE ResetClosed(c)
    <3>1. state = "Closed" /\ state' = state /\ isOpenFast' = FALSE /\ lock' = NoCaller
      BY <2>2 DEF ResetClosed
    <3>2. CoreType'
      <4>1. isOpenFast' \in BOOLEAN
        BY <3>1, Zenon
      <4> QED BY <2>2, <3>1, <4>1 DEF ResetClosed
    <3>3. \A d \in Callers : pc'[d] \notin Holding
      BY <2>2 DEF ResetClosed
    <3>4. Transitions'
      BY <3>1, <3>3
    <3> QED BY <3>2, <3>4
  <2> QED BY <2>1, <2>2
<1> QED BY <1>2, <1>3 DEF BreakerInv

\* Admitting a probe, into a free slot or over an expired lease, keeps the
\* ledger: the reclaimed lease is the youngest, so every other one is older.
LEMMA ClaimKeepsLedger ==
  ASSUME BreakerInv, claims' = Append(claims, now), now' = now,
         claimedAt' = EncodeProbeClaim(now),
         \/ probes < MaxProbes /\ probes' = probes + 1
         \/ probes >= MaxProbes /\ Reclaimable /\ probes' = probes
  PROVE  ProbeLedger'
<1> DEFINE n == Len(claims)
<1>1. /\ n \in Nat /\ Len(claims') = n + 1 /\ claims'[n + 1] = now
      /\ \A i \in 1..n : claims'[i] = claims[i] /\ claims[i] \in Nat
      /\ now \in Nat
  BY DEF BreakerInv, CoreType
<1>2. ProbeLedger /\ probes \in Nat /\ claimedAt \in Nat
  BY DEF BreakerInv, CoreType
<1>3. \A i \in 1..(n + 1) : claims'[i] <= now
  BY <1>1, <1>2 DEF ProbeLedger
<1>4. CASE probes < MaxProbes /\ probes' = probes + 1
  <2>1. n = probes /\ n + 1 <= MaxProbes
    BY <1>1, <1>2, <1>4, BreakerConfig DEF ProbeLedger
  <2> QED BY <1>1, <1>3, <1>4, <2>1, BreakerConfig DEF ProbeLedger, EncodeProbeClaim
<1>5. CASE probes >= MaxProbes /\ Reclaimable /\ probes' = probes
  <2>1. n >= MaxProbes /\ probes = MaxProbes /\ n > 0
    BY <1>1, <1>2, <1>5, BreakerConfig DEF ProbeLedger
  <2>2. now - claims[n] >= OpenDuration
    BY <1>1, <1>2, <1>5, <2>1, BreakerConfig DEF ProbeLedger, Reclaimable
  <2>3. \A i \in 1..n : now - claims[i] >= OpenDuration
    BY <1>1, <1>2, <2>1, <2>2, BreakerConfig DEF ProbeLedger
  <2> QED BY <1>1, <1>3, <1>5, <2>1, <2>3, BreakerConfig DEF ProbeLedger, EncodeProbeClaim
<1> QED BY <1>4, <1>5

\* try_half_open_probe keeps the invariant.
LEMMA ProbeKeepsInv ==
  ASSUME BreakerInv, NEW c \in Callers, Probe(c)
  PROVE  BreakerInv'
<1>1. CASE Refused(c)
  <2>1. Local(c, {"probe"}, "idle")
    BY <1>1 DEF Probe, Refused, Goto, Local, accounting
  <2> QED BY <2>1, LocalKeepsInv DEF Steps, Holding
<1>2. CASE /\ state = "HalfOpen" /\ Claimed(c)
           /\ \/ probes < MaxProbes /\ probes' = probes + 1
              \/ probes >= MaxProbes /\ Reclaimable /\ probes' = probes
  <2>1. ProbeLedger'
    BY <1>2, ClaimKeepsLedger DEF Probe, Claimed
  <2>2. CoreType'
    BY <1>2 DEF Probe, Claimed, Goto, EncodeProbeClaim, BreakerInv, CoreType, Steps
  <2>3. Transitions'
    BY <1>2, BreakerConfig DEF Probe, Claimed, Goto, BreakerInv, CoreType, Transitions,
       MirrorMatches, OpenHasNoProbes, Holding, Steps
  <2> QED BY <2>1, <2>2, <2>3 DEF BreakerInv
<1> QED BY <1>1, <1>2 DEF Probe

\* The clock moves no claim and no state.
LEMMA TickKeepsInv ==
  ASSUME BreakerInv, Tick
  PROVE  BreakerInv'
  BY BreakerConfig DEF Tick, BreakerInv, CoreType, Transitions, ProbeLedger, MirrorMatches,
     OpenHasNoProbes, accounting

\* Every step of the breaker keeps the invariant.
LEMMA NextKeepsInv == BreakerInv /\ [Next]_vars => BreakerInv'
<1> SUFFICES ASSUME BreakerInv, [Next]_vars PROVE BreakerInv'
  OBVIOUS
<1>1. CASE UNCHANGED vars
  BY <1>1 DEF vars, BreakerInv, CoreType, Transitions, ProbeLedger, MirrorMatches,
     OpenHasNoProbes
<1>2. CASE Tick
  BY <1>2, TickKeepsInv
<1>3. ASSUME NEW c \in Callers,
             \/ Check(c) \/ LoadOpened(c) \/ CompareOpened(c) \/ CasHalfOpen(c)
             \/ StoreMirror(c) \/ Reload(c) \/ Probe(c)
             \/ Abandon(c) \/ LoadPrevState(c) \/ Sample(c)
             \/ Trip(c) \/ PublishOpen(c) \/ LatchOpen(c)
             \/ Close(c) \/ ResetClosed(c) \/ ClearWindow(c)
             \/ ReadClock(c) \/ ErrorRate(c)
             \/ \E failure \in BOOLEAN : Record(c, failure)
      PROVE  BreakerInv'
  BY <1>3, UnlockedKeepsInv, HalfOpenKeepsInv, TransitionKeepsInv, ResetKeepsInv,
     ProbeKeepsInv
<1> QED BY <1>1, <1>2, <1>3 DEF Next

\* The invariant holds in every reachable state.
THEOREM BreakerInvariant == Spec => []BreakerInv
  BY InitInv, NextKeepsInv, PTL DEF Spec

-----------------------------------------------------------------------------

\* is_open() agrees with the state whenever no transition is being stored, for
\* any number of callers that trip, close and probe the breaker.
THEOREM MirrorMatchesHolds == Spec => []MirrorMatches
<1>1. BreakerInv => MirrorMatches
  BY DEF BreakerInv, Transitions
<1> QED BY <1>1, BreakerInvariant, PTL

\* An Open breaker holds no probe slot of an earlier half-open generation.
THEOREM OpenHasNoProbesHolds == Spec => []OpenHasNoProbes
<1>1. BreakerInv => OpenHasNoProbes
  BY DEF BreakerInv, Transitions
<1> QED BY <1>1, BreakerInvariant, PTL

\* The ledger bounds the unexpired probes: below the limit by the counter,
\* past it because only the last claim can be unexpired.
LEMMA LedgerBoundsProbes == BreakerInv => ProbesBounded
<1> SUFFICES ASSUME BreakerInv PROVE Cardinality(Unexpired) <= MaxProbes
  BY DEF ProbesBounded
<1> DEFINE n == Len(claims)
<1>0. ProbeLedger /\ claims \in Seq(Nat)
  BY DEF BreakerInv, CoreType
<1>1. /\ n \in Nat /\ DOMAIN claims = 1..n /\ now \in Nat
      /\ \A i \in 1..n : claims[i] \in Nat
  BY <1>0 DEF BreakerInv, CoreType
<1>2. CASE n <= MaxProbes
  <2>1. Unexpired \subseteq 1..n
    BY <1>1 DEF Unexpired
  <2>2. IsFiniteSet(1..n) /\ Cardinality(1..n) = n
    BY <1>1, FS_Interval
  <2>3. Cardinality(Unexpired) <= n /\ Cardinality(Unexpired) \in Nat
    BY <2>1, <2>2, FS_Subset, FS_CardinalityType
  <2> QED BY <1>1, <1>2, <2>3, BreakerConfig
<1>3. CASE n > MaxProbes
  <2>1. Unexpired \subseteq {n}
    <3>1. n >= 1 /\ n \in 1..n
      BY <1>1, <1>3, BreakerConfig
    <3>2. /\ \A i \in 1..(n - 1) : claims[n] - claims[i] >= OpenDuration
          /\ claims[n] <= now
      BY <1>0, <1>3, <3>1 DEF ProbeLedger
    <3>3. ASSUME NEW i \in 1..n, now - claims[i] < OpenDuration PROVE i = n
      <4>1. claims[i] \in Nat /\ claims[n] \in Nat /\ now \in Nat /\ OpenDuration \in Nat
        BY <1>1, <3>1, BreakerConfig
      <4>2. ~(claims[n] - claims[i] >= OpenDuration)
        BY <3>2, <3>3, <4>1
      <4>3. i \notin 1..(n - 1)
        BY <3>2, <4>2
      <4> HIDE DEF n
      <4> QED BY <1>1, <4>3
    <3> QED BY <1>1, <3>3 DEF Unexpired
  <2>2. IsFiniteSet({n}) /\ Cardinality({n}) = 1
    BY FS_Singleton
  <2>3. Cardinality(Unexpired) <= 1 /\ Cardinality(Unexpired) \in Nat
    BY <2>1, <2>2, FS_Subset, FS_CardinalityType
  <2> QED BY <2>3, BreakerConfig
<1> QED BY <1>1, <1>2, <1>3, BreakerConfig

\* No more than half_open_max_probes probes younger than open_duration are out,
\* however many callers race for the slots and abandon them.
THEOREM ProbesBoundedHolds == Spec => []ProbesBounded
  BY LedgerBoundsProbes, BreakerInvariant, PTL

\* A caller is refused in HalfOpen only while a probe younger than
\* open_duration is out, so lost probes cannot shed traffic for longer.
THEOREM RefusedForFreshClaimHolds == Spec => RefusedForFreshClaim
<1>1. BreakerInv /\ [Next]_vars =>
        [\A c \in Callers :
           Probe(c) /\ state = "HalfOpen" /\ pc'[c] = "idle" => Unexpired # {}]_vars
  <2> SUFFICES ASSUME BreakerInv, NEW c \in Callers,
                      Probe(c), state = "HalfOpen", pc'[c] = "idle"
               PROVE  Unexpired # {}
    OBVIOUS
  <2>1. ~Claimed(c)
    BY DEF Claimed, Goto, BreakerInv, CoreType
  <2>2. probes >= MaxProbes /\ ~Reclaimable
    BY <2>1 DEF Probe
  <2>3. /\ Len(claims) > 0 /\ Len(claims) \in DOMAIN claims
        /\ claims[Len(claims)] \in Nat /\ now \in Nat
        /\ claimedAt = claims[Len(claims)] + 1
    <3>1. claims \in Seq(Nat) /\ Len(claims) \in Nat /\ probes \in Nat /\ ProbeLedger
      BY DEF BreakerInv, CoreType
    <3>2. Len(claims) > 0
      BY <2>2, <3>1, BreakerConfig DEF ProbeLedger
    <3> QED BY <3>1, <3>2 DEF ProbeLedger, BreakerInv, CoreType
  <2>4. now - claims[Len(claims)] < OpenDuration
    BY <2>2, <2>3, BreakerConfig DEF Reclaimable, NO_PROBE_CLAIM
  <2> QED BY <2>3, <2>4 DEF Unexpired
<1> QED BY <1>1, BreakerInvariant, PTL DEF Spec, RefusedForFreshClaim

-----------------------------------------------------------------------------
(***************************************************************************)
(* The sliding window counts its failures.                                 *)
(***************************************************************************)

\* What window.rs keeps between its operations: a window within its limit whose
\* failure count is the number of failures in it.
WindowOK(w) ==
    /\ w \in [entries : Seq(Entry), failures : Nat]
    /\ Len(w.entries) <= MaxEntries
    /\ w.failures = FailuresIn(w.entries)

\* The failures among the first n entries, and those behind them.
Front(e, n) == {i \in 1..n : e[i].failure}
Back(e, n) == {i \in (n + 1)..Len(e) : e[i].failure}

\* The failures of the first n entries are those of the sequence cut after n.
LEMMA FrontCounts ==
  ASSUME NEW e \in Seq(Entry), NEW n \in 0..Len(e)
  PROVE  FailuresIn(SubSeq(e, 1, n)) = Cardinality(Front(e, n))
<1>1. /\ DOMAIN SubSeq(e, 1, n) = 1..n
      /\ \A i \in 1..n : SubSeq(e, 1, n)[i] = e[i]
  OBVIOUS
<1>2. {i \in DOMAIN SubSeq(e, 1, n) : SubSeq(e, 1, n)[i].failure} = Front(e, n)
  BY <1>1, Zenon DEF Front
<1> QED
  BY <1>2, Zenon DEF FailuresIn

\* The failures behind the first n entries are those of the rest: its indices
\* are theirs, shifted by n.
LEMMA BackCounts ==
  ASSUME NEW e \in Seq(Entry), NEW n \in 0..Len(e)
  PROVE  /\ IsFiniteSet(Back(e, n))
         /\ FailuresIn(SubSeq(e, n + 1, Len(e))) = Cardinality(Back(e, n))
<1> DEFINE r == SubSeq(e, n + 1, Len(e))
           R == {i \in DOMAIN r : r[i].failure}
           f == [i \in R |-> i + n]
<1>1. /\ Len(e) \in Nat /\ n \in Nat /\ n <= Len(e)
      /\ DOMAIN r = 1..(Len(e) - n)
      /\ \A i \in 1..(Len(e) - n) : r[i] = e[i + n]
  OBVIOUS
<1>2. IsFiniteSet(R)
  <2>1. IsFiniteSet(1..(Len(e) - n))
    BY <1>1, FS_Interval
  <2>2. R \in SUBSET (1..(Len(e) - n))
    BY <1>1
  <2> QED
    BY <2>1, <2>2, FS_Subset
<1>3. R = {i \in 1..(Len(e) - n) : e[i + n].failure}
  BY <1>1, Zenon
<1> HIDE DEF r, R
<1>4. f \in Bijection(R, Back(e, n))
  <2>1. f \in [R -> Back(e, n)]
    BY <1>1, <1>3 DEF Back
  <2>2. \A a, b \in R : f[a] = f[b] => a = b
    BY <1>1, <1>3
  <2>3. \A k \in Back(e, n) : \E i \in R : f[i] = k
    <3> SUFFICES ASSUME NEW k \in Back(e, n) PROVE \E i \in R : f[i] = k
      OBVIOUS
    <3>1. k \in (n + 1)..Len(e) /\ e[k].failure
      BY DEF Back
    <3>2. k - n \in 1..(Len(e) - n) /\ (k - n) + n = k
      BY <1>1, <3>1
    <3>3. k - n \in R
      BY <1>3, <3>1, <3>2
    <3> QED
      BY <3>2, <3>3
  <2> QED
    <3>1. DOMAIN f = R
      OBVIOUS
    <3> HIDE DEF f
    <3> QED
      BY <2>1, <2>2, <2>3, <3>1, Zenon DEF Bijection, Injection, Surjection, IsInjective
<1>5. ExistsBijection(R, Back(e, n))
  BY <1>4 DEF ExistsBijection
<1>6. IsFiniteSet(Back(e, n)) /\ Cardinality(Back(e, n)) = Cardinality(R)
  BY <1>2, <1>5, FS_Bijection
<1> QED
  BY <1>6, Zenon DEF FailuresIn, R, r

\* Dropping entries from the front keeps the count: the code subtracts one for
\* each failure it drops.
LEMMA DroppedCounts ==
  ASSUME NEW w, WindowOK(w), NEW n \in 0..Len(w.entries)
  PROVE  WindowOK(Dropped(w, n)) /\ Len(Dropped(w, n).entries) = Len(w.entries) - n
<1> DEFINE e == w.entries
<1>1. e \in Seq(Entry) /\ Len(e) \in Nat /\ w.failures \in Nat /\ Len(e) <= MaxEntries
  BY DEF WindowOK
<1> HIDE DEF e
<1>2. n \in 0..Len(e) /\ n \in Nat
  BY <1>1 DEF e
<1>3. SubSeq(e, n + 1, Len(e)) \in Seq(Entry) /\ Len(SubSeq(e, n + 1, Len(e))) = Len(e) - n
  BY <1>1, <1>2
<1>4. w.failures = Cardinality({i \in 1..Len(e) : e[i].failure})
  <2>1. DOMAIN e = 1..Len(e)
    BY <1>1
  <2>2. w.failures = Cardinality({i \in DOMAIN e : e[i].failure})
    BY Zenon DEF WindowOK, FailuresIn, e
  <2> QED
    BY <2>1, <2>2, Zenon
<1>5. {i \in 1..Len(e) : e[i].failure} = Front(e, n) \cup Back(e, n) /\ Front(e, n) \cap Back(e, n) = {}
  BY <1>1, <1>2 DEF Front, Back
<1>6. IsFiniteSet(Front(e, n))
  <2>1. IsFiniteSet(1..n)
    BY <1>2, FS_Interval
  <2>2. Front(e, n) \in SUBSET (1..n)
    BY DEF Front
  <2> QED
    BY <2>1, <2>2, FS_Subset
<1>7. /\ IsFiniteSet(Back(e, n))
      /\ FailuresIn(SubSeq(e, n + 1, Len(e))) = Cardinality(Back(e, n))
      /\ FailuresIn(SubSeq(e, 1, n)) = Cardinality(Front(e, n))
  BY <1>1, <1>2, FrontCounts, BackCounts
<1>8. Cardinality(Front(e, n)) \in Nat /\ Cardinality(Back(e, n)) \in Nat
  BY <1>6, <1>7, FS_CardinalityType
<1>9. w.failures = Cardinality(Front(e, n)) + Cardinality(Back(e, n))
  <2>1. Cardinality(Front(e, n) \cup Back(e, n))
          = Cardinality(Front(e, n)) + Cardinality(Back(e, n)) - Cardinality(Front(e, n) \cap Back(e, n))
    BY <1>6, <1>7, FS_Union
  <2>2. Cardinality(Front(e, n) \cap Back(e, n)) = 0
    BY <1>5, FS_EmptySet, Zenon
  <2>3. w.failures = Cardinality(Front(e, n) \cup Back(e, n))
    BY <1>4, <1>5, Zenon
  <2> QED
    BY <1>8, <2>1, <2>2, <2>3
<1>10. w.failures - FailuresIn(SubSeq(e, 1, n)) = FailuresIn(SubSeq(e, n + 1, Len(e)))
       /\ FailuresIn(SubSeq(e, n + 1, Len(e))) \in Nat
  BY <1>7, <1>8, <1>9
<1>11. /\ Dropped(w, n).entries = SubSeq(e, n + 1, Len(e))
       /\ Dropped(w, n).failures = w.failures - FailuresIn(SubSeq(e, 1, n))
       /\ Dropped(w, n) = [entries |-> SubSeq(e, n + 1, Len(e)),
                           failures |-> w.failures - FailuresIn(SubSeq(e, 1, n))]
  BY DEF Dropped, e
<1> QED
  <2>1. Dropped(w, n) \in [entries : Seq(Entry), failures : Nat]
    BY <1>3, <1>10, <1>11
  <2>2. Len(Dropped(w, n).entries) <= MaxEntries /\ Len(Dropped(w, n).entries) = Len(w.entries) - n
    BY <1>1, <1>2, <1>3, <1>11, BreakerConfig DEF e
  <2>3. Dropped(w, n).failures = FailuresIn(Dropped(w, n).entries)
    BY <1>10, <1>11
  <2> QED
    BY <2>1, <2>2, <2>3 DEF WindowOK

\* Appending an entry to a window with room for it keeps the count.
LEMMA AppendCounts ==
  ASSUME NEW v, WindowOK(v), Len(v.entries) < MaxEntries, NEW failure \in BOOLEAN, NEW at \in Nat
  PROVE  WindowOK([entries  |-> Append(v.entries, [at |-> at, failure |-> failure]),
                   failures |-> v.failures + (IF failure THEN 1 ELSE 0)])
<1> DEFINE e == v.entries
           x == [at |-> at, failure |-> failure]
           g == Append(e, x)
           F == {i \in 1..Len(e) : e[i].failure}
           k == Len(e) + 1
<1>1. e \in Seq(Entry) /\ Len(e) \in Nat /\ v.failures \in Nat /\ DOMAIN e = 1..Len(e)
  BY DEF WindowOK
<1>2. x \in Entry /\ x.failure = failure
  BY DEF Entry
<1> HIDE DEF e, x
<1>3. /\ g \in Seq(Entry) /\ Len(g) = k /\ DOMAIN g = 1..k /\ g[k] = x
      /\ \A i \in 1..Len(e) : g[i] = e[i]
  BY <1>1, <1>2
<1>4. v.failures = Cardinality(F)
  <2>1. v.failures = Cardinality({i \in DOMAIN e : e[i].failure})
    BY Zenon DEF WindowOK, FailuresIn, e
  <2> QED
    BY <1>1, <2>1, Zenon
<1>5. IsFiniteSet(F) /\ k \notin F
  <2>1. IsFiniteSet(1..Len(e))
    BY <1>1, FS_Interval
  <2>2. F \in SUBSET (1..Len(e)) /\ k \notin 1..Len(e)
    BY <1>1
  <2>3. IsFiniteSet(F)
    BY <2>1, <2>2, FS_Subset
  <2> QED
    BY <2>2, <2>3
<1>6. Cardinality(F \cup {k}) = Cardinality(F) + 1
  BY <1>5, FS_AddElement
<1> HIDE DEF g, k
<1>7. 1..k = 1..Len(e) \cup {k} /\ k \notin 1..Len(e)
  BY <1>1 DEF k
<1>8. {i \in DOMAIN g : g[i].failure} = IF failure THEN F \cup {k} ELSE F
  <2>1. {i \in DOMAIN g : g[i].failure} = {i \in 1..k : g[i].failure}
    BY <1>3, Zenon
  <2>2. ASSUME NEW i \in 1..Len(e) PROVE g[i].failure <=> e[i].failure
    BY <1>3, Zenon
  <2>3. g[k].failure = failure
    BY <1>2, <1>3, Zenon
  <2>4. CASE failure
    BY <1>7, <2>1, <2>2, <2>3, <2>4, Zenon
  <2>5. CASE ~failure
    BY <1>7, <2>1, <2>2, <2>3, <2>5, Zenon
  <2> QED
    BY <2>4, <2>5
<1> HIDE DEF F
<1>9. FailuresIn(g) = v.failures + (IF failure THEN 1 ELSE 0)
  <2>1. FailuresIn(g) = Cardinality(IF failure THEN F \cup {k} ELSE F)
    BY <1>8, Zenon DEF FailuresIn
  <2>2. CASE failure
    <3>1. FailuresIn(g) = Cardinality(F \cup {k})
      BY <2>1, <2>2, Zenon
    <3> QED
      BY <1>4, <1>6, <2>2, <3>1
  <2>3. CASE ~failure
    <3>1. FailuresIn(g) = Cardinality(F)
      BY <2>1, <2>3, Zenon
    <3> QED
      BY <1>1, <1>4, <2>3, <3>1
  <2> QED
    BY <2>2, <2>3
<1> DEFINE w == [entries |-> g, failures |-> v.failures + (IF failure THEN 1 ELSE 0)]
<1>10. w \in [entries : Seq(Entry), failures : Nat] /\ Len(w.entries) = Len(e) + 1
  BY <1>1, <1>3 DEF k
<1>11. Len(w.entries) <= MaxEntries
  BY <1>1, <1>10, BreakerConfig DEF e
<1>12. w.failures = FailuresIn(w.entries)
  BY <1>9
<1>13. WindowOK(w)
  BY <1>10, <1>11, <1>12 DEF WindowOK
<1> QED
  BY <1>13 DEF g, e, x

\* clear, and the window of a new breaker.
LEMMA EmptyCounts == WindowOK(EmptyWindow)
<1>1. /\ EmptyWindow.entries = <<>> /\ EmptyWindow.failures = 0 /\ DOMAIN <<>> = {}
      /\ EmptyWindow \in [entries : Seq(Entry), failures : Nat] /\ Len(EmptyWindow.entries) = 0
  BY DEF EmptyWindow
<1>2. {i \in DOMAIN EmptyWindow.entries : EmptyWindow.entries[i].failure} = {}
  BY <1>1, Zenon
<1>3. FailuresIn(EmptyWindow.entries) = 0
  BY <1>2, FS_EmptySet, Zenon DEF FailuresIn
<1> QED
  BY <1>1, <1>3, BreakerConfig DEF WindowOK

\* push, into a full window too.
LEMMA PushCounts ==
  ASSUME NEW w, WindowOK(w), NEW failure \in BOOLEAN, NEW at \in Nat
  PROVE  WindowOK(Push(w, failure, at))
<1> DEFINE v == IF Len(w.entries) >= MaxEntries THEN Dropped(w, 1) ELSE w
<1>1. Len(w.entries) \in Nat /\ Len(w.entries) <= MaxEntries
  BY DEF WindowOK
<1>2. WindowOK(v) /\ Len(v.entries) < MaxEntries
  <2>1. CASE Len(w.entries) >= MaxEntries
    <3>1. 1 \in 0..Len(w.entries)
      BY <1>1, <2>1, BreakerConfig
    <3>2. WindowOK(Dropped(w, 1)) /\ Len(Dropped(w, 1).entries) = Len(w.entries) - 1
      BY <3>1, DroppedCounts
    <3> QED
      BY <1>1, <2>1, <3>2, BreakerConfig
  <2>2. CASE ~(Len(w.entries) >= MaxEntries)
    BY <1>1, <2>2, BreakerConfig
  <2> QED
    BY <2>1, <2>2
<1> HIDE DEF v
<1>3. WindowOK([entries  |-> Append(v.entries, [at |-> at, failure |-> failure]),
                failures |-> v.failures + (IF failure THEN 1 ELSE 0)])
  BY <1>2, AppendCounts
<1> QED
  BY <1>3, Zenon DEF Push, v

\* A non-empty set of numbers up to a limit has a largest element.
LEMMA LargestExists ==
  ASSUME NEW limit \in Nat, NEW S \in SUBSET (0..limit), S # {}
  PROVE  Max(S) \in S
<1> DEFINE T == {limit - n : n \in S}
           R == OpToRel(<, Nat)
<1>1. T \subseteq Nat /\ T # {}
  <2>1. \A n \in S : limit - n \in Nat
    OBVIOUS
  <2>2. \E n \in S : TRUE
    BY Zenon
  <2> QED
    BY <2>1, <2>2, Zenon
<1>2. \E x \in T : \A y \in T : ~ (<<y, x>> \in R)
  BY <1>1, WFMin, NatLessThanWellFounded
<1>3. PICK x \in T : \A y \in T : ~ (<<y, x>> \in R)
  BY <1>2
<1>4. \A y \in T : ~(y < x)
  BY <1>1, <1>3 DEF OpToRel
<1>5. PICK n \in S : x = limit - n
  BY <1>3
<1>6. \A m \in S : n >= m
  BY <1>4, <1>5
<1> QED
  BY <1>6, Zenon DEF Max

\* evict.
LEMMA EvictCounts ==
  ASSUME NEW w, WindowOK(w), NEW t
  PROVE  WindowOK(Evict(w, t))
<1> DEFINE S == {n \in 0..Len(w.entries) : \A i \in 1..n : w.entries[i].at < t - WindowDuration}
<1>1. Len(w.entries) \in Nat
  BY DEF WindowOK
<1>2. 0 \in S /\ S \in SUBSET (0..Len(w.entries))
  BY <1>1
<1>3. Max(S) \in 0..Len(w.entries)
  <2> HIDE DEF S
  <2> QED
    BY <1>1, <1>2, LargestExists
<1>4. Evict(w, t) = Dropped(w, Max(S))
  BY Zenon DEF Evict
<1> HIDE DEF S
<1> QED
  BY <1>3, <1>4, DroppedCounts

-----------------------------------------------------------------------------
(***************************************************************************)
(* The types.                                                              *)
(***************************************************************************)

\* The types of what CoreType leaves out, with the clock within its bound.
RestTyped ==
    /\ openedAt \in Nat /\ now \in 0..MaxTime
    /\ WindowOK(window)
    /\ saw \in [Callers -> [opened : Nat, now : Nat, failure : BOOLEAN]]

\* A sight built from typed parts is typed.
LEMMA SightTyped ==
  ASSUME NEW o \in Nat, NEW t \in Nat, NEW failure \in BOOLEAN
  PROVE  /\ NoSight \in [opened : Nat, now : Nat, failure : BOOLEAN]
         /\ [NoSight EXCEPT !.opened = o] \in [opened : Nat, now : Nat, failure : BOOLEAN]
         /\ [NoSight EXCEPT !.now = t] \in [opened : Nat, now : Nat, failure : BOOLEAN]
         /\ [NoSight EXCEPT !.now = t, !.failure = failure] \in [opened : Nat, now : Nat, failure : BOOLEAN]
  BY DEF NoSight

\* Every step keeps the window, the clock and what the callers have loaded.
LEMMA RestTypedStep == RestTyped /\ [Next]_vars => RestTyped'
<1> SUFFICES ASSUME RestTyped, [Next]_vars PROVE RestTyped'
  OBVIOUS
<1> DEFINE Sights == [opened : Nat, now : Nat, failure : BOOLEAN]
<1>0. /\ openedAt \in Nat /\ now \in 0..MaxTime /\ now \in Nat /\ WindowOK(window)
      /\ saw \in [Callers -> Sights]
  BY BreakerConfig DEF RestTyped
<1>1. \A c \in Callers : saw[c].opened \in Nat /\ saw[c].now \in Nat /\ saw[c].failure \in BOOLEAN
  BY <1>0
<1> HIDE DEF Sights
<1>2. CASE UNCHANGED vars
  BY <1>2 DEF vars, RestTyped
<1>3. CASE Tick
  BY <1>0, <1>3, BreakerConfig DEF Tick, RestTyped, Sights
<1>4. ASSUME NEW c \in Callers, NEW sight \in Sights, Sees(c, sight)
      PROVE  saw' \in [Callers -> Sights]
  BY <1>0, <1>4 DEF Sees
<1>5. ASSUME NEW c \in Callers,
             \/ Check(c) \/ CasHalfOpen(c) \/ StoreMirror(c) \/ Reload(c) \/ Probe(c)
             \/ Abandon(c) \/ LoadPrevState(c) \/ PublishOpen(c) \/ LatchOpen(c) \/ ResetClosed(c)
      PROVE  RestTyped'
  <2>1. UNCHANGED <<openedAt, window, now, saw>>
    BY <1>5 DEF Check, CasHalfOpen, StoreMirror, Reload, Probe, Abandon, LoadPrevState,
       PublishOpen, LatchOpen, ResetClosed
  <2> QED
    BY <2>1 DEF RestTyped
<1>6. ASSUME NEW c \in Callers,
             \/ LoadOpened(c) \/ CompareOpened(c) \/ Trip(c) \/ Close(c) \/ ReadClock(c)
             \/ \E failure \in BOOLEAN : Record(c, failure)
      PROVE  RestTyped'
  <2>1. \E sight \in Sights : Sees(c, sight)
    BY <1>0, <1>6, SightTyped, Zenon
       DEF LoadOpened, CompareOpened, Trip, Close, ReadClock, Record, Sights
  <2>2. saw' \in [Callers -> Sights]
    BY <1>4, <2>1
  <2>3. UNCHANGED <<window, now>> /\ openedAt' \in {openedAt, now}
    BY <1>6 DEF LoadOpened, CompareOpened, Trip, Close, ReadClock, Record
  <2> QED
    BY <1>0, <2>2, <2>3 DEF RestTyped, Sights
<1>7. ASSUME NEW c \in Callers, Sample(c) \/ ClearWindow(c) \/ ErrorRate(c)
      PROVE  RestTyped'
  <2>1. WindowOK(window')
    <3>1. CASE Sample(c)
      <4>1. window' = Evict(Push(window, saw[c].failure, saw[c].now), saw[c].now)
        BY <3>1 DEF Sample
      <4>2. WindowOK(Push(window, saw[c].failure, saw[c].now))
        BY <1>0, <1>1, PushCounts
      <4> QED
        BY <4>1, <4>2, EvictCounts
    <3>2. CASE ErrorRate(c)
      BY <1>0, <3>2, EvictCounts DEF ErrorRate
    <3>3. CASE ClearWindow(c)
      <4>1. window' = EmptyWindow
        BY <3>3 DEF ClearWindow
      <4> QED
        BY <4>1, EmptyCounts
    <3> QED
      BY <1>7, <3>1, <3>2, <3>3
  <2>2. saw' \in [Callers -> Sights]
    <3>1. saw' = saw \/ Sees(c, NoSight)
      BY <1>7 DEF Sample, ClearWindow, ErrorRate
    <3>2. NoSight \in Sights
      BY SightTyped DEF Sights
    <3> QED
      BY <1>0, <1>4, <3>1, <3>2
  <2>3. UNCHANGED <<openedAt, now>>
    BY <1>7 DEF Sample, ClearWindow, ErrorRate
  <2> QED
    BY <1>0, <2>1, <2>2, <2>3 DEF RestTyped, Sights
<1> QED
  BY <1>2, <1>3, <1>5, <1>6, <1>7 DEF Next

\* The window's count of failures is exact and the window within its limit, the
\* probe counter within half_open_max_probes, and every other part of the state
\* typed, for any number of callers and any configuration.
THEOREM BreakerTypeOK == Spec => []TypeOK
<1>1. Init => RestTyped
  <2>1. NoSight \in [opened : Nat, now : Nat, failure : BOOLEAN]
    BY DEF NoSight
  <2>2. Init => openedAt \in Nat /\ now \in 0..MaxTime
    BY BreakerConfig DEF Init
  <2>3. Init => WindowOK(window)
    BY EmptyCounts, Zenon DEF Init
  <2>4. Init => saw \in [Callers -> [opened : Nat, now : Nat, failure : BOOLEAN]]
    BY <2>1, Zenon DEF Init
  <2> QED
    BY <2>2, <2>3, <2>4, Zenon DEF RestTyped
<1>2. RestTyped /\ BreakerInv => TypeOK
  <2> SUFFICES ASSUME RestTyped, BreakerInv PROVE TypeOK
    OBVIOUS
  <2>1. probes \in 0..MaxProbes
    BY BreakerConfig DEF BreakerInv, CoreType, ProbeLedger
  <2> QED
    BY <2>1 DEF RestTyped, WindowOK, BreakerInv, CoreType, TypeOK
<1> QED
  BY <1>1, <1>2, RestTypedStep, BreakerInvariant, PTL DEF Spec

=============================================================================

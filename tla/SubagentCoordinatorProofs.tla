--------------------- MODULE SubagentCoordinatorProofs ---------------------
(***************************************************************************)
(* Proofs about SubagentCoordinator, for every value of its constants.     *)
(*                                                                         *)
(* The limit on running children and the absence of a lost wake-up of the  *)
(* queue rest on one fact about the sweep that ends finish_child: it       *)
(* starts exactly as many spawns of a session as there is room for         *)
(* (SweepExact).  The rest of the inductive invariant says what the sweep  *)
(* relies on: the queue is totally ordered by arrival, holds no workflow   *)
(* child, and shares no id with the other tables.                          *)
(***************************************************************************)
EXTENDS SubagentCoordinator, TLAPS, FiniteSetTheorems, WellFoundedInduction

-----------------------------------------------------------------------------
(***************************************************************************)
(* Finite strict orders.                                                   *)
(***************************************************************************)

\* A non-empty finite set has a minimal element in any strict order on it.
LEMMA MinimalExists ==
  ASSUME NEW S, IsFiniteSet(S), S # {}, NEW ord,
         \A x \in S : <<x, x>> \notin ord,
         \A x, y, z \in S : <<x, y>> \in ord /\ <<y, z>> \in ord => <<x, z>> \in ord
  PROVE  \E m \in S : \A x \in S : <<x, m>> \notin ord
<1> DEFINE Below(x) == {y \in S : <<y, x>> \in ord}
           T == {Below(x) : x \in S}
<1>1. T # {} /\ T \subseteq SUBSET S
  <2>1. PICK x \in S : TRUE
    OBVIOUS
  <2>2. Below(x) \in T
    BY <2>1
  <2>3. ASSUME NEW t \in T PROVE t \in SUBSET S
    OBVIOUS
  <2> QED
    BY <2>2, <2>3
<1>2. IsWellFoundedOn(StrictSubsetOrdering(S), SUBSET S)
  BY FS_StrictSubsetOrderingWellFounded, FS_FiniteSubsetsOfFinite
<1>3. PICK t \in T : \A u \in T : <<u, t>> \notin StrictSubsetOrdering(S)
  <2> HIDE DEF T
  <2> QED
    BY <1>1, <1>2, WFMin
<1>4. PICK m \in S : t = Below(m)
  OBVIOUS
<1>5. ASSUME NEW x \in S, <<x, m>> \in ord
      PROVE  FALSE
  <2>1. Below(x) \subseteq Below(m) /\ Below(x) # Below(m)
    BY <1>5
  <2>2. <<Below(x), Below(m)>> \in StrictSubsetOrdering(S)
    BY <2>1 DEF StrictSubsetOrdering
  <2> QED
    BY <2>2, <1>3, <1>4
<1> QED
  BY <1>5

\* ... and a maximal one.
LEMMA MaximalExists ==
  ASSUME NEW S, IsFiniteSet(S), S # {}, NEW ord,
         \A x \in S : <<x, x>> \notin ord,
         \A x, y, z \in S : <<x, y>> \in ord /\ <<y, z>> \in ord => <<x, z>> \in ord
  PROVE  \E m \in S : \A x \in S : <<m, x>> \notin ord
<1> DEFINE conv == {p \in S \X S : <<p[2], p[1]>> \in ord}
<1>1. \A x, y \in S : <<x, y>> \in conv <=> <<y, x>> \in ord
  OBVIOUS
<1>2. \A x \in S : <<x, x>> \notin conv
  BY <1>1
<1>3. \A x, y, z \in S : <<x, y>> \in conv /\ <<y, z>> \in conv => <<x, z>> \in conv
  BY <1>1
<1>4. \E m \in S : \A x \in S : <<x, m>> \notin conv
  <2> HIDE DEF conv
  <2> QED
    BY <1>2, <1>3, MinimalExists
<1> QED
  BY <1>1, <1>4

-----------------------------------------------------------------------------
(***************************************************************************)
(* The inductive invariant.                                                *)
(***************************************************************************)

\* Positions of a VecDeque: a strict total order of its entries.
ArrivalOrder ==
  /\ arrival \subseteq queued \X queued
  /\ \A c \in queued : <<c, c>> \notin arrival
  /\ \A c, d, e \in queued : <<c, d>> \in arrival /\ <<d, e>> \in arrival => <<c, e>> \in arrival
  /\ \A c, d \in queued : c = d \/ <<c, d>> \in arrival \/ <<d, c>> \in arrival

\* "workflow spawns bypass admission and must never queue"
QueuedAreTasks == \A c \in queued : ~IsWorkflow(c)

RegistryInv ==
  /\ RegistryTypeOK
  /\ RegistryConsistent
  /\ ArrivalOrder
  /\ QueuedAreTasks
  /\ SlotLimit
  /\ QueuedImpliesFull

-----------------------------------------------------------------------------
(***************************************************************************)
(* The sweep.                                                              *)
(***************************************************************************)

\* The children a session runs are some of the finitely many children.
LEMMA RunningFinite ==
  ASSUME NEW S \in SUBSET Children, NEW s
  PROVE  /\ RunningOf(s, S) \in SUBSET S
         /\ IsFiniteSet(RunningOf(s, S))
         /\ Cardinality(RunningOf(s, S)) \in Nat
<1>1. RunningOf(s, S) \in SUBSET Children /\ RunningOf(s, S) \in SUBSET S
  BY DEF RunningOf
<1> QED
  BY <1>1, ChildrenAssumption, FS_Subset, FS_CardinalityType

\* start_queued_within_capacity starts exactly what fits: a session within its
\* limit stays within it, and an entry is left behind only at the limit.
LEMMA SweepExact ==
  ASSUME RegistryTypeOK, ArrivalOrder, QueuedAreTasks,
         NEW q \in SUBSET queued, NEW left \in SUBSET Children, q \cap left = {},
         NEW s \in Owners
  PROVE  /\ Cardinality(RunningOf(s, left)) <= MaxConcurrent =>
              Cardinality(RunningOf(s, left \cup Startable(q, left))) <= MaxConcurrent
         /\ \A c \in q \ Startable(q, left) : req[c].session = s =>
              Cardinality(RunningOf(s, left \cup Startable(q, left))) >= MaxConcurrent
<1> DEFINE start == Startable(q, left)
           mine  == {c \in q : req[c].session = s}
           upTo(c) == {d \in q : req[d].session = req[c].session /\ (d = c \/ <<d, c>> \in arrival)}
           started == start \cap mine
           here == RunningOf(s, left)
<1>1. /\ q \in SUBSET Children /\ mine \in SUBSET Children /\ started \in SUBSET Children
      /\ start \in SUBSET q /\ \A c : upTo(c) \in SUBSET Children
  BY DEF RegistryTypeOK, Startable
<1>2. /\ IsFiniteSet(mine) /\ IsFiniteSet(started) /\ IsFiniteSet(here)
      /\ Cardinality(started) \in Nat /\ Cardinality(here) \in Nat
      /\ \A c : IsFiniteSet(upTo(c)) /\ Cardinality(upTo(c)) \in Nat
  BY <1>1, ChildrenAssumption, FS_Subset, FS_CardinalityType, RunningFinite
<1>3. MaxConcurrent \in Nat
  BY LimitAssumption
<1>4. \A c \in mine : c \in start <=> Cardinality(here) + Cardinality(upTo(c)) <= MaxConcurrent
  BY DEF Startable
<1>5. RunningOf(s, left \cup start) = here \cup started
  BY <1>1 DEF RunningOf, QueuedAreTasks
<1>6. Cardinality(RunningOf(s, left \cup start)) = Cardinality(here) + Cardinality(started)
  <2>1. here \cap started = {}
    BY <1>1 DEF RunningOf
  <2> HIDE DEF here, started, start
  <2>2. Cardinality(here \cup started)
          = Cardinality(here) + Cardinality(started) - Cardinality(here \cap started)
    BY <1>2, FS_Union
  <2>3. Cardinality(here \cap started) = 0
    BY <2>1, FS_EmptySet
  <2>4. Cardinality(here) \in Nat /\ Cardinality(started) \in Nat
    BY <1>2
  <2>5. Cardinality(RunningOf(s, left \cup start)) = Cardinality(here \cup started)
    BY <1>5, Zenon
  <2> QED
    BY <2>2, <2>3, <2>4, <2>5
<1>7. /\ \A c \in mine : <<c, c>> \notin arrival
      /\ \A c, d, e \in mine : <<c, d>> \in arrival /\ <<d, e>> \in arrival => <<c, e>> \in arrival
      /\ \A c, d \in mine : c = d \/ <<c, d>> \in arrival \/ <<d, c>> \in arrival
  BY DEF ArrivalOrder
<1> HIDE DEF start, here
<1>8. Cardinality(here) <= MaxConcurrent =>
        Cardinality(RunningOf(s, left \cup start)) <= MaxConcurrent
  <2>1. CASE started = {}
    BY <2>1, <1>2, <1>3, <1>6, FS_EmptySet
  <2>2. CASE started # {}
    <3>1. PICK m \in started : \A d \in started : <<m, d>> \notin arrival
      <4>1. /\ \A c \in started : <<c, c>> \notin arrival
            /\ \A c, d, e \in started :
                 <<c, d>> \in arrival /\ <<d, e>> \in arrival => <<c, e>> \in arrival
        BY <1>7
      <4> HIDE DEF started
      <4> QED
        BY <4>1, <2>2, <1>2, MaximalExists
    <3>2. started \subseteq upTo(m)
      BY <3>1, <1>7, <1>1
    <3>3. Cardinality(started) <= Cardinality(upTo(m))
      BY <3>2, <1>2, FS_Subset
    <3>4. Cardinality(here) + Cardinality(upTo(m)) <= MaxConcurrent
      BY <3>1, <1>4
    <3> HIDE DEF upTo, started
    <3> QED
      BY <3>3, <3>4, <1>2, <1>3, <1>6
  <2> QED
    BY <2>1, <2>2
<1>9. ASSUME NEW c \in q \ start, req[c].session = s
      PROVE  Cardinality(RunningOf(s, left \cup start)) >= MaxConcurrent
  <2> DEFINE kept == mine \ start
  <2>1. c \in kept /\ IsFiniteSet(kept)
    BY <1>9, <1>2, FS_Subset
  <2>2. PICK m \in kept : \A d \in kept : <<d, m>> \notin arrival
    <3>1. /\ \A x \in kept : <<x, x>> \notin arrival
          /\ \A x, y, z \in kept :
               <<x, y>> \in arrival /\ <<y, z>> \in arrival => <<x, z>> \in arrival
      BY <1>7
    <3> HIDE DEF kept
    <3> QED
      BY <3>1, <2>1, MinimalExists
  <2>3. upTo(m) \subseteq started \cup {m} /\ m \notin started
    BY <2>2
  <2>4. /\ IsFiniteSet(started \cup {m})
        /\ Cardinality(started \cup {m}) = Cardinality(started) + 1
    BY <2>3, <1>2, FS_AddElement
  <2> HIDE DEF upTo, started
  <2>5. Cardinality(upTo(m)) <= Cardinality(started) + 1
    BY <2>3, <2>4, FS_Subset
  <2>6. ~(Cardinality(here) + Cardinality(upTo(m)) <= MaxConcurrent)
    BY <2>2, <1>4 DEF kept, mine
  <2> QED
    BY <2>5, <2>6, <1>2, <1>3, <1>6
<1> QED
  BY <1>8, <1>9 DEF start, here

-----------------------------------------------------------------------------
(***************************************************************************)
(* How the turns touch the registry.                                       *)
(***************************************************************************)
regVars == <<queued, arrival, pending, active, completed, runs, terminalOutputs, req>>

\* Most turns leave the registry alone.
LEMMA RegistryStutter ==
  ASSUME RegistryInv, UNCHANGED regVars
  PROVE  RegistryInv'
BY DEF RegistryInv, RegistryTypeOK, RegistryConsistent, ArrivalOrder, QueuedAreTasks,
       SlotLimit, QueuedImpliesFull, regVars, RunningOf, IsWorkflow, Live

\* finish_child of any children without a completed record keeps the registry
\* consistent, whatever their table, their result and their callers.
LEMMA FinishChildKeepsRegistry ==
  ASSUME RegistryInv,
         NEW first \in SUBSET Children, NEW second \in SUBSET Children,
         NEW out, NEW t, FinishChild(first, second, out, t),
         (first \cup second) \cap completed = {},
         req' \in [Children -> Request],
         \A d \in Children \ (first \cup second) : req'[d] = req[d]
  PROVE  RegistryInv'
<1> DEFINE gone == first \cup second
           left == (pending \cup active) \ gone
           q == queued \ gone
           start == IF gone = {} THEN {} ELSE Startable(q, left)
<1>1. /\ queued' = q \ start
      /\ arrival' = {p \in arrival : p[1] \in q \ start /\ p[2] \in q \ start}
      /\ pending' = (pending \ gone) \cup start
      /\ active' = active \ gone
      /\ runs' = (runs \ gone) \cup start
      /\ terminalOutputs' = terminalOutputs \ gone
      /\ completed' \subseteq completed \cup gone
  BY Zenon DEF FinishChild, Newest
<1>2. start \subseteq q
  BY DEF Startable
<1>3. /\ q \in SUBSET queued /\ left \in SUBSET Children /\ q \cap left = {}
      /\ RegistryTypeOK /\ ArrivalOrder /\ QueuedAreTasks
  BY DEF RegistryInv, RegistryTypeOK, RegistryConsistent
<1>4. pending' \cup active' = left \cup start
  BY <1>1
<1> HIDE DEF start
<1>5. RegistryTypeOK'
  BY <1>1, <1>2, <1>3 DEF RegistryTypeOK
<1>6. RegistryConsistent'
  BY <1>1, <1>2 DEF RegistryInv, RegistryConsistent, Live
<1>7. ArrivalOrder'
  BY <1>1, <1>3 DEF ArrivalOrder
<1>8. QueuedAreTasks'
  BY <1>1, <1>3 DEF QueuedAreTasks, IsWorkflow, RegistryTypeOK
<1>9. \A s : RunningOf(s, pending \cup active)' = RunningOf(s, left \cup start)
  BY <1>2, <1>3, <1>4 DEF RunningOf, IsWorkflow, RegistryTypeOK
<1>10. SlotLimit'
  <2> SUFFICES ASSUME NEW s \in Owners
               PROVE  Cardinality(RunningOf(s, left \cup start)) <= MaxConcurrent
    BY <1>9 DEF SlotLimit
  <2>1. /\ RunningOf(s, left) \in SUBSET RunningOf(s, pending \cup active)
        /\ pending \cup active \in SUBSET Children
    BY <1>3 DEF RunningOf, RegistryTypeOK
  <2>2. Cardinality(RunningOf(s, left)) <= Cardinality(RunningOf(s, pending \cup active))
    BY <2>1, RunningFinite, FS_Subset
  <2>3. /\ Cardinality(RunningOf(s, left)) \in Nat
        /\ Cardinality(RunningOf(s, pending \cup active)) \in Nat
    BY <2>1, <1>3, RunningFinite
  <2>4. Cardinality(RunningOf(s, pending \cup active)) <= MaxConcurrent
    BY DEF RegistryInv, SlotLimit
  <2>5. Cardinality(RunningOf(s, left)) <= MaxConcurrent
    BY <2>2, <2>3, <2>4, LimitAssumption
  <2>6. CASE start = {}
    <3>1. left \cup start = left
      BY <2>6
    <3> QED
      BY <3>1, <2>5
  <2>7. CASE start = Startable(q, left)
    BY <2>5, <2>7, <1>3, SweepExact
  <2> QED
    BY <2>6, <2>7 DEF start
<1>11. QueuedImpliesFull'
  <2> SUFFICES ASSUME NEW c \in q \ start
               PROVE  Cardinality(RunningOf(req[c].session, left \cup start)) >= MaxConcurrent
    BY <1>1, <1>3, <1>9 DEF QueuedImpliesFull, RegistryTypeOK
  <2>1. req[c].session \in Owners
    BY <1>3 DEF RegistryTypeOK, Request
  <2>2. CASE gone = {}
    <3>1. left \cup start = pending \cup active
      BY <2>2 DEF start
    <3> QED
      BY <3>1 DEF RegistryInv, QueuedImpliesFull
  <2>3. CASE gone # {}
    <3>1. start = Startable(q, left)
      BY <2>3 DEF start
    <3> QED
      BY <3>1, <2>1, <1>3, SweepExact
  <2> QED
    BY <2>2, <2>3
<1> QED
  BY <1>5, <1>6, <1>7, <1>8, <1>10, <1>11 DEF RegistryInv

\* reparent_nested_spawn takes the session of a recorded request.
LEMMA ReparentedIsRequest ==
  ASSUME RegistryInv, NEW r \in Requests
  PROVE  Reparented(r) \in Request
<1>1. r \in Request /\ \A c \in active : req[c] \in Request
  BY RequestsAssumption DEF RegistryInv, RegistryTypeOK
<1>2. CASE r.session \in active
  BY <1>1, <1>2 DEF Reparented, Request
<1>3. CASE r.session \notin active
  BY <1>1, <1>3 DEF Reparented
<1> QED
  BY <1>2, <1>3

\* A registration leaves every other record alone.
LEMMA RegisterReq ==
  ASSUME RegistryInv, NEW c \in Children, NEW r \in Request, Register(c, r)
  PROVE  /\ req' \in [Children -> Request]
         /\ req'[c] = r
         /\ \A d \in Children \ {c} : req'[d] = req[d]
BY DEF Register, RegistryInv, RegistryTypeOK

\* A direct start found room for one more in its session.
LEMMA SpawnStartsKeepsRegistry ==
  ASSUME RegistryInv, NEW c \in Children, NEW r \in Requests, SpawnStarts(c, r)
  PROVE  RegistryInv'
<1> DEFINE r1 == Reparented(r)
           live == pending \cup active
<1>1. /\ queued' = queued /\ arrival' = arrival /\ active' = active
      /\ completed' = completed /\ terminalOutputs' = terminalOutputs
      /\ pending' = pending \cup {c} /\ runs' = runs \cup {c}
      /\ Register(c, r1) /\ HasCapacity(r1)
      /\ c \notin Live \cup completed
  BY DEF SpawnStarts, SpawnAccepted
<1>2. r1 \in Request
  BY ReparentedIsRequest
<1> HIDE DEF r1
<1>3. /\ req' \in [Children -> Request] /\ req'[c] = r1
      /\ \A d \in Children \ {c} : req'[d] = req[d]
  BY <1>1, <1>2, RegisterReq
<1>4. RegistryTypeOK /\ live \in SUBSET Children /\ live \cup {c} \in SUBSET Children
  BY DEF RegistryInv, RegistryTypeOK
<1>5. RegistryTypeOK' /\ RegistryConsistent' /\ ArrivalOrder'
  BY <1>1, <1>3 DEF RegistryInv, RegistryTypeOK, RegistryConsistent, ArrivalOrder, Live
<1>6. QueuedAreTasks'
  BY <1>1, <1>3, <1>4 DEF RegistryInv, QueuedAreTasks, IsWorkflow, RegistryTypeOK, Live
<1>7. /\ pending' \cup active' = live \cup {c} /\ c \notin live
      /\ \A d \in live : req'[d] = req[d]
  BY <1>1, <1>3, <1>4 DEF Live
<1>8. ASSUME NEW s, r1.session = s /\ r1.run = NoRun
      PROVE  RunningOf(s, pending \cup active)' = RunningOf(s, live) \cup {c}
  <2> HIDE DEF live
  <2> QED
    BY <1>3, <1>7, <1>8 DEF RunningOf, IsWorkflow
<1>9. ASSUME NEW s, ~(r1.session = s /\ r1.run = NoRun)
      PROVE  RunningOf(s, pending \cup active)' = RunningOf(s, live)
  <2> HIDE DEF live
  <2> QED
    BY <1>3, <1>7, <1>9 DEF RunningOf, IsWorkflow
<1>10. ASSUME NEW s
       PROVE  /\ Cardinality(RunningOf(s, live)) \in Nat
              /\ Cardinality(RunningOf(s, live) \cup {c}) = Cardinality(RunningOf(s, live)) + 1
  <2>1. IsFiniteSet(RunningOf(s, live)) /\ Cardinality(RunningOf(s, live)) \in Nat
    BY <1>4, RunningFinite
  <2>2. c \notin RunningOf(s, live)
    BY <1>7 DEF RunningOf
  <2> QED
    BY <2>1, <2>2, FS_AddElement
<1>11. SlotLimit'
  <2> SUFFICES ASSUME NEW s \in Owners
               PROVE  Cardinality(RunningOf(s, pending \cup active)') <= MaxConcurrent
    BY DEF SlotLimit
  <2>1. CASE r1.session = s /\ r1.run = NoRun
    <3>1. Cardinality(RunningOf(s, live)) < MaxConcurrent
      BY <1>1, <2>1 DEF HasCapacity
    <3>2. Cardinality(RunningOf(s, pending \cup active)') = Cardinality(RunningOf(s, live) \cup {c})
      <4>1. RunningOf(s, pending \cup active)' = RunningOf(s, live) \cup {c}
        BY <1>8, <2>1
      <4> QED
        BY <4>1, Zenon
    <3>3. /\ Cardinality(RunningOf(s, live) \cup {c}) = Cardinality(RunningOf(s, live)) + 1
          /\ Cardinality(RunningOf(s, live)) \in Nat /\ MaxConcurrent \in Nat
      BY <1>10, LimitAssumption
    <3> QED
      BY <3>1, <3>2, <3>3
  <2>2. CASE ~(r1.session = s /\ r1.run = NoRun)
    <3>1. Cardinality(RunningOf(s, pending \cup active)') = Cardinality(RunningOf(s, live))
      BY <1>9, <2>2, Zenon
    <3> QED
      BY <3>1 DEF RegistryInv, SlotLimit
  <2> QED
    BY <2>1, <2>2
<1>12. QueuedImpliesFull'
  <2> SUFFICES ASSUME NEW d \in queued, NEW s, s = req[d].session
               PROVE  Cardinality(RunningOf(s, pending \cup active)') >= MaxConcurrent
    <3>1. \A d \in queued : req'[d] = req[d]
      BY <1>1, <1>3, <1>4 DEF RegistryTypeOK, Live
    <3> QED
      BY <1>1, <3>1 DEF QueuedImpliesFull
  <2>1. Cardinality(RunningOf(s, live)) >= MaxConcurrent
    BY DEF RegistryInv, QueuedImpliesFull
  <2>2. CASE r1.session = s /\ r1.run = NoRun
    <3>1. Cardinality(RunningOf(s, pending \cup active)') = Cardinality(RunningOf(s, live) \cup {c})
      <4>1. RunningOf(s, pending \cup active)' = RunningOf(s, live) \cup {c}
        BY <1>8, <2>2
      <4> QED
        BY <4>1, Zenon
    <3>3. /\ Cardinality(RunningOf(s, live) \cup {c}) = Cardinality(RunningOf(s, live)) + 1
          /\ Cardinality(RunningOf(s, live)) \in Nat /\ MaxConcurrent \in Nat
      BY <1>10, LimitAssumption
    <3> QED
      BY <2>1, <3>1, <3>3
  <2>3. CASE ~(r1.session = s /\ r1.run = NoRun)
    <3>1. Cardinality(RunningOf(s, pending \cup active)') = Cardinality(RunningOf(s, live))
      BY <1>9, <2>3, Zenon
    <3> QED
      BY <3>1, <2>1
  <2> QED
    BY <2>2, <2>3
<1> QED
  BY <1>5, <1>6, <1>11, <1>12 DEF RegistryInv

\* A queued spawn found its session full, and is the last of the queue.
LEMMA SpawnEnqueuesKeepsRegistry ==
  ASSUME RegistryInv, NEW c \in Children, NEW r \in Requests, SpawnEnqueues(c, r)
  PROVE  RegistryInv'
<1> DEFINE r1 == Reparented(r)
           live == pending \cup active
<1>1. /\ queued' = queued \cup {c} /\ arrival' = arrival \cup (queued \X {c})
      /\ active' = active /\ pending' = pending /\ runs' = runs
      /\ completed' = completed /\ terminalOutputs' = terminalOutputs
      /\ Register(c, r1) /\ ~HasCapacity(r1)
      /\ c \notin Live \cup completed
  BY DEF SpawnEnqueues, SpawnAccepted
<1>2. r1 \in Request
  BY ReparentedIsRequest
<1> HIDE DEF r1
<1>3. /\ req' \in [Children -> Request] /\ req'[c] = r1
      /\ \A d \in Children \ {c} : req'[d] = req[d]
  BY <1>1, <1>2, RegisterReq
<1>4. /\ RegistryTypeOK /\ live \in SUBSET Children
      /\ r1.run = NoRun /\ ~(Cardinality(RunningOf(r1.session, live)) < MaxConcurrent)
  BY <1>1 DEF RegistryInv, RegistryTypeOK, HasCapacity
<1>5. RegistryTypeOK' /\ RegistryConsistent'
  BY <1>1, <1>3 DEF RegistryInv, RegistryTypeOK, RegistryConsistent, Live
<1>6. ArrivalOrder'
  BY <1>1 DEF RegistryInv, ArrivalOrder, Live
<1>7. QueuedAreTasks'
  BY <1>1, <1>3, <1>4 DEF RegistryInv, QueuedAreTasks, IsWorkflow, RegistryTypeOK, Live
<1>8. \A s : RunningOf(s, pending \cup active)' = RunningOf(s, live)
  BY <1>1, <1>3, <1>4 DEF RunningOf, IsWorkflow, Live
<1>9. SlotLimit'
  BY <1>8 DEF RegistryInv, SlotLimit
<1>10. QueuedImpliesFull'
  <2> SUFFICES ASSUME NEW d \in queued \cup {c}
               PROVE  Cardinality(RunningOf(req'[d].session, live)) >= MaxConcurrent
    BY <1>1, <1>8 DEF QueuedImpliesFull
  <2>1. CASE d = c
    BY <2>1, <1>3, <1>4, RunningFinite, LimitAssumption
  <2>2. CASE d # c
    <3>1. req'[d] = req[d] /\ d \in queued
      BY <2>2, <1>3, <1>4 DEF RegistryTypeOK
    <3> QED
      BY <3>1 DEF RegistryInv, QueuedImpliesFull
  <2> QED
    BY <2>1, <2>2
<1> QED
  BY <1>5, <1>6, <1>7, <1>9, <1>10 DEF RegistryInv

\* A rejected spawn is finished without ever having been in a table.
LEMMA SpawnFailsKeepsRegistry ==
  ASSUME RegistryInv, NEW c \in Children, NEW r \in Requests, SpawnFails(c, r)
  PROVE  RegistryInv'
<1>1. Reparented(r) \in Request
  BY ReparentedIsRequest
<1>2. Register(c, Reparented(r)) /\ c \notin Live \cup completed
  BY DEF SpawnFails, SpawnAccepted
<1>3. \E out, t : FinishChild({}, {c}, out, t)
  BY Zenon DEF SpawnFails
<1>4. /\ req' \in [Children -> Request]
      /\ \A d \in Children \ ({} \cup {c}) : req'[d] = req[d]
  BY <1>1, <1>2, RegisterReq
<1>5. /\ ({} \cup {c}) \cap completed = {}
      /\ {} \in SUBSET Children /\ {c} \in SUBSET Children
  BY <1>2
<1> QED
  BY <1>3, <1>4, <1>5, FinishChildKeepsRegistry

\* A turn that finishes live children and changes no request.
LEMMA FinishingTurnKeepsRegistry ==
  ASSUME RegistryInv, NEW first \in SUBSET Live, NEW second \in SUBSET Live,
         NEW out, NEW t, FinishChild(first, second, out, t), req' = req
  PROVE  RegistryInv'
<1>1. /\ first \in SUBSET Children /\ second \in SUBSET Children
      /\ (first \cup second) \cap completed = {}
      /\ req' \in [Children -> Request]
      /\ \A d \in Children \ (first \cup second) : req'[d] = req[d]
  BY DEF RegistryInv, RegistryTypeOK, RegistryConsistent, Live
<1> QED
  BY <1>1, FinishChildKeepsRegistry

\* The actor's drop empties every table.
LEMMA DropKeepsRegistry ==
  ASSUME RegistryInv, NEW how, DropCoordinator(how)
  PROVE  RegistryInv'
<1>1. /\ queued' = {} /\ arrival' = {} /\ pending' = {} /\ active' = {} /\ completed' = {}
      /\ runs' = {} /\ terminalOutputs' = {} /\ req' = req
  BY DEF DropCoordinator
<1>2. \A s : RunningOf(s, pending \cup active)' = {}
  BY <1>1 DEF RunningOf
<1>3. SlotLimit'
  BY <1>2, FS_EmptySet, LimitAssumption DEF SlotLimit
<1> QED
  BY <1>1, <1>3 DEF RegistryInv, RegistryTypeOK, RegistryConsistent, ArrivalOrder,
                    QueuedAreTasks, QueuedImpliesFull, Live

\* A promotion moves a child within the running ones.
LEMMA StartedKeepsRegistry ==
  ASSUME RegistryInv, NEW c, NEW background, Started(c, background)
  PROVE  RegistryInv'
<1>1. /\ queued' = queued /\ arrival' = arrival /\ completed' = completed
      /\ runs' = runs /\ terminalOutputs' = terminalOutputs /\ req' = req
      /\ pending' = pending \ {c} /\ active' = active \cup {c} /\ c \in pending \cap runs
  BY DEF Started
<1>2. pending' \cup active' = pending \cup active
  BY <1>1
<1>3. \A s : RunningOf(s, pending \cup active)' = RunningOf(s, pending \cup active)
  BY <1>1, <1>2 DEF RunningOf, IsWorkflow
<1>4. SlotLimit' /\ QueuedImpliesFull'
  BY <1>1, <1>3 DEF RegistryInv, SlotLimit, QueuedImpliesFull
<1>5. RegistryTypeOK' /\ RegistryConsistent'
  BY <1>1 DEF RegistryInv, RegistryTypeOK, RegistryConsistent, Live
<1> QED
  BY <1>1, <1>4, <1>5 DEF RegistryInv, ArrivalOrder, QueuedAreTasks, IsWorkflow

\* An output that waits for messages takes the place of the run.
LEMMA RunBufferedKeepsRegistry ==
  ASSUME RegistryInv, NEW c, NEW out, RunBuffered(c, out)
  PROVE  RegistryInv'
<1>1. /\ queued' = queued /\ arrival' = arrival /\ completed' = completed
      /\ pending' = pending /\ active' = active /\ req' = req
      /\ runs' = runs \ {c} /\ terminalOutputs' = terminalOutputs \cup {c}
      /\ c \in runs \cap active
  BY DEF RunBuffered, registry
<1>2. RegistryTypeOK' /\ RegistryConsistent'
  BY <1>1 DEF RegistryInv, RegistryTypeOK, RegistryConsistent, Live
<1> QED
  BY <1>1, <1>2 DEF RegistryInv, ArrivalOrder, QueuedAreTasks, IsWorkflow,
                    SlotLimit, QueuedImpliesFull, RunningOf

-----------------------------------------------------------------------------
(***************************************************************************)
(* What a turn may do to the registry.  The cancels, the ends of runs and  *)
(* of messages and the reap all finish children that are live.             *)
(***************************************************************************)
FinishingTurn ==
  \E first, second \in SUBSET Live :
    \E out, t : FinishChild(first, second, out, t) /\ req' = req

RegistryTurn ==
  \/ UNCHANGED regVars
  \/ FinishingTurn
  \/ \E c \in Children, r \in Requests : HandleSpawn(c, r)
  \/ \E c, background : Started(c, background)
  \/ \E c, out : RunBuffered(c, out)
  \/ \E how : DropCoordinator(how)

\* The cancel commands finish the queued children they select.
LEMMA CancelFinishes ==
  ASSUME NEW sel, NEW t, CancelChildren(sel, t)
  PROVE  FinishingTurn
<1>1. /\ FinishChild({}, sel \cap queued, AllCancelled, t) /\ req' = req
      /\ {} \in SUBSET Live /\ sel \cap queued \in SUBSET Live
  BY DEF CancelChildren, Live
<1> QED
  BY <1>1, Zenon DEF FinishingTurn

\* A run that ends, and with it the queued children cancelled by an outsider.
LEMMA TerminalizationFinishes ==
  ASSUME NEW c \in Live, NEW out, NEW isClean, FinishTerminalizedChild(c, out, isClean)
  PROVE  FinishingTurn
<1>1. \E o : FinishChild({c}, CancelledQueued, o, Now)
  BY Zenon DEF FinishTerminalizedChild
<1>2. req' = req /\ {c} \in SUBSET Live /\ CancelledQueued \in SUBSET Live
  BY DEF FinishTerminalizedChild, CancelledQueued, Live
<1> QED
  BY <1>1, <1>2, Zenon DEF FinishingTurn

\* Every command of the channel is one of those turns.
LEMMA CommandTurns == Commands => RegistryTurn
<1> SUFFICES ASSUME Commands PROVE RegistryTurn
  OBVIOUS
<1>1. CASE \E c \in Children, r \in Requests : HandleSpawn(c, r)
  BY <1>1 DEF RegistryTurn
<1>2. CASE \E c \in Children, s \in HostSessions \cup {AnySession} : CancelOne(c, s)
  BY <1>2, CancelFinishes DEF CancelOne, RegistryTurn
<1>3. CASE \E p \in Prompts, s \in HostSessions \cup {AnySession} : CancelParentPrompt(p, s)
  BY <1>3, CancelFinishes DEF CancelParentPrompt, RegistryTurn
<1>4. CASE \E s \in HostSessions : CancelParentSession(s)
  BY <1>4, CancelFinishes DEF CancelParentSession, RegistryTurn
<1>5. CASE \E r \in RunIds, s \in HostSessions \cup {AnySession}, a \in Askers :
             CancelWorkflow(r, s, a)
  BY <1>5 DEF CancelWorkflow, registry, regVars, RegistryTurn
<1>6. CASE \E s \in HostSessions : \E by \in {{}} \cup {{a} : a \in Askers} :
             TeardownSession(s, by)
  BY <1>6, CancelFinishes DEF TeardownSession, RegistryTurn
<1>7. CASE \E s \in HostSessions : OpenSpawnAdmission(s)
  BY <1>7 DEF OpenSpawnAdmission, registry, records, regVars, RegistryTurn
<1>8. CASE \E a \in Askers, c \in Children, block \in BOOLEAN : HandleQuery(a, c, block)
  BY <1>8 DEF HandleQuery, registry, records, regVars, RegistryTurn
<1>9. CASE \E a \in Askers, scope \in Scopes : WaitPromptDrained(a, scope)
  BY <1>9 DEF WaitPromptDrained, registry, records, regVars, RegistryTurn
<1>10. CASE \E s \in HostSessions \cup {AnySession} : Completions(s)
  BY <1>10 DEF Completions, records, regVars, RegistryTurn
<1> QED
  BY <1>1, <1>2, <1>3, <1>4, <1>5, <1>6, <1>7, <1>8, <1>9, <1>10 DEF Commands

\* So is every event of a child's run.
LEMMA RunEventTurns == RegistryInv /\ RunEvents => RegistryTurn
<1> SUFFICES ASSUME RegistryInv, RunEvents PROVE RegistryTurn
  OBVIOUS
<1>1. CASE \E c \in Children, background \in BOOLEAN : Started(c, background)
  BY <1>1 DEF RegistryTurn
<1>2. CASE \E c \in Children : StartRefused(c)
  BY <1>2 DEF StartRefused, registry, records, regVars, RegistryTurn
<1>3. CASE \E c \in Children : Finalizing(c)
  BY <1>3 DEF Finalizing, registry, records, regVars, RegistryTurn
<1>4. CASE \E c \in Children, out \in Outcomes : RunReturns(c, out)
  <2>1. PICK c \in Children, out \in Outcomes : RunReturns(c, out)
    BY <1>4
  <2>2. c \in Live
    BY <2>1 DEF RunReturns, RegistryInv, RegistryConsistent, Live
  <2>3. \E isClean : FinishTerminalizedChild(c, out, isClean)
    BY <2>1, Zenon DEF RunReturns
  <2> QED
    BY <2>2, <2>3, TerminalizationFinishes DEF RegistryTurn
<1>5. CASE \E c \in Children, out \in Outcomes : RunBuffered(c, out)
  BY <1>5 DEF RegistryTurn
<1>6. CASE \E a \in Askers, c \in Children : FinishProgress(a, c)
  BY <1>6 DEF FinishProgress, registry, records, regVars, RegistryTurn
<1> QED
  BY <1>1, <1>2, <1>3, <1>4, <1>5, <1>6 DEF RunEvents

\* So is every step of a message; the last one may finish its child.
LEMMA MessageTurns == RegistryInv /\ MessageEvents => RegistryTurn
<1> SUFFICES ASSUME RegistryInv, MessageEvents PROVE RegistryTurn
  OBVIOUS
<1>1. CASE \E m \in Messages, c \in Children, from \in HostSessions :
             SendActiveMessage(m, c, from)
  BY <1>1 DEF SendActiveMessage, registry, records, regVars, RegistryTurn
<1>2. CASE \E m \in Messages : HandleSendActiveMessage(m)
  BY <1>2 DEF HandleSendActiveMessage, registry, records, regVars, RegistryTurn
<1>3. CASE \E m \in Messages : HostClaims(m)
  BY <1>3 DEF HostClaims, registry, records, regVars, RegistryTurn
<1>4. CASE \E m \in Messages : HostCommits(m)
  BY <1>4 DEF HostCommits, registry, records, regVars, RegistryTurn
<1>5. CASE \E m \in Messages, how \in Ready : FinishActiveMessage(m, how)
  BY <1>5 DEF FinishActiveMessage, registry, records, regVars, RegistryTurn
<1>6. CASE \E m \in Messages, how \in Ready : FinishLastActiveMessage(m, how)
  <2>1. PICK m \in Messages, how \in Ready : FinishLastActiveMessage(m, how)
    BY <1>6
  <2>2. msgTo[m] \in Live
    BY <2>1 DEF FinishLastActiveMessage, RegistryInv, RegistryConsistent, Live
  <2>3. \E out, isClean : FinishTerminalizedChild(msgTo[m], out, isClean)
    BY <2>1, Zenon DEF FinishLastActiveMessage
  <2> QED
    BY <2>2, <2>3, TerminalizationFinishes DEF RegistryTurn
<1> QED
  BY <1>1, <1>2, <1>3, <1>4, <1>5, <1>6 DEF MessageEvents

\* So are the steps of callers, tokens and timers and the end of the actor.
LEMMA OtherTurns == Environment \/ Timers \/ Ends => RegistryTurn
<1> SUFFICES ASSUME Environment \/ Timers \/ Ends PROVE RegistryTurn
  OBVIOUS
<1>1. CASE Environment
  BY <1>1 DEF Environment, CallerDrops, AskerDrops, CancelToken, registry, records,
              regVars, RegistryTurn
<1>2. CASE Reap
  <2>1. \E t : FinishChild(CancelledQueued, {}, AllCancelled, t)
    BY <1>2, Zenon DEF Reap
  <2>2. req' = req /\ CancelledQueued \in SUBSET Live /\ {} \in SUBSET Live
    BY <1>2 DEF Reap, CancelledQueued, Live
  <2>3. FinishingTurn
    BY <2>1, <2>2, Zenon DEF FinishingTurn
  <2> QED
    BY <2>3 DEF RegistryTurn
<1>3. CASE \E c \in Children : BudgetExpires(c)
  BY <1>3 DEF BudgetExpires, registry, regVars, RegistryTurn
<1>4. CASE \E a \in Askers, c \in Children : QueryExpires(a, c)
  BY <1>4 DEF QueryExpires, registry, records, regVars, RegistryTurn
<1>5. CASE \E s \in Owners : TeardownExpires(s)
  BY <1>5 DEF TeardownExpires, registry, records, regVars, RegistryTurn
<1>6. CASE \E m \in Messages : SpawnReadyExpires(m)
  BY <1>6 DEF SpawnReadyExpires, registry, records, regVars, RegistryTurn
<1>7. CASE Ends
  BY <1>7 DEF Ends, CloseChannels, ActorExits, ActorDropped, registry, records,
              regVars, RegistryTurn
<1> QED
  BY <1>1, <1>2, <1>3, <1>4, <1>5, <1>6, <1>7 DEF Timers

\* Every step, and a stuttering one, is one of those turns.
LEMMA Turns == RegistryInv /\ [Next]_vars => RegistryTurn
<1>1. ASSUME RegistryInv, Next PROVE RegistryTurn
  BY <1>1, CommandTurns, RunEventTurns, MessageTurns, OtherTurns DEF Next
<1>2. ASSUME UNCHANGED vars PROVE RegistryTurn
  BY <1>2 DEF vars, registry, records, regVars, RegistryTurn
<1> QED
  BY <1>1, <1>2

-----------------------------------------------------------------------------
(***************************************************************************)
(* The theorems.                                                           *)
(***************************************************************************)

\* The invariant of the registry holds when the actor starts.
LEMMA InitRegistry == Init => RegistryInv
<1> SUFFICES ASSUME Init PROVE RegistryInv
  OBVIOUS
<1>1. /\ queued = {} /\ arrival = {} /\ pending = {} /\ active = {} /\ completed = {}
      /\ runs = {} /\ terminalOutputs = {}
  BY DEF Init
<1>2. req \in [Children -> Request]
  <2>1. (CHOOSE r \in Requests : TRUE) \in Request
    BY RequestsAssumption
  <2> QED
    BY <2>1 DEF Init
<1>3. \A s : RunningOf(s, pending \cup active) = {}
  BY <1>1 DEF RunningOf
<1>4. SlotLimit
  BY <1>3, FS_EmptySet, LimitAssumption DEF SlotLimit
<1> QED
  BY <1>1, <1>2, <1>4 DEF RegistryInv, RegistryTypeOK, RegistryConsistent, ArrivalOrder,
                         QueuedAreTasks, QueuedImpliesFull, Live

\* The invariant of the registry is inductive: it holds in every reachable
\* state, for any number of children, sessions, runs and messages and any limit.
THEOREM RegistryInvariant == Spec => []RegistryInv
<1>1. ASSUME RegistryInv, RegistryTurn PROVE RegistryInv'
  <2>1. CASE UNCHANGED regVars
    BY <1>1, <2>1, RegistryStutter
  <2>2. CASE FinishingTurn
    BY <1>1, <2>2, FinishingTurnKeepsRegistry DEF FinishingTurn
  <2>3. CASE \E c \in Children, r \in Requests : HandleSpawn(c, r)
    BY <1>1, <2>3, SpawnStartsKeepsRegistry, SpawnEnqueuesKeepsRegistry,
       SpawnFailsKeepsRegistry DEF HandleSpawn
  <2>4. CASE \E c, background : Started(c, background)
    BY <1>1, <2>4, StartedKeepsRegistry
  <2>5. CASE \E c, out : RunBuffered(c, out)
    BY <1>1, <2>5, RunBufferedKeepsRegistry
  <2>6. CASE \E how : DropCoordinator(how)
    BY <1>1, <2>6, DropKeepsRegistry
  <2> QED
    BY <1>1, <2>1, <2>2, <2>3, <2>4, <2>5, <2>6 DEF RegistryTurn
<1>2. RegistryInv /\ [Next]_vars => RegistryInv'
  BY <1>1, Turns
<1> QED
  BY <1>2, InitRegistry, PTL DEF Spec

\* No session ever runs more children than Admission allows, whatever mix of
\* direct starts and sweeps of the queue launched them.
THEOREM SlotLimitHolds == Spec => []SlotLimit
<1>1. RegistryInv => SlotLimit
  BY DEF RegistryInv
<1> QED
  BY <1>1, RegistryInvariant, PTL

\* start_queued_within_capacity never leaves a spawn parked next to a free slot
\* of its session, so run() may leave its loop without looking at the queue.
THEOREM QueuedImpliesFullHolds == Spec => []QueuedImpliesFull
<1>1. RegistryInv => QueuedImpliesFull
  BY DEF RegistryInv
<1> QED
  BY <1>1, RegistryInvariant, PTL

\* Every id is in one table of the coordinator, and every launched child has
\* exactly one of a run future and a buffered terminal output.
THEOREM RegistryConsistentHolds == Spec => []RegistryConsistent
<1>1. RegistryInv => RegistryConsistent
  BY DEF RegistryInv
<1> QED
  BY <1>1, RegistryInvariant, PTL

\* The sweep goes in arrival order within a session: of two entries of one
\* session it never starts the later one and leaves the earlier one behind.
LEMMA SweepIsFifo ==
  ASSUME RegistryTypeOK, ArrivalOrder, NEW q \in SUBSET queued, NEW left \in SUBSET Children,
         NEW c \in Startable(q, left), NEW d \in q \ Startable(q, left),
         req[c].session = req[d].session
  PROVE  <<d, c>> \notin arrival
<1> SUFFICES ASSUME <<d, c>> \in arrival PROVE FALSE
  OBVIOUS
<1> DEFINE s == req[c].session
           upTo(e) == {x \in q : req[x].session = s /\ (x = e \/ <<x, e>> \in arrival)}
           here == RunningOf(s, left)
<1>1. c \in q /\ d \in q /\ c \in queued /\ d \in queued
  BY DEF Startable
<1>2. upTo(d) \subseteq upTo(c)
  BY <1>1 DEF ArrivalOrder
<1>3. \A e : upTo(e) \in SUBSET Children
  BY DEF RegistryTypeOK
<1>4. /\ Cardinality(here) + Cardinality(upTo(c)) <= MaxConcurrent
      /\ ~(Cardinality(here) + Cardinality(upTo(d)) <= MaxConcurrent)
  BY DEF Startable
<1> HIDE DEF upTo, here
<1>5. /\ Cardinality(upTo(d)) <= Cardinality(upTo(c))
      /\ Cardinality(upTo(c)) \in Nat /\ Cardinality(upTo(d)) \in Nat
  BY <1>2, <1>3, ChildrenAssumption, FS_Subset, FS_CardinalityType
<1>6. Cardinality(here) \in Nat /\ MaxConcurrent \in Nat
  BY RunningFinite, LimitAssumption DEF here
<1> QED
  BY <1>4, <1>5, <1>6

\* ... so finish_child does not, whichever children it finishes.
LEMMA FinishChildIsFifo ==
  ASSUME RegistryInv, NEW first, NEW second, NEW out, NEW t,
         FinishChild(first, second, out, t),
         NEW c \in queued \cap pending', NEW d \in queued \cap queued',
         req[c].session = req[d].session
  PROVE  <<d, c>> \notin arrival
<1> DEFINE gone == first \cup second
           left == (pending \cup active) \ gone
           q == queued \ gone
           start == IF gone = {} THEN {} ELSE Startable(q, left)
<1>1. queued' = q \ start /\ pending' = (pending \ gone) \cup start
  BY Zenon DEF FinishChild
<1>2. /\ RegistryTypeOK /\ ArrivalOrder /\ q \in SUBSET queued /\ left \in SUBSET Children
      /\ queued \cap pending = {}
  BY DEF RegistryInv, RegistryTypeOK, RegistryConsistent
<1>3. start = Startable(q, left)
  BY <1>1, <1>2
<1> HIDE DEF start
<1>4. c \in Startable(q, left) /\ d \in q \ Startable(q, left)
  BY <1>1, <1>2, <1>3
<1> QED
  BY <1>2, <1>4, SweepIsFifo

\* The queue is first in, first out within a session, however an entry comes to
\* start and whatever else the turn that starts it finishes.
THEOREM FifoPerSessionHolds == Spec => FifoPerSession
<1> DEFINE Fifo == \A c \in queued \cap pending', d \in queued \cap queued' :
                     req[c].session = req[d].session => <<d, c>> \notin arrival
<1>1. ASSUME RegistryInv, RegistryTurn PROVE Fifo
  <2>1. queued \cap pending = {}
    BY <1>1 DEF RegistryInv, RegistryConsistent
  <2>2. CASE queued \cap pending' = {}
    BY <2>2
  <2>3. CASE FinishingTurn
    BY <1>1, <2>3, FinishChildIsFifo DEF FinishingTurn
  <2>4. CASE \E c \in Children, r \in Requests : SpawnFails(c, r)
    <3>1. \E c, out, t : FinishChild({}, {c}, out, t)
      BY <2>4, Zenon DEF SpawnFails
    <3> QED
      BY <1>1, <3>1, FinishChildIsFifo
  <2>5. CASE \E c \in Children, r \in Requests : SpawnStarts(c, r) \/ SpawnEnqueues(c, r)
    BY <2>1, <2>2, <2>5 DEF SpawnStarts, SpawnEnqueues, SpawnAccepted, Live
  <2>6. CASE UNCHANGED regVars
    BY <2>1, <2>2, <2>6 DEF regVars
  <2>7. CASE \E c, background : Started(c, background)
    BY <2>1, <2>2, <2>7 DEF Started
  <2>8. CASE \E c, out : RunBuffered(c, out)
    BY <2>1, <2>2, <2>8 DEF RunBuffered, registry
  <2>9. CASE \E how : DropCoordinator(how)
    BY <2>2, <2>9 DEF DropCoordinator
  <2> QED
    BY <1>1, <2>3, <2>4, <2>5, <2>6, <2>7, <2>8, <2>9 DEF RegistryTurn, HandleSpawn
<1>2. RegistryInv /\ [Next]_vars => [Fifo]_vars
  BY <1>1, Turns
<1> QED
  BY <1>2, RegistryInvariant, PTL DEF Spec, FifoPerSession

\* finish_child adds nothing to the queue or to the running children.
LEMMA FinishChildLaunchesQueued ==
  ASSUME NEW first, NEW second, NEW out, NEW t, FinishChild(first, second, out, t)
  PROVE  Live' \subseteq Live \ (first \cup second)
<1> DEFINE gone == first \cup second
           q == queued \ gone
           start == IF gone = {} THEN {} ELSE Startable(q, (pending \cup active) \ gone)
<1>1. /\ queued' = q \ start /\ pending' = (pending \ gone) \cup start
      /\ active' = active \ gone
  BY Zenon DEF FinishChild
<1>2. start \subseteq q
  BY DEF Startable
<1> QED
  BY <1>1, <1>2 DEF Live

\* While a session's admission stays blocked, by Stop or by a delete, none of
\* its children that no workflow owns is launched or parked: neither by a spawn
\* that was already in the mailbox, nor by one sent from a child's session.
THEOREM StopLatchHolds == Spec => StopHolds
<1> DEFINE Quiet == \A s \in blocked \cap blocked' :
                      RunningOf(s, Live)' \subseteq RunningOf(s, Live)
<1>1. ASSUME RegistryInv, RegistryTurn PROVE Quiet
  <2>1. RegistryTypeOK /\ Live \subseteq Children
    BY <1>1 DEF RegistryInv, RegistryTypeOK, Live
  <2>2. CASE Live' \subseteq Live /\ \A d \in Live' : req'[d] = req[d]
    BY <2>2 DEF RunningOf, IsWorkflow
  <2>3. CASE FinishingTurn
    BY <2>2, <2>3, FinishChildLaunchesQueued DEF FinishingTurn
  <2>4. CASE \E c \in Children, r \in Requests : HandleSpawn(c, r)
    <3>1. PICK c \in Children, r \in Requests : HandleSpawn(c, r)
      BY <2>4
    <3> DEFINE r1 == Reparented(r)
    <3>2. /\ r1.run # NoRun \/ r1.session \notin blocked
          /\ c \notin Live /\ Register(c, r1)
      BY <3>1 DEF HandleSpawn, SpawnStarts, SpawnEnqueues, SpawnFails, SpawnAccepted
    <3>3. r1 \in Request
      BY <1>1, ReparentedIsRequest
    <3> HIDE DEF r1
    <3>4. req'[c] = r1 /\ \A d \in Children \ {c} : req'[d] = req[d]
      BY <1>1, <3>2, <3>3, RegisterReq
    <3>5. Live' \subseteq Live \cup {c}
      <4>1. CASE SpawnStarts(c, r) \/ SpawnEnqueues(c, r)
        BY <4>1 DEF SpawnStarts, SpawnEnqueues, Live
      <4>2. CASE SpawnFails(c, r)
        <5>1. \E out, t : FinishChild({}, {c}, out, t)
          BY <4>2, Zenon DEF SpawnFails
        <5> QED
          BY <5>1, FinishChildLaunchesQueued
      <4> QED
        BY <3>1, <4>1, <4>2 DEF HandleSpawn
    <3>6. ASSUME NEW s \in blocked \cap blocked', NEW d \in RunningOf(s, Live)'
          PROVE  d \in RunningOf(s, Live)
      <4>1. d \in Live' /\ req'[d].session = s /\ req'[d].run = NoRun
        BY <3>6 DEF RunningOf, IsWorkflow
      <4>2. d # c
        BY <4>1, <3>2, <3>4
      <4> QED
        BY <4>1, <4>2, <3>4, <3>5, <2>1 DEF RunningOf, IsWorkflow
    <3> QED
      BY <3>6
  <2>5. CASE UNCHANGED regVars
    BY <2>2, <2>5 DEF regVars, Live
  <2>6. CASE \E c, background : Started(c, background)
    <3>1. Live' = Live /\ req' = req
      BY <2>6 DEF Started, Live
    <3> QED
      BY <2>2, <3>1
  <2>7. CASE \E c, out : RunBuffered(c, out)
    BY <2>2, <2>7 DEF RunBuffered, registry, Live
  <2>8. CASE \E how : DropCoordinator(how)
    BY <2>2, <2>8 DEF DropCoordinator, Live
  <2> QED
    BY <1>1, <2>3, <2>4, <2>5, <2>6, <2>7, <2>8 DEF RegistryTurn
<1>2. RegistryInv /\ [Next]_vars => [Quiet]_vars
  BY <1>1, Turns
<1> QED
  BY <1>2, RegistryInvariant, PTL DEF Spec, StopHolds
====

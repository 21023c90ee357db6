--------------------------- MODULE SchedulerProofs ---------------------------
(***************************************************************************)
(* What the scheduler promises, for any tasks, kinds, prompts, iterations  *)
(* and limits, wherever the process dies: that a removal is final and a    *)
(* reserved version still the next one when it is committed; the types of  *)
(* its state, in particular that a revision never runs over; and what it   *)
(* promises about the iterations of a loop.                                *)
(***************************************************************************)
EXTENDS Scheduler, SequenceTheorems, FiniteSetTheorems, TLAPS

(***************************************************************************)
(* Where the actor is and why.                                             *)
(***************************************************************************)
Firing == {"query", "units", "spawn", "send"}
Removing == {"complete", "persist", "publish", "announce"}

\* The place of the actor says what it is doing.  While it fires or expires a
\* task no removal is pending: the timer does not run then.
Reasons ==
    /\ pc \in {"idle", "stopped"} \cup Firing \cup Removing
    /\ pc \in {"idle", "stopped"} => cur = Idle
    /\ pc \in Firing => cur.why = "fire"
    /\ pc = "complete" => cur.why = "delete"
    /\ pc \in {"persist", "publish"} => cur.why \in {"delete", "expire"}
    /\ pc = "announce" => cur.why = "expire"
    /\ cur.why \in {"fire", "expire"} => removal = NoRemoval

ClockInv == Reasons /\ ReservationFresh

(***************************************************************************)
(* Where a removed task can still be.                                      *)
(***************************************************************************)
\* What was never created is nowhere, and what is announced was created.
Known == removed \subseteq born /\ \A t : t \notin born => Gone(t)

\* A fire works on a task in memory; a removal, under way or pending, on one
\* that has left it.
InMemory ==
    /\ pc \in Firing => cur.task \in DOMAIN mem
    /\ pc \in Removing => cur.task \notin DOMAIN mem /\ cur.task \in born
    /\ removal # NoRemoval => removal.task \notin DOMAIN mem /\ removal.task \in born

\* An expiry that may be undone is not announced.
Undoable == pc = "persist" /\ cur.why = "expire" => cur.task \notin removed

\* At most one flush is awaited, and only while the actor waits for it.
Awaited ==
    /\ \A k \in DOMAIN chan : chan[k].reply => pc \in {"persist", "announce"} /\ ack = "none" /\ chan[k].flush
    /\ \A j, k \in DOMAIN chan : chan[j].reply /\ chan[k].reply => j = k

\* Neither the awaited flush nor what was queued after it holds the task.  Once
\* the writer has acknowledged it the task is nowhere.
Sealed ==
    /\ pc \in {"persist", "announce"} =>
         /\ \A j, k \in DOMAIN chan : chan[j].reply /\ j <= k => cur.task \notin DOMAIN chan[k].snap
         /\ ack = "ok" => Gone(cur.task)
    /\ pc = "publish" => Gone(cur.task)

RemovalInv ==
    /\ \E S : chan \in Seq(S)
    /\ Known /\ InMemory /\ Undoable /\ Awaited /\ Sealed /\ RemovalIsFinal

-----------------------------------------------------------------------------
(***************************************************************************)
(* Versions.                                                               *)
(***************************************************************************)
\* A step that leaves the clock and the actor's place alone.
LEMMA ClockAside ==
    ASSUME ClockInv, UNCHANGED <<clock, removal, pc, cur>>
    PROVE ClockInv'
BY DEF ClockInv, Reasons, ReservationFresh

\* A transition begins with a reservation of the next version.
LEMMA ClockBegins ==
    ASSUME ClockInv, Accepts, UNCHANGED <<clock, removal>>,
           cur'.source = clock,
           \/ pc' \in Firing /\ cur'.why = "fire"
           \/ pc' \in {"persist", "announce"} /\ cur'.why = "expire"
    PROVE ClockInv'
BY DEF ClockInv, Reasons, ReservationFresh, Accepts, Firing, Removing

\* It ends, by a commit if no removal keeps a reservation.
LEMMA ClockEnds ==
    ASSUME ClockInv, pc' = "idle", cur' = Idle,
           (pc # "stopped" /\ UNCHANGED <<clock, removal>>) \/ removal' = NoRemoval
    PROVE ClockInv'
<1>1. Reasons'
  BY DEF Reasons, Firing, Removing, Idle, At
<1>2. ReservationFresh'
  BY DEF ClockInv, Reasons, ReservationFresh, Firing, Removing
<1> QED BY <1>1, <1>2 DEF ClockInv

\* Every step keeps the order of the version clock and the reservations.
LEMMA ClockStep ==
    ASSUME ClockInv, [Next]_vars
    PROVE ClockInv'
<1>1. CASE UNCHANGED vars
  BY <1>1, ClockAside DEF vars, actorVars
<1>2. CASE Writer
  BY <1>2, ClockAside DEF Writer, Save, TakeSave, Flush, Debounce, actorVars
<1>3. CASE Commands
  <2>1. ASSUME NEW t, NEW p, NEW kind, Create(t, kind, p) PROVE ClockInv'
    BY <2>1 DEF Create, Accepts, ClockInv, Reasons, ReservationFresh
  <2>2. ASSUME NEW t, NEW p, NEW interval, Update(t, p, interval) PROVE ClockInv'
    BY <2>2 DEF Update, Accepts, ClockInv, Reasons, ReservationFresh
  <2>3. ASSUME NEW t, Delete(t) PROVE ClockInv'
    BY <2>3 DEF Delete, ClockInv, Reasons, ReservationFresh, Firing, Removing, At
  <2>4. CASE RetryDelete
    BY <2>4 DEF RetryDelete, ClockInv, Reasons, ReservationFresh, Firing, Removing, At
  <2>5. CASE AbandonRemoval
    BY <2>5, ClockEnds DEF AbandonRemoval
  <2>6. CASE PersistRemoval
    BY <2>6 DEF PersistRemoval, ClockInv, Reasons, ReservationFresh, Firing, Removing
  <2> QED BY <1>3, <2>1, <2>2, <2>3, <2>4, <2>5, <2>6 DEF Commands
<1>4. CASE Timer
  <2>1. ASSUME NEW t, BlockExpiry(t) PROVE ClockInv'
    BY <2>1, ClockAside DEF BlockExpiry
  <2>2. ASSUME NEW t, ExpireDurable(t) \/ ExpirePlain(t) \/ FireLoop(t) PROVE ClockInv'
    BY <2>2, ClockBegins DEF ExpireDurable, ExpirePlain, FireLoop, Selectable, At, Firing
  <2>3. ASSUME NEW t, FireForeground(t) PROVE ClockInv'
    BY <2>3 DEF FireForeground, Selectable, Accepts, ClockInv, Reasons, ReservationFresh
  <2>4. CASE AnnounceExpiry
    BY <2>4, ClockEnds DEF AnnounceExpiry, ClockInv, Reasons
  <2>5. CASE Persisted
    BY <2>5 DEF Persisted, ClockInv, Reasons, ReservationFresh, Firing, Removing
  <2>6. CASE PersistFailed \/ PersistUnknown \/ PublishFailed \/ Skip
    BY <2>6, ClockEnds DEF PersistFailed, PersistUnknown, PublishFailed, Skip
  <2>7. CASE Published
    BY <2>7, ClockEnds DEF Published, ClockInv, Reasons
  <2>8. CASE AskIteration
    <3>1. PICK completed : cur' = At(cur.task, "fire", cur.rec, cur.source, completed, NoIter)
      BY <2>8 DEF AskIteration
    <3> QED BY <2>8, <3>1 DEF AskIteration, ClockInv, Reasons, ReservationFresh, Firing, Removing, Idle, At
  <2>9. CASE AskUnits
    BY <2>9 DEF AskUnits, ClockInv, Reasons, ReservationFresh, Firing, Removing
  <2>10. ASSUME NEW i, Anchor(i) PROVE ClockInv'
    BY <2>10 DEF Anchor, ClockInv, Reasons, ReservationFresh, Firing, Removing, Idle, At
  <2>11. CASE SendSpawn \/ SendFails
    BY <2>11, ClockEnds DEF SendSpawn, SendFails, ClockInv, Reasons, Firing
  <2> QED BY <1>4, <2>1, <2>2, <2>3, <2>4, <2>5, <2>6, <2>7, <2>8, <2>9, <2>10, <2>11 DEF Timer
<1>5. CASE Environment
  <2>1. CASE Wire \/ CloseCoordinator \/ CloseTarget
    BY <2>1, ClockAside DEF Wire, CloseCoordinator, CloseTarget, actorVars
  <2>2. CASE Shutdown
    BY <2>2 DEF Shutdown, ClockInv, Reasons, ReservationFresh, Firing, Removing
  <2>3. CASE Restart
    BY <2>3, ClockEnds DEF Restart
  <2>4. ASSUME NEW i, GuardClears(i) \/ IterationEnds(i) \/ Descend(i) \/ DescendantsEnd(i)
        PROVE ClockInv'
    BY <2>4, ClockAside DEF GuardClears, IterationEnds, Descend, DescendantsEnd, actorVars
  <2>5. ASSUME NEW t, Tick(t) PROVE ClockInv'
    BY <2>5, ClockAside DEF Tick, actorVars
  <2> QED BY <1>5, <2>1, <2>2, <2>3, <2>4, <2>5 DEF Environment
<1> QED BY <1>1, <1>2, <1>3, <1>4, <1>5 DEF Next

\* The version a transition of the scheduler has reserved is still the next one
\* when it commits, and so is the one of a pending removal from one attempt to
\* the next.
THEOREM ReservationFreshHolds == Spec => []ReservationFresh
<1>1. Init => ClockInv
  BY DEF Init, ClockInv, Reasons, ReservationFresh, Firing, Removing, Idle, At
<1>2. ClockInv /\ [Next]_vars => ClockInv'
  BY ClockStep
<1>3. ClockInv => ReservationFresh
  BY DEF ClockInv
<1> QED BY <1>1, <1>2, <1>3, PTL DEF Spec

-----------------------------------------------------------------------------
(***************************************************************************)
(* The writer's channel.                                                   *)
(***************************************************************************)
LEMMA Appended ==
    ASSUME NEW q, \E S : q \in Seq(S), NEW c
    PROVE /\ \E S : Append(q, c) \in Seq(S)
          /\ Len(q) \in Nat /\ DOMAIN q = 1..Len(q)
          /\ DOMAIN Append(q, c) = 1..Len(q) + 1
          /\ \A k \in 1..Len(q) : Append(q, c)[k] = q[k]
          /\ Append(q, c)[Len(q) + 1] = c
<1>1. PICK S : q \in Seq(S)
  OBVIOUS
<1>2. q \in Seq(S \cup {c}) /\ c \in S \cup {c}
  BY <1>1, SeqMonotonic
<1>3. Append(q, c) \in Seq(S \cup {c})
  BY <1>2
<1>4. Len(Append(q, c)) = Len(q) + 1 /\ Len(q) \in Nat /\ DOMAIN q = 1..Len(q)
      /\ DOMAIN Append(q, c) = 1..Len(Append(q, c))
  BY <1>2, <1>3, LenProperties
<1>5. \A k \in 1..Len(q) : Append(q, c)[k] = q[k]
  BY <1>2
<1>6. Append(q, c)[Len(q) + 1] = c
  BY <1>2
<1> QED BY <1>3, <1>4, <1>5, <1>6

\* What is left of a queue when its first element is taken.
LEMMA Taken ==
    ASSUME NEW q, \E S : q \in Seq(S), q # <<>>
    PROVE /\ \E S : Tail(q) \in Seq(S)
          /\ Len(q) \in Nat \ {0} /\ DOMAIN q = 1..Len(q) /\ Head(q) = q[1]
          /\ DOMAIN Tail(q) = 1..Len(q) - 1
          /\ \A k \in DOMAIN Tail(q) : Tail(q)[k] = q[k + 1]
<1>1. PICK S : q \in Seq(S)
  OBVIOUS
<1>2. Tail(q) \in Seq(S) /\ Len(Tail(q)) = Len(q) - 1
      /\ \A k \in 1..Len(Tail(q)) : Tail(q)[k] = q[k + 1]
  BY <1>1, HeadTailProperties
<1>3. DOMAIN q = 1..Len(q) /\ DOMAIN Tail(q) = 1..Len(Tail(q))
  BY <1>1, <1>2, LenProperties
<1>5. Len(q) \in Nat \ {0}
  BY <1>1, EmptySeq
<1>4. Head(q) = q[1]
  BY <1>1
<1> QED BY <1>2, <1>3, <1>4, <1>5

\* The flushes in the channel go on without an audience.
LEMMA Silenced ==
    ASSUME \E S : chan \in Seq(S)
    PROVE /\ \E S : Unawaited \in Seq(S)
          /\ DOMAIN Unawaited = DOMAIN chan
          /\ \A k \in DOMAIN chan : ~Unawaited[k].reply /\ Unawaited[k].snap = chan[k].snap
<1>1. Len(chan) \in Nat /\ DOMAIN chan = 1..Len(chan)
  BY LenProperties
<1> DEFINE T == {Command(chan[k].flush, chan[k].snap, FALSE) : k \in DOMAIN chan}
<1>2. Unawaited \in [1..Len(chan) -> T]
  BY <1>1 DEF Unawaited
<1> HIDE DEF T
<1>3. Unawaited \in Seq(T)
  BY <1>1, <1>2, Seq(T) = UNION {[1..n -> T] : n \in Nat}, SeqDef, Zenon
<1> QED BY <1>3 DEF Unawaited, Command

-----------------------------------------------------------------------------
(***************************************************************************)
(* The kinds of steps.                                                     *)
(***************************************************************************)
\* Nothing but the records of the tasks in memory changes.
LEMMA AsideKeeps ==
    ASSUME RemovalInv, DOMAIN mem' = DOMAIN mem,
           UNCHANGED <<removal, pc, cur, disk, chan, debounced, ack, born, removed>>
    PROVE RemovalInv'
<1>1. \A t : Gone(t)' <=> Gone(t)
  BY DEF Gone
<1> QED BY <1>1 DEF RemovalInv, Known, InMemory, Undoable, Awaited, Sealed, RemovalIsFinal

\* The writer moves a snapshot, or writes it.
LEMMA DebounceKeeps ==
    ASSUME RemovalInv, Debounce
    PROVE RemovalInv'
<1>1. debounced' = {} /\ \E snap \in debounced : disk' \in {snap, disk}
  BY DEF Debounce, Written
<1>2. UNCHANGED <<mem, removal, pc, cur, chan, ack, born, removed>>
  BY DEF Debounce, actorVars, timeVars
<1>3. \A t : Gone(t) => Gone(t)'
  BY <1>1, <1>2 DEF Gone
<1> QED BY <1>2, <1>3 DEF RemovalInv, Known, InMemory, Undoable, Awaited, Sealed, RemovalIsFinal

\* The writer takes a queued snapshot, or flushes, and RemovalInv is kept.
LEMMA TakeKeeps ==
    ASSUME RemovalInv, TakeSave \/ Flush
    PROVE RemovalInv'
<1> DEFINE h == Head(chan)
<1>1. /\ \E S : chan' \in Seq(S)
      /\ Len(chan) \in Nat \ {0} /\ DOMAIN chan = 1..Len(chan) /\ h = chan[1]
      /\ DOMAIN chan' = 1..Len(chan) - 1
      /\ \A k \in DOMAIN chan' : chan'[k] = chan[k + 1]
  BY Taken DEF RemovalInv, TakeSave, Flush
<1>2. UNCHANGED <<mem, removal, pc, cur, born, removed>>
  BY DEF TakeSave, Flush, actorVars, timeVars
<1>3. /\ disk' \in {disk, h.snap}
      /\ \A snap \in debounced' : snap = h.snap
      /\ ~h.reply \/ ~h.flush => ack' = ack
      /\ h.reply /\ h.flush /\ ack' = "ok" => disk' = h.snap /\ debounced' = {}
  BY DEF TakeSave, Flush, DurablyWritten, DropPending
<1> HIDE DEF h
<1>4. \A t : Gone(t) => Gone(t)'
  BY <1>1, <1>2, <1>3 DEF Gone
<1>5. (\E S : chan' \in Seq(S)) /\ Known' /\ InMemory' /\ Undoable' /\ RemovalIsFinal'
  BY <1>1, <1>2, <1>4 DEF RemovalInv, Known, InMemory, Undoable, RemovalIsFinal
<1>6. Awaited'
  <2>1. \A k \in DOMAIN chan' : k + 1 \in DOMAIN chan /\ chan'[k] = chan[k + 1]
    BY <1>1
  <2>2. \A j, k \in DOMAIN chan' : chan'[j].reply /\ chan'[k].reply => j = k
    <3> SUFFICES ASSUME NEW j \in DOMAIN chan', NEW k \in DOMAIN chan', chan'[j].reply, chan'[k].reply
                 PROVE j = k
      OBVIOUS
    <3>1. j + 1 = k + 1
      BY <2>1 DEF RemovalInv, Awaited
    <3> QED BY <1>1, <3>1
  <2>3. ASSUME NEW k \in DOMAIN chan', chan'[k].reply
        PROVE pc' \in {"persist", "announce"} /\ ack' = "none" /\ chan'[k].flush
    <3>1. pc \in {"persist", "announce"} /\ ack = "none" /\ chan[k + 1].flush
      BY <2>1, <2>3 DEF RemovalInv, Awaited
    <3>2. ~h.reply
      <4>1. h.reply => k + 1 = 1
        BY <1>1, <2>1, <2>3 DEF RemovalInv, Awaited
      <4> QED BY <1>1, <4>1
    <3> QED BY <1>2, <1>3, <2>1, <3>1, <3>2
  <2> QED BY <2>2, <2>3 DEF Awaited
<1>7. Sealed'
  <2>1. CASE pc = "publish"
    BY <2>1, <1>2, <1>4 DEF RemovalInv, Sealed
  <2>2. CASE pc \in {"persist", "announce"}
    <3>1. \A j, k \in DOMAIN chan' : chan'[j].reply /\ j <= k => cur.task \notin DOMAIN chan'[k].snap
      BY <1>1, <2>2 DEF RemovalInv, Sealed
    <3>2. CASE h.reply
      <4>1. h.flush /\ \A k \in DOMAIN chan : cur.task \notin DOMAIN chan[k].snap
        BY <1>1, <2>2, <3>2 DEF RemovalInv, Sealed, Awaited
      <4>2. cur.task \notin DOMAIN mem
        BY <2>2 DEF RemovalInv, InMemory, Removing
      <4>3. ack' = "ok" => Gone(cur.task)'
        BY <1>1, <1>2, <1>3, <3>2, <4>1, <4>2 DEF Gone
      <4> QED BY <1>2, <2>2, <3>1, <4>3 DEF Sealed
    <3>3. CASE ~h.reply
      BY <1>2, <1>3, <1>4, <2>2, <3>1, <3>3 DEF RemovalInv, Sealed
    <3> QED BY <3>2, <3>3
  <2> QED BY <1>2, <2>1, <2>2 DEF Sealed
<1> QED BY <1>5, <1>6, <1>7 DEF RemovalInv

\* A snapshot of the memory is queued.
LEMMA SaveKeeps ==
    ASSUME RemovalInv, Save
    PROVE RemovalInv'
<1> DEFINE c == Command(FALSE, mem, FALSE)
<1>3. ~c.reply /\ c.snap = mem
  BY DEF Command
<1>9. chan' = Append(chan, c) /\ \E S : chan \in Seq(S)
  BY DEF RemovalInv, Save
<1> HIDE DEF c
<1>1. /\ \E S : chan' \in Seq(S)
      /\ Len(chan) \in Nat /\ DOMAIN chan = 1..Len(chan)
      /\ DOMAIN chan' = 1..Len(chan) + 1
      /\ \A k \in 1..Len(chan) : chan'[k] = chan[k]
      /\ chan'[Len(chan) + 1] = c
  BY <1>9, Appended
<1>2. UNCHANGED <<mem, removal, pc, cur, disk, debounced, ack, born, removed>>
  BY DEF Save, actorVars, timeVars
<1>4. \A t : Gone(t) => Gone(t)'
  BY <1>1, <1>2, <1>3 DEF Gone
<1>5. (\E S : chan' \in Seq(S)) /\ Known' /\ InMemory' /\ Undoable' /\ RemovalIsFinal'
  BY <1>1, <1>2, <1>4 DEF RemovalInv, Known, InMemory, Undoable, RemovalIsFinal
<1>6. Awaited'
  BY <1>1, <1>2, <1>3 DEF RemovalInv, Awaited
<1>7. Sealed'
  BY <1>1, <1>2, <1>3, <1>4 DEF RemovalInv, Sealed, InMemory, Removing
<1> QED BY <1>5, <1>6, <1>7 DEF RemovalInv

\* The actor queues a flush without the task that it removes, and waits for it.
LEMMA EnqueueKeeps ==
    ASSUME RemovalInv, pc \notin {"persist", "announce"},
           EnqueueFlush(mem'), DOMAIN mem' \subseteq DOMAIN mem,
           pc' \in {"persist", "announce"},
           cur'.task \notin DOMAIN mem', cur'.task \in born,
           cur'.why = "expire" => cur'.task \notin removed,
           UNCHANGED <<removal, disk, debounced, born, removed>>
    PROVE RemovalInv'
<1>0. PICK c : c = Command(TRUE, mem', TRUE)
  OBVIOUS
<1>2. c.reply /\ c.flush /\ c.snap = mem' /\ ack' = "none"
  BY <1>0 DEF Command, EnqueueFlush
<1>9. chan' = Append(chan, c) /\ \E S : chan \in Seq(S)
  BY <1>0, Zenon DEF RemovalInv, EnqueueFlush
<1>1. /\ \E S : chan' \in Seq(S)
      /\ Len(chan) \in Nat /\ DOMAIN chan = 1..Len(chan)
      /\ DOMAIN chan' = 1..Len(chan) + 1
      /\ \A k \in 1..Len(chan) : chan'[k] = chan[k]
      /\ chan'[Len(chan) + 1] = c
  <2>1. \E S : chan' \in Seq(S)
    BY <1>9, Appended
  <2>2. Len(chan) \in Nat /\ DOMAIN chan = 1..Len(chan)
    BY <1>9, Appended
  <2>3. DOMAIN chan' = 1..Len(chan) + 1
    BY <1>9, Appended
  <2>4. \A k \in 1..Len(chan) : chan'[k] = chan[k]
    BY <1>9, Appended
  <2>5. chan'[Len(chan) + 1] = c
    BY <1>9, Appended
  <2> QED BY <2>1, <2>2, <2>3, <2>4, <2>5
<1>3. \A k \in DOMAIN chan : ~chan[k].reply
  BY DEF RemovalInv, Awaited
<1>4. \A t : Gone(t) => Gone(t)'
  BY <1>1, <1>2 DEF Gone
<1>5. (\E S : chan' \in Seq(S)) /\ Known' /\ Undoable' /\ RemovalIsFinal'
  BY <1>1, <1>4 DEF RemovalInv, Known, Undoable, RemovalIsFinal
<1>6. InMemory'
  BY DEF RemovalInv, InMemory, Firing, Removing
<1>7. Awaited'
  BY <1>1, <1>2, <1>3 DEF Awaited
<1>8. Sealed'
  BY <1>1, <1>2, <1>3 DEF Sealed
<1> QED BY <1>5, <1>6, <1>7, <1>8 DEF RemovalInv

\* The actor stops waiting.  It announces the task only if the writer has
\* acknowledged its absence.
LEMMA UnawaitKeeps ==
    ASSUME RemovalInv, pc \in {"persist", "announce"},
           chan' = Unawaited, pc' = "idle",
           UNCHANGED <<mem, removal, disk, debounced, born>>,
           removed' \subseteq removed \cup (IF ack = "ok" THEN {cur.task} ELSE {})
    PROVE RemovalInv'
<1>1. /\ \E S : chan' \in Seq(S)
      /\ DOMAIN chan' = DOMAIN chan
      /\ \A k \in DOMAIN chan : ~chan'[k].reply /\ chan'[k].snap = chan[k].snap
  BY Silenced DEF RemovalInv
<1>2. \A t : Gone(t) => Gone(t)'
  BY <1>1 DEF Gone
<1>3. cur.task \in born /\ (ack = "ok" => Gone(cur.task))
  BY DEF RemovalInv, InMemory, Sealed, Removing
<1>4. Known' /\ RemovalIsFinal'
  BY <1>2, <1>3 DEF RemovalInv, Known, RemovalIsFinal
<1>5. InMemory' /\ Undoable' /\ Awaited' /\ Sealed'
  BY <1>1 DEF RemovalInv, InMemory, Undoable, Awaited, Sealed, Firing, Removing
<1> QED BY <1>1, <1>4, <1>5 DEF RemovalInv

\* The actor goes on, with no flush awaited.  A task comes into memory only if it
\* is not announced, and only an acknowledged removal is announced.
LEMMA StillKeeps ==
    ASSUME RemovalInv, NEW X,
           pc \in {"persist", "announce"} => ack # "none",
           pc' \notin {"persist", "announce"},
           UNCHANGED <<disk, chan, debounced>>,
           DOMAIN mem' \subseteq DOMAIN mem \cup X, X \cap removed' = {}, X \subseteq born',
           born \subseteq born',
           removed' \subseteq removed \cup (IF pc = "publish" THEN {cur.task} ELSE {}),
           pc' = "publish" => pc = "persist" /\ ack = "ok" /\ cur' = cur /\ mem' = mem,
           InMemory'
    PROVE RemovalInv'
<1>1. \A k \in DOMAIN chan : ~chan[k].reply
  BY DEF RemovalInv, Awaited
<1>2. \A t : Gone(t) /\ t \notin X => Gone(t)'
  BY DEF Gone
<1>3. pc = "publish" => Gone(cur.task) /\ cur.task \in born
  BY DEF RemovalInv, Sealed, InMemory, Removing
<1>4. Known' /\ RemovalIsFinal'
  BY <1>2, <1>3 DEF RemovalInv, Known, RemovalIsFinal
<1>5. Awaited' /\ Undoable'
  BY <1>1 DEF Awaited, Undoable
<1>6. Sealed'
  BY DEF RemovalInv, Sealed, Gone
<1> QED BY <1>4, <1>5, <1>6 DEF RemovalInv

\* The same when no task comes into memory.
LEMMA RestKeeps ==
    ASSUME RemovalInv,
           pc \in {"persist", "announce"} => ack # "none",
           pc' \notin {"persist", "announce"},
           UNCHANGED <<disk, chan, debounced, born>>,
           DOMAIN mem' \subseteq DOMAIN mem,
           removed' \subseteq removed \cup (IF pc = "publish" THEN {cur.task} ELSE {}),
           pc' = "publish" => pc = "persist" /\ ack = "ok" /\ cur' = cur /\ mem' = mem,
           InMemory'
    PROVE RemovalInv'
<1> DEFINE X == {}
<1>1. DOMAIN mem' \subseteq DOMAIN mem \cup X /\ X \cap removed' = {} /\ X \subseteq born'
  OBVIOUS
<1> HIDE DEF X
<1> QED BY <1>1, StillKeeps

\* The process dies: only the file is left.
LEMMA RestartKeeps ==
    ASSUME RemovalInv, Restart
    PROVE RemovalInv'
<1>1. /\ mem' = disk /\ disk' = disk /\ chan' = <<>> /\ debounced' = {}
      /\ pc' = "idle" /\ removal' = NoRemoval /\ UNCHANGED <<born, removed>>
  BY DEF Restart
<1>2. chan' \in Seq({}) /\ DOMAIN chan' = {}
  BY <1>1
<1>3. \A t : Gone(t) => Gone(t)'
  BY <1>1, <1>2 DEF Gone
<1>4. Known' /\ RemovalIsFinal'
  BY <1>1, <1>3 DEF RemovalInv, Known, RemovalIsFinal
<1>5. InMemory' /\ Undoable' /\ Awaited' /\ Sealed'
  BY <1>1, <1>2 DEF InMemory, Undoable, Awaited, Sealed, Firing, Removing
<1> QED BY <1>2, <1>4, <1>5 DEF RemovalInv

\* What is in memory was created and is not announced.
LEMMA InMemoryIsKnown ==
    ASSUME RemovalInv, NEW t \in DOMAIN mem
    PROVE t \in born /\ t \notin removed
BY DEF RemovalInv, Known, RemovalIsFinal, Gone

\* A command keeps RemovalInv.
LEMMA CommandKeeps ==
    ASSUME RemovalInv, ClockInv, Commands
    PROVE RemovalInv'
<1>1. ASSUME NEW t, NEW p, NEW kind, Create(t, kind, p) PROVE RemovalInv'
  <2>1. pc' = "idle" /\ pc = "idle" /\ removal' = NoRemoval
    BY <1>1 DEF Create, Accepts
  <2>2. DOMAIN mem' \subseteq DOMAIN mem \cup {t} /\ born' = born \cup {t} /\ t \notin removed'
        /\ UNCHANGED <<disk, chan, debounced, removed>>
    BY <1>1 DEF Create, With, writerVars, RemovalInv, Known
  <2>3. InMemory'
    BY <2>1 DEF InMemory, Firing, Removing
  <2> QED BY <2>1, <2>2, <2>3, StillKeeps
<1>2. ASSUME NEW t, NEW p, NEW interval, Update(t, p, interval) PROVE RemovalInv'
  <2>1. DOMAIN mem' = DOMAIN mem
    BY <1>2 DEF Update, With
  <2> QED BY <1>2, <2>1, AsideKeeps DEF Update, writerVars
<1>3. ASSUME NEW t, Delete(t) PROVE RemovalInv'
  <2>1. pc = "idle" /\ pc' = "complete" /\ cur'.task = t /\ removal'.task = t
    BY <1>3 DEF Delete, Accepts, At
  <2>2. DOMAIN mem' = DOMAIN mem \ {t} /\ t \in born
        /\ UNCHANGED <<disk, chan, debounced, born, removed>>
    BY <1>3, InMemoryIsKnown DEF Delete, Without, writerVars
  <2>3. InMemory'
    BY <2>1, <2>2 DEF InMemory, Firing, Removing
  <2> QED BY <2>1, <2>2, <2>3, RestKeeps
<1>4. CASE RetryDelete
  <2>1. /\ pc = "idle" /\ pc' = "complete" /\ removal # NoRemoval /\ cur'.task = removal.task
        /\ UNCHANGED <<mem, removal, disk, chan, debounced, born, removed>>
    BY <1>4 DEF RetryDelete, At, writerVars, timeVars
  <2>2. InMemory'
    BY <2>1 DEF RemovalInv, InMemory, Firing, Removing
  <2> QED BY <2>1, <2>2, RestKeeps
<1>5. CASE AbandonRemoval
  <2>1. /\ pc = "complete" /\ pc' = "idle" /\ removal' = NoRemoval
        /\ UNCHANGED <<mem, disk, chan, debounced, born, removed>>
    BY <1>5 DEF AbandonRemoval, writerVars, timeVars
  <2>2. InMemory'
    BY <2>1 DEF InMemory, Firing, Removing
  <2> QED BY <2>1, <2>2, RestKeeps
<1>6. CASE PersistRemoval
  <2>1. /\ pc = "complete" /\ pc' = "persist" /\ EnqueueFlush(mem')
        /\ UNCHANGED <<mem, removal, cur, disk, debounced, born, removed>>
    BY <1>6 DEF PersistRemoval, timeVars
  <2>2. cur'.task \notin DOMAIN mem' /\ cur'.task \in born /\ cur'.why = "delete"
    BY <2>1 DEF RemovalInv, InMemory, Removing, ClockInv, Reasons
  <2> QED BY <2>1, <2>2, EnqueueKeeps
<1> QED BY <1>1, <1>2, <1>3, <1>4, <1>5, <1>6 DEF Commands

\* A task that expires keeps RemovalInv.
LEMMA ExpiryKeeps ==
    ASSUME RemovalInv, ClockInv, NEW t,
           BlockExpiry(t) \/ ExpireDurable(t) \/ ExpirePlain(t) \/ AnnounceExpiry
    PROVE RemovalInv'
<1>1. CASE BlockExpiry(t)
  BY <1>1, AsideKeeps DEF BlockExpiry, writerVars, timeVars
<1>2. CASE ExpireDurable(t) \/ ExpirePlain(t)
  <2>1. /\ pc = "idle" /\ t \in DOMAIN mem /\ pc' \in {"persist", "announce"} /\ cur'.task = t
        /\ EnqueueFlush(mem') /\ mem' = Without(mem, t)
        /\ UNCHANGED <<removal, disk, debounced, born, removed>>
    BY <1>2 DEF ExpireDurable, ExpirePlain, Selectable, Accepts, At
  <2>2. DOMAIN mem' = DOMAIN mem \ {t} /\ t \in born /\ t \notin removed
    BY <2>1, InMemoryIsKnown DEF Without
  <2> QED BY <2>1, <2>2, EnqueueKeeps
<1>3. CASE AnnounceExpiry
  BY <1>3, UnawaitKeeps DEF AnnounceExpiry, timeVars
<1> QED BY <1>1, <1>2, <1>3

\* Each way a durable stage ends keeps RemovalInv.
LEMMA StageKeeps ==
    ASSUME RemovalInv, ClockInv, Persisted \/ PersistFailed \/ PersistUnknown \/ Published \/ PublishFailed
    PROVE RemovalInv'
<1>1. CASE Persisted
  <2>1. /\ pc = "persist" /\ ack = "ok" /\ pc' = "publish"
        /\ UNCHANGED <<mem, removal, cur, disk, chan, debounced, born, removed>>
    BY <1>1 DEF Persisted, timeVars
  <2>2. InMemory'
    BY <2>1 DEF RemovalInv, InMemory, Firing, Removing
  <2> QED BY <2>1, <2>2, RestKeeps
<1>2. CASE PersistFailed
  <2>1. /\ pc = "persist" /\ ack = "err" /\ pc' = "idle"
        /\ UNCHANGED <<removal, disk, chan, debounced, born, removed>>
    BY <1>2 DEF PersistFailed, timeVars
  <2>2. CASE cur.why = "expire"
    <3>1. DOMAIN mem' = DOMAIN mem \cup {cur.task}
      BY <1>2, <2>2 DEF PersistFailed, With
    <3>2. cur.task \in born' /\ cur.task \notin removed' /\ removal' = NoRemoval
      BY <2>1, <2>2 DEF RemovalInv, InMemory, Undoable, Removing, ClockInv, Reasons
    <3>3. InMemory'
      BY <2>1, <3>2 DEF InMemory, Firing, Removing
    <3> DEFINE X == {cur.task}
    <3>4. DOMAIN mem' \subseteq DOMAIN mem \cup X /\ X \cap removed' = {} /\ X \subseteq born'
      BY <3>1, <3>2
    <3> HIDE DEF X
    <3> QED BY <2>1, <3>3, <3>4, StillKeeps
  <2>3. CASE cur.why # "expire"
    <3>1. mem' = mem
      BY <1>2, <2>3 DEF PersistFailed
    <3>2. InMemory'
      BY <2>1, <3>1 DEF RemovalInv, InMemory, Firing, Removing
    <3> QED BY <2>1, <3>1, <3>2, RestKeeps
  <2> QED BY <2>2, <2>3
<1>3. CASE PersistUnknown
  BY <1>3, UnawaitKeeps DEF PersistUnknown, timeVars
<1>4. CASE Published \/ PublishFailed
  <2>1. /\ pc = "publish" /\ pc' = "idle" /\ removal' \in {removal, NoRemoval}
        /\ removed' \subseteq removed \cup {cur.task}
        /\ UNCHANGED <<mem, disk, chan, debounced, born>>
    BY <1>4 DEF Published, PublishFailed, writerVars, timeVars
  <2>2. InMemory'
    BY <2>1 DEF RemovalInv, InMemory, Firing, Removing
  <2> QED BY <2>1, <2>2, RestKeeps
<1> QED BY <1>1, <1>2, <1>3, <1>4

\* A fire, in the foreground or as a loop, keeps RemovalInv.
LEMMA FireKeeps ==
    ASSUME RemovalInv, ClockInv, NEW t, NEW i,
           \/ FireForeground(t) \/ FireLoop(t)
           \/ Skip \/ AskIteration \/ AskUnits \/ Anchor(i) \/ SendSpawn \/ SendFails
    PROVE RemovalInv'
<1>1. CASE FireForeground(t)
  <2>1. /\ pc = "idle" /\ pc' = "idle" /\ removal' = NoRemoval
        /\ UNCHANGED <<disk, chan, debounced, born, removed>>
    BY <1>1 DEF FireForeground, Selectable, Accepts, writerVars
  <2>2. DOMAIN mem' \subseteq DOMAIN mem
    BY <1>1 DEF FireForeground, Without
  <2>3. InMemory'
    BY <2>1 DEF InMemory, Firing, Removing
  <2> QED BY <2>1, <2>2, <2>3, RestKeeps
<1>2. CASE FireLoop(t)
  <2>1. /\ pc = "idle" /\ removal' = NoRemoval /\ cur'.task = t /\ t \in DOMAIN mem
        /\ UNCHANGED <<mem, disk, chan, debounced, born, removed>>
    BY <1>2 DEF FireLoop, Selectable, Accepts, At, writerVars
  <2>2. pc' \in {"spawn", "query"}
    BY <1>2 DEF FireLoop
  <2>3. InMemory'
    BY <2>1, <2>2 DEF InMemory, Firing, Removing
  <2> QED BY <2>1, <2>2, <2>3, RestKeeps
<1>3. CASE Skip \/ AskIteration \/ AskUnits \/ Anchor(i) \/ SendSpawn \/ SendFails
  <2>1. pc \in Firing /\ pc' \in Firing \cup {"idle"} /\ UNCHANGED <<removal, disk, chan, debounced, born, removed>>
    BY <1>3 DEF Skip, AskIteration, AskUnits, Anchor, SendSpawn, SendFails, Firing, writerVars, timeVars
  <2>2. cur.task \in DOMAIN mem /\ removal = NoRemoval
    BY <2>1 DEF RemovalInv, InMemory, ClockInv, Reasons
  <2>3. DOMAIN mem' = DOMAIN mem
    BY <1>3, <2>2 DEF Skip, AskIteration, AskUnits, Anchor, SendSpawn, SendFails, With
  <2>4. pc' \in Firing => cur'.task = cur.task
    <3>1. CASE Skip \/ SendSpawn \/ SendFails
      BY <3>1 DEF Skip, SendSpawn, SendFails, Firing
    <3>2. CASE AskUnits
      BY <3>2 DEF AskUnits
    <3>3. CASE AskIteration
      <4>1. PICK completed : cur' = At(cur.task, "fire", cur.rec, cur.source, completed, NoIter)
        BY <3>3 DEF AskIteration
      <4> QED BY <4>1 DEF At
    <3>4. CASE Anchor(i)
      BY <3>4 DEF Anchor, At
    <3> QED BY <1>3, <3>1, <3>2, <3>3, <3>4
  <2>5. InMemory'
    BY <2>1, <2>2, <2>3, <2>4 DEF InMemory, Firing, Removing
  <2> QED BY <2>1, <2>3, <2>5, RestKeeps DEF Firing
<1> QED BY <1>1, <1>2, <1>3

\* The writer's failures, a crash and the coordinator keep RemovalInv.
LEMMA EnvironmentKeeps ==
    ASSUME RemovalInv, ClockInv, Environment
    PROVE RemovalInv'
<1>1. CASE Wire \/ CloseCoordinator \/ CloseTarget
  BY <1>1, AsideKeeps DEF Wire, CloseCoordinator, CloseTarget, actorVars, writerVars, timeVars
<1>2. CASE Shutdown
  <2>1. /\ pc = "idle" /\ pc' = "stopped"
        /\ UNCHANGED <<mem, removal, disk, chan, debounced, born, removed>>
    BY <1>2 DEF Shutdown, writerVars, timeVars
  <2>2. InMemory'
    BY <2>1 DEF RemovalInv, InMemory, Firing, Removing
  <2> QED BY <2>1, <2>2, RestKeeps
<1>3. CASE Restart
  BY <1>3, RestartKeeps
<1>4. ASSUME NEW i, GuardClears(i) PROVE RemovalInv'
  BY <1>4, AsideKeeps DEF GuardClears, writerVars, timeVars
<1>5. ASSUME NEW i, IterationEnds(i) \/ Descend(i) \/ DescendantsEnd(i) PROVE RemovalInv'
  BY <1>5, AsideKeeps DEF IterationEnds, Descend, DescendantsEnd, actorVars, writerVars, timeVars
<1>6. ASSUME NEW t, Tick(t) PROVE RemovalInv'
  BY <1>6, AsideKeeps DEF Tick, actorVars, writerVars
<1> QED BY <1>1, <1>2, <1>3, <1>4, <1>5, <1>6 DEF Environment

\* Every step keeps RemovalInv.
LEMMA RemovalStep ==
    ASSUME RemovalInv, ClockInv, [Next]_vars
    PROVE RemovalInv'
<1>1. CASE UNCHANGED vars
  BY <1>1, AsideKeeps DEF vars, actorVars, writerVars, timeVars
<1>2. CASE Writer
  BY <1>2, SaveKeeps, TakeKeeps, DebounceKeeps DEF Writer
<1>3. CASE Commands
  BY <1>3, CommandKeeps
<1>4. CASE Timer
  BY <1>4, ExpiryKeeps, StageKeeps, FireKeeps DEF Timer
<1>5. CASE Environment
  BY <1>5, EnvironmentKeeps
<1> QED BY <1>1, <1>2, <1>3, <1>4, <1>5 DEF Next

\* A session just loaded has announced nothing and reserved nothing.
LEMMA InitRemoval ==
    ASSUME Init
    PROVE ClockInv /\ RemovalInv
<1>1. ClockInv
  BY DEF Init, ClockInv, Reasons, ReservationFresh, Firing, Removing, Idle, At
<1>2. /\ mem = disk /\ DOMAIN disk = born /\ chan = <<>> /\ debounced = {}
      /\ pc = "idle" /\ removal = NoRemoval /\ removed = {}
  BY DEF Init
<1>3. chan \in Seq({}) /\ DOMAIN chan = {}
  BY <1>2
<1>4. Known /\ RemovalIsFinal
  BY <1>2, <1>3 DEF Known, RemovalIsFinal, Gone
<1>5. InMemory /\ Undoable /\ Awaited /\ Sealed
  BY <1>2, <1>3 DEF InMemory, Undoable, Awaited, Sealed, Firing, Removing
<1> QED BY <1>1, <1>3, <1>4, <1>5 DEF RemovalInv

\* A scheduled task whose tombstone is in the log, or whose expiry was announced
\* after its absence was written, is in no snapshot, in memory, queued, debounced
\* or on disk, for any number of tasks, any length of the channel and wherever
\* the process dies.
THEOREM RemovalFinalHolds == Spec => []RemovalIsFinal
<1>1. Init => ClockInv /\ RemovalInv
  BY InitRemoval
<1>2. ClockInv /\ RemovalInv /\ [Next]_vars => (ClockInv /\ RemovalInv)'
  BY ClockStep, RemovalStep
<1>3. RemovalInv => RemovalIsFinal
  BY DEF RemovalInv
<1> QED BY <1>1, <1>2, <1>3, PTL DEF Spec

-----------------------------------------------------------------------------
(***************************************************************************)
(* Types.                                                                  *)
(***************************************************************************)
\* A record that a transition may write back.
RestoresRecord == pc \in Firing \/ (pc = "persist" /\ cur.why = "expire")

CurTyped ==
    /\ RestoresRecord => cur.rec \in Records /\ cur.task \in Tasks
    /\ pc = "query" => cur.rec.anchor \in Iterations
    /\ pc = "send" => cur.sub \in Iterations

TypeInv == TypeOK /\ CurTyped

\* The commands of the writer that carry a snapshot of G.
CommandsOf(G) == [flush : BOOLEAN, snap : G, reply : BOOLEAN]

\* All the snapshots there are belong to G.
AllSnaps(G) == mem \in G /\ disk \in G /\ debounced \subseteq G /\ chan \in Seq(CommandsOf(G))

(***************************************************************************)
(* Iterations and anchors.                                                 *)
(***************************************************************************)
\* Snapshots whose anchors are ids in use.
UsedSnaps ==
    {s \in Snapshots : \A t \in DOMAIN s : s[t].anchor # NoIter => iter[s[t].anchor].state # "new"}

\* Only iterations of this process have descendants, only those that failed have
\* a guard to hear, and what works belongs to a task that was created.
Started ==
    \A i \in Iterations :
        /\ i \in unit => iter[i].state \in {"live", "done", "failed"}
        /\ i \in watch => iter[i].state \in {"failed", "lost"}
        /\ Working(i) => iter[i].task \in born

\* An iteration that works and has not failed is the last one of its loop.
Latest ==
    \A i \in Iterations : Working(i) /\ iter[i].state # "failed" =>
        /\ iter[i].task \in DOMAIN mem => mem[iter[i].task].anchor = i
        /\ pc = "persist" /\ cur.why = "expire" /\ iter[i].task = cur.task => cur.rec.anchor = i

\* When a loop is about to spawn, only what a failed iteration left works for it.
Alone ==
    pc \in {"spawn", "send"} =>
        \A i \in Iterations : iter[i].task = cur.task /\ Working(i) => iter[i].state = "failed"

\* The iteration about to be spawned is the anchor of its loop and of no other.
Named ==
    /\ pc \in Firing => coord # "unwired"
    /\ pc = "send" =>
        /\ iter[cur.sub].state \in {"named", "lost"} /\ cur.sub \notin watch
        /\ coord = "open" => iter[cur.sub].state = "named"
        /\ \A t \in DOMAIN mem : mem[t].anchor = cur.sub <=> t = cur.task

\* A record that may be written back has an anchor in use.
CurUsed ==
    RestoresRecord => (cur.rec.anchor # NoIter => iter[cur.rec.anchor].state # "new")

LoopInv ==
    /\ Started /\ Latest /\ Alone /\ Named /\ CurUsed /\ OverlapsFailedOnly
    /\ mem \in UsedSnaps

OverlapInv == LoopInv /\ AllSnaps(UsedSnaps)

(***************************************************************************)
(* Transcripts.                                                            *)
(***************************************************************************)
\* Unless a new chain is due, the last iteration of this process ran the prompt
\* of the record.
OwnChain(rec) ==
    ~rec.reset /\ rec.anchor \in Iterations /\ iter[rec.anchor].state \in {"live", "done", "failed"}
        => iter[rec.anchor].prompt = rec.prompt

OwnChains ==
    /\ \A t \in DOMAIN mem : OwnChain(mem[t])
    /\ RestoresRecord => OwnChain(cur.rec)

\* The prompt does not change while the loop is fired.
SamePrompt == pc \in Firing => mem[cur.task].prompt = cur.rec.prompt

\* An iteration known as completed stays what it was.
CompletedKept ==
    pc \in {"units", "spawn", "send"} /\ cur.completed =>
        /\ cur.rec.anchor \in Iterations /\ iter[cur.rec.anchor].state \in {"done", "lost"}
        /\ ~cur.rec.reset => iter[cur.rec.anchor].prompt = cur.rec.prompt

\* A transcript that was resumed belongs to an iteration that was started.
ResumedStarted ==
    \A i \in Iterations :
        iter[i].resumes # NoIter => iter[iter[i].resumes].state \notin {"new", "named"}

ChainInv == OwnChains /\ SamePrompt /\ CompletedKept /\ ResumedStarted /\ ResumesOwnJob
-----------------------------------------------------------------------------
(***************************************************************************)
(* Records and snapshots.                                                  *)
(***************************************************************************)
LEMMA SnapshotIs ==
    ASSUME NEW s \in Snapshots
    PROVE DOMAIN s \subseteq Tasks /\ (\A t \in DOMAIN s : s[t] \in Records)
BY DEF Snapshots

\* A function from some tasks to records is a snapshot.
LEMMA IsSnapshot ==
    ASSUME NEW T \in SUBSET Tasks, NEW s \in [T -> Records]
    PROVE s \in Snapshots
BY DEF Snapshots

\* Inserting a record into a snapshot leaves a snapshot.
LEMMA WithSnapshot ==
    ASSUME NEW s \in Snapshots, NEW t \in Tasks, NEW rec \in Records
    PROVE With(s, t, rec) \in Snapshots
<1> DEFINE T == DOMAIN s \cup {t}
<1>1. T \in SUBSET Tasks /\ With(s, t, rec) \in [T -> Records]
  BY SnapshotIs DEF With
<1> HIDE DEF T
<1> QED BY <1>1, IsSnapshot

\* Removing a task from a snapshot leaves a snapshot.
LEMMA WithoutSnapshot ==
    ASSUME NEW s \in Snapshots, NEW t
    PROVE Without(s, t) \in Snapshots
<1> DEFINE T == DOMAIN s \ {t}
<1>1. T \in SUBSET Tasks /\ Without(s, t) \in [T -> Records]
  BY SnapshotIs DEF Without
<1> HIDE DEF T
<1> QED BY <1>1, IsSnapshot

\* What Task builds from typed parts is a record.
LEMMA TaskTyped ==
    ASSUME NEW kind \in Kinds \cup {"once"}, NEW p \in Prompts, NEW anchor \in Iterations \cup {NoIter},
           NEW age \in 0..FreshEvery, NEW reset \in BOOLEAN
    PROVE Task(kind, p, anchor, age, reset) \in Records
BY DEF Task, Records

\* The fields of a record have their types.
LEMMA RecordFields ==
    ASSUME NEW rec \in Records
    PROVE /\ rec.kind \in Kinds \cup {"once"} /\ rec.prompt \in Prompts
          /\ rec.anchor \in Iterations \cup {NoIter} /\ rec.age \in 0..FreshEvery /\ rec.reset \in BOOLEAN
BY DEF Records

-----------------------------------------------------------------------------
(***************************************************************************)
(* The writer: what each step does to the snapshots.                       *)
(***************************************************************************)
WriterMoves ==
    \/ UNCHANGED <<disk, chan, debounced>>
    \/ /\ UNCHANGED <<disk, debounced>> /\ Len(chan) < MaxQueue
       /\ \E b \in BOOLEAN : chan' = Append(chan, Command(b, mem', b))
    \/ UNCHANGED <<disk, debounced>> /\ chan' = Unawaited
    \/ TakeSave \/ Flush \/ Debounce
    \/ disk' = disk /\ chan' = <<>> /\ debounced' = {}

\* Every step moves the snapshots in one of the ways WriterMoves names.
LEMMA WriterStep ==
    ASSUME [Next]_vars
    PROVE WriterMoves
<1>1. CASE UNCHANGED vars
  BY <1>1 DEF vars, writerVars, WriterMoves
<1>2. CASE Writer
  BY <1>2 DEF Writer, Save, WriterMoves, actorVars
<1>3. CASE Commands
  <2>1. CASE PersistRemoval
    BY <2>1 DEF PersistRemoval, EnqueueFlush, WriterMoves
  <2>2. CASE ~PersistRemoval
    BY <1>3, <2>2 DEF Commands, Create, Update, Delete, RetryDelete, AbandonRemoval, writerVars, WriterMoves
  <2> QED BY <2>1, <2>2
<1>4. CASE Timer
  <2>1. ASSUME NEW t, ExpireDurable(t) \/ ExpirePlain(t) PROVE WriterMoves
    BY <2>1 DEF ExpireDurable, ExpirePlain, EnqueueFlush, WriterMoves
  <2>2. CASE AnnounceExpiry \/ PersistUnknown
    BY <2>2 DEF AnnounceExpiry, PersistUnknown, WriterMoves
  <2>3. ASSUME NEW t, BlockExpiry(t) \/ FireForeground(t) \/ FireLoop(t) PROVE WriterMoves
    BY <2>3 DEF BlockExpiry, FireForeground, FireLoop, writerVars, WriterMoves
  <2>4. CASE Persisted \/ PersistFailed \/ Published \/ PublishFailed
    BY <2>4 DEF Persisted, PersistFailed, Published, PublishFailed, writerVars, WriterMoves
  <2>5. CASE Skip \/ AskIteration \/ AskUnits \/ SendSpawn \/ SendFails
    BY <2>5 DEF Skip, AskIteration, AskUnits, SendSpawn, SendFails, writerVars, WriterMoves
  <2>6. ASSUME NEW i, Anchor(i) PROVE WriterMoves
    BY <2>6 DEF Anchor, writerVars, WriterMoves
  <2> QED BY <1>4, <2>1, <2>2, <2>3, <2>4, <2>5, <2>6 DEF Timer
<1>5. CASE Environment
  <2>1. CASE Restart
    BY <2>1 DEF Restart, WriterMoves
  <2>2. CASE Wire \/ CloseCoordinator \/ CloseTarget \/ Shutdown
    BY <2>2 DEF Wire, CloseCoordinator, CloseTarget, Shutdown, writerVars, WriterMoves
  <2>3. ASSUME NEW i, GuardClears(i) \/ IterationEnds(i) \/ Descend(i) \/ DescendantsEnd(i) PROVE WriterMoves
    BY <2>3 DEF GuardClears, IterationEnds, Descend, DescendantsEnd, writerVars, WriterMoves
  <2>4. ASSUME NEW t, Tick(t) PROVE WriterMoves
    BY <2>4 DEF Tick, writerVars, WriterMoves
  <2> QED BY <1>5, <2>1, <2>2, <2>3, <2>4 DEF Environment
<1> QED BY <1>1, <1>2, <1>3, <1>4, <1>5 DEF Next

\* The writer moves snapshots about but makes none: all of them stay in G if the
\* memory does.
LEMMA SnapsStep ==
    ASSUME NEW G, AllSnaps(G), mem' \in G, WriterMoves
    PROVE AllSnaps(G)'
<1> DEFINE C == CommandsOf(G)
<1>1. chan \in Seq(C) /\ disk \in G /\ debounced \subseteq G
  BY DEF AllSnaps
<1>2. \A b \in BOOLEAN, c \in BOOLEAN, snap \in G : Command(b, snap, c) \in C
  BY DEF CommandsOf, Command
<1>3. \A c \in C : c.flush \in BOOLEAN /\ c.snap \in G
  BY DEF CommandsOf
<1> HIDE DEF C
<1> SUFFICES chan' \in Seq(C) /\ disk' \in G /\ debounced' \subseteq G
  BY DEF AllSnaps, C
<1>4. CASE UNCHANGED <<disk, chan, debounced>>
  BY <1>1, <1>4
<1>5. ASSUME UNCHANGED <<disk, debounced>>, NEW b \in BOOLEAN, chan' = Append(chan, Command(b, mem', b))
      PROVE chan' \in Seq(C) /\ disk' \in G /\ debounced' \subseteq G
  <2>1. PICK c : c = Command(b, mem', b)
    OBVIOUS
  <2>2. c \in C
    BY <1>2, <2>1
  <2> QED BY <1>1, <1>5, <2>1, <2>2
<1>6. CASE UNCHANGED <<disk, debounced>> /\ chan' = Unawaited
  <2>1. Len(chan) \in Nat /\ DOMAIN chan = 1..Len(chan) /\ \A k \in DOMAIN chan : chan[k] \in C
    BY <1>1, LenProperties, ElementOfSeq
  <2>2. Unawaited \in [1..Len(chan) -> C]
    BY <1>2, <1>3, <2>1 DEF Unawaited
  <2>3. Unawaited \in Seq(C)
    BY <2>1, <2>2, Seq(C) = UNION {[1..n -> C] : n \in Nat}, SeqDef, Zenon
  <2> QED BY <1>1, <1>6, <2>3
<1>7. CASE TakeSave \/ Flush
  <2>1. chan # <<>> /\ chan' = Tail(chan)
    BY <1>7 DEF TakeSave, Flush
  <2>2. Head(chan).snap \in G /\ chan' \in Seq(C)
    BY <1>1, <1>3, <2>1, HeadTailProperties
  <2>3. disk' \in {disk, Head(chan).snap} /\ debounced' \subseteq {Head(chan).snap}
    BY <1>7 DEF TakeSave, Flush, DurablyWritten, DropPending
  <2> QED BY <1>1, <2>2, <2>3
<1>8. CASE Debounce
  BY <1>1, <1>8 DEF Debounce, Written
<1>9. CASE disk' = disk /\ chan' = <<>> /\ debounced' = {}
  BY <1>1, <1>9
<1> QED BY <1>4, <1>5, <1>6, <1>7, <1>8, <1>9 DEF WriterMoves

\* The channel keeps its bound, and one snapshot at most is debounced.
LEMMA BoundsStep ==
    ASSUME NEW C, chan \in Seq(C), Len(chan) <= MaxQueue, Cardinality(debounced) <= 1, WriterMoves
    PROVE Len(chan') <= MaxQueue /\ Cardinality(debounced') <= 1
<1>0. Len(chan) \in Nat /\ DOMAIN chan = 1..Len(chan) /\ MaxQueue \in Nat
  BY LenProperties, LimitAssumption
<1>1. \A x : Cardinality({x}) = 1 /\ Cardinality({}) = 0
  BY FS_Singleton, FS_EmptySet
<1>2. CASE UNCHANGED <<disk, chan, debounced>>
  BY <1>2
<1>3. ASSUME UNCHANGED <<disk, debounced>>, Len(chan) < MaxQueue, NEW b \in BOOLEAN,
             chan' = Append(chan, Command(b, mem', b))
      PROVE Len(chan') <= MaxQueue /\ Cardinality(debounced') <= 1
  <2>1. PICK c : c = Command(b, mem', b)
    OBVIOUS
  <2>2. chan \in Seq(C \cup {c})
    BY SeqMonotonic
  <2>3. Len(Append(chan, c)) = Len(chan) + 1
    BY <2>2
  <2> QED BY <1>0, <1>3, <2>1, <2>3
<1>4. CASE UNCHANGED <<disk, debounced>> /\ chan' = Unawaited
  <2>1. Unawaited \in [1..Len(chan) -> {Unawaited[k] : k \in DOMAIN chan}]
    BY <1>0 DEF Unawaited
  <2>2. Len(Unawaited) = Len(chan)
    BY <1>0, <2>1
  <2> QED BY <1>4, <2>2
<1>5. CASE TakeSave \/ Flush
  <2>1. chan # <<>> /\ chan' = Tail(chan)
    BY <1>5 DEF TakeSave, Flush
  <2>2. Len(chan') = Len(chan) - 1
    BY <2>1, HeadTailProperties
  <2>3. PICK x : debounced' = {x} \/ debounced' = {}
    BY <1>5 DEF TakeSave, Flush, DropPending
  <2>4. Cardinality(debounced') = 1 \/ Cardinality(debounced') = 0
    BY <1>1, <2>3, Zenon
  <2> QED BY <1>0, <2>2, <2>4
<1>6. CASE Debounce
  BY <1>1, <1>6 DEF Debounce
<1>7. CASE disk' = disk /\ chan' = <<>> /\ debounced' = {}
  BY <1>0, <1>1, <1>7
<1> QED BY <1>2, <1>3, <1>4, <1>5, <1>6, <1>7 DEF WriterMoves

-----------------------------------------------------------------------------
(***************************************************************************)
(* Versions stay in their range.                                           *)
(***************************************************************************)
LEMMA CommitTyped ==
    ASSUME clock \in Versions, NEW n \in Nat, n <= MaxRevision
    PROVE Commit(n) \in Versions
BY LimitAssumption DEF Commit, Version, Versions

\* A shutdown announces the tasks in memory, and there are not more of them than
\* versions.
LEMMA ShutdownFits ==
    ASSUME mem \in Snapshots
    PROVE Cardinality(DOMAIN mem) \in Nat /\ Cardinality(DOMAIN mem) <= MaxRevision
<1>1. IsFiniteSet(DOMAIN mem) /\ Cardinality(DOMAIN mem) <= Cardinality(Tasks)
  BY SnapshotIs, FS_Subset, LimitAssumption
<1>2. Cardinality(DOMAIN mem) \in Nat /\ Cardinality(Tasks) \in Nat
  BY <1>1, FS_CardinalityType, LimitAssumption
<1> QED BY <1>1, <1>2, LimitAssumption

\* No step takes the version clock past the last revision.
LEMMA ClockTyped ==
    ASSUME clock \in Versions, mem \in Snapshots, [Next]_vars
    PROVE clock' \in Versions
<1>1. 1 \in Nat /\ 2 \in Nat /\ 1 <= MaxRevision /\ 2 <= MaxRevision
  BY LimitAssumption
<1>2. Commit(1) \in Versions /\ Commit(2) \in Versions /\ Commit(Cardinality(DOMAIN mem)) \in Versions
  BY <1>1, ShutdownFits, CommitTyped
<1>3. clock' \in {clock, Commit(1), Commit(2), Commit(Cardinality(DOMAIN mem)), Version(1 - clock.generation, 0)}
  <2>1. CASE UNCHANGED vars \/ Writer
    BY <2>1 DEF vars, actorVars, Writer, Save, TakeSave, Flush, Debounce
  <2>2. CASE Commands
    BY <2>2 DEF Commands, Create, Update, Delete, RetryDelete, AbandonRemoval, PersistRemoval
  <2>3. CASE Timer
    <3>1. ASSUME NEW t, BlockExpiry(t) \/ ExpireDurable(t) \/ ExpirePlain(t) \/ FireForeground(t) \/ FireLoop(t)
          PROVE clock' \in {clock, Commit(1), Commit(2)}
      BY <3>1 DEF BlockExpiry, ExpireDurable, ExpirePlain, FireForeground, FireLoop
    <3>2. CASE AnnounceExpiry \/ Persisted \/ PersistFailed \/ PersistUnknown \/ Published \/ PublishFailed
      BY <3>2 DEF AnnounceExpiry, Persisted, PersistFailed, PersistUnknown, Published, PublishFailed
    <3>3. CASE Skip \/ AskIteration \/ AskUnits \/ SendSpawn \/ SendFails
      BY <3>3 DEF Skip, AskIteration, AskUnits, SendSpawn, SendFails
    <3>4. ASSUME NEW i, Anchor(i) PROVE clock' = clock
      BY <3>4 DEF Anchor
    <3> QED BY <2>3, <3>1, <3>2, <3>3, <3>4 DEF Timer
  <2>4. CASE Environment
    <3>1. CASE Wire \/ CloseCoordinator \/ CloseTarget
      BY <3>1 DEF Wire, CloseCoordinator, CloseTarget, actorVars
    <3>2. CASE Shutdown \/ Restart
      BY <3>2 DEF Shutdown, Restart
    <3>3. ASSUME NEW i, GuardClears(i) \/ IterationEnds(i) \/ Descend(i) \/ DescendantsEnd(i) PROVE clock' = clock
      BY <3>3 DEF GuardClears, IterationEnds, Descend, DescendantsEnd, actorVars
    <3>4. ASSUME NEW t, Tick(t) PROVE clock' = clock
      BY <3>4 DEF Tick, actorVars
    <3> QED BY <2>4, <3>1, <3>2, <3>3, <3>4 DEF Environment
  <2> QED BY <2>1, <2>2, <2>3, <2>4 DEF Next
<1>4. Version(1 - clock.generation, 0) \in Versions
  BY LimitAssumption DEF Version, Versions
<1> QED BY <1>2, <1>3, <1>4

-----------------------------------------------------------------------------
(***************************************************************************)
(* What a step does to the tasks in memory and to the transition under way. *)
(***************************************************************************)
\* The record of a task after an update, a spawn, its rollback or the guard.
LEMMA PatchedTyped ==
    ASSUME NEW rec \in Records, NEW p \in Prompts
    PROVE Patched(rec, p) \in Records
<1>1. 0 \in 0..FreshEvery
  BY LimitAssumption
<1> QED BY <1>1, RecordFields, TaskTyped DEF Patched

\* What a fire writes when it anchors an iteration is a record.
LEMMA AnchoredTyped ==
    ASSUME NEW rec \in Records, NEW now \in Records, NEW i \in Iterations, NEW completed
    PROVE Task(rec.kind, now.prompt, i, IF Resumes(rec, completed) THEN rec.age + 1 ELSE 1, FALSE) \in Records
<1>1. (IF Resumes(rec, completed) THEN rec.age + 1 ELSE 1) \in 0..FreshEvery
  BY RecordFields, LimitAssumption DEF Resumes
<1> QED BY <1>1, RecordFields, TaskTyped

\* What a failed spawn leaves of a task is a record.
LEMMA RolledBackTyped ==
    ASSUME NEW rec \in Records, NEW now \in Records
    PROVE RolledBack(now, rec) \in Records
BY RecordFields, TaskTyped DEF RolledBack

\* The tasks in memory are left alone but for the ones named.
LEMMA MemTyped ==
    ASSUME TypeInv, RemovalInv, [Next]_vars
    PROVE mem' \in Snapshots
<1>1. mem \in Snapshots /\ disk \in Snapshots
  BY DEF TypeInv, TypeOK
<1>2. \A t : Without(mem, t) \in Snapshots
  BY <1>1, WithoutSnapshot
<1>3. CASE UNCHANGED vars \/ Writer
  BY <1>1, <1>3 DEF vars, actorVars, Writer, Save, TakeSave, Flush, Debounce
<1>4. CASE Commands
  <2>1. ASSUME NEW t \in Tasks, NEW p \in Prompts, NEW kind \in Kinds, Create(t, kind, p) PROVE mem' \in Snapshots
    <3>1. NewTask(kind, p) \in Records
      BY LimitAssumption DEF NewTask, Task, Records
    <3> QED BY <1>1, <2>1, <3>1, WithSnapshot DEF Create
  <2>2. ASSUME NEW t \in Tasks, NEW p \in Prompts, NEW interval, Update(t, p, interval) PROVE mem' \in Snapshots
    <3>1. mem[t] \in Records
      BY <1>1, <2>2, SnapshotIs DEF Update
    <3>2. Patched(mem[t], p) \in Records
      BY <3>1, PatchedTyped
    <3> QED BY <1>1, <2>2, <3>2, WithSnapshot DEF Update
  <2>3. ASSUME NEW t, Delete(t) PROVE mem' \in Snapshots
    BY <1>2, <2>3 DEF Delete
  <2>4. CASE RetryDelete \/ AbandonRemoval \/ PersistRemoval
    BY <1>1, <2>4 DEF RetryDelete, AbandonRemoval, PersistRemoval
  <2> QED BY <1>4, <2>1, <2>2, <2>3, <2>4 DEF Commands
<1>5. CASE Timer
  <2>1. ASSUME NEW t, BlockExpiry(t) \/ ExpireDurable(t) \/ ExpirePlain(t) \/ FireForeground(t) \/ FireLoop(t)
        PROVE mem' \in Snapshots
    BY <1>1, <1>2, <2>1 DEF BlockExpiry, ExpireDurable, ExpirePlain, FireForeground, FireLoop
  <2>2. CASE AnnounceExpiry \/ Persisted \/ PersistUnknown \/ Published \/ PublishFailed
    BY <1>1, <2>2 DEF AnnounceExpiry, Persisted, PersistUnknown, Published, PublishFailed
  <2>3. CASE PersistFailed
    <3>1. cur.why = "expire" => cur.rec \in Records /\ cur.task \in Tasks
      BY <2>3 DEF PersistFailed, TypeInv, CurTyped, RestoresRecord
    <3> QED BY <1>1, <2>3, <3>1, WithSnapshot DEF PersistFailed
  <2>4. CASE Skip \/ AskIteration \/ AskUnits \/ SendSpawn
    BY <1>1, <2>4 DEF Skip, AskIteration, AskUnits, SendSpawn
  <2>5. pc \in Firing => /\ cur.rec \in Records /\ cur.task \in Tasks /\ cur.task \in DOMAIN mem
                         /\ mem[cur.task] \in Records
    BY <1>1, SnapshotIs DEF TypeInv, CurTyped, RestoresRecord, RemovalInv, InMemory
  <2>6. ASSUME NEW i \in Iterations, Anchor(i) PROVE mem' \in Snapshots
    <3>1. PICK rec : /\ rec = Task(cur.rec.kind, mem[cur.task].prompt, i,
                               IF Resumes(cur.rec, cur.completed) THEN cur.rec.age + 1 ELSE 1, FALSE)
                     /\ mem' = With(mem, cur.task, rec)
      BY <2>6 DEF Anchor
    <3>2. rec \in Records /\ cur.task \in Tasks
      BY <2>5, <2>6, <3>1, AnchoredTyped DEF Anchor, Firing
    <3> QED BY <1>1, <3>1, <3>2, WithSnapshot
  <2>7. CASE SendFails
    <3>1. pc \in Firing /\ mem' = With(mem, cur.task, RolledBack(mem[cur.task], cur.rec))
      BY <2>7 DEF SendFails, Firing
    <3>2. RolledBack(mem[cur.task], cur.rec) \in Records
      BY <2>5, <3>1, RolledBackTyped
    <3> QED BY <1>1, <2>5, <3>1, <3>2, WithSnapshot
  <2> QED BY <1>5, <2>1, <2>2, <2>3, <2>4, <2>6, <2>7 DEF Timer
<1>6. CASE Environment
  <2>1. CASE Wire \/ CloseCoordinator \/ CloseTarget \/ Shutdown \/ Restart
    BY <1>1, <2>1 DEF Wire, CloseCoordinator, CloseTarget, Shutdown, Restart, actorVars
  <2>2. ASSUME NEW i, IterationEnds(i) \/ Descend(i) \/ DescendantsEnd(i) PROVE mem' \in Snapshots
    BY <1>1, <2>2 DEF IterationEnds, Descend, DescendantsEnd, actorVars
  <2>3. ASSUME NEW i, GuardClears(i) PROVE mem' \in Snapshots
    <3>1. \A t \in DOMAIN mem : mem[t] \in Records /\ Task(mem[t].kind, mem[t].prompt, NoIter, 0, mem[t].reset) \in Records
      <4>1. 0 \in 0..FreshEvery
        BY LimitAssumption
      <4> QED BY <1>1, <4>1, SnapshotIs, RecordFields, TaskTyped
    <3>2. PICK T : T = DOMAIN mem
      OBVIOUS
    <3>3. mem' \in [T -> Records] /\ T \in SUBSET Tasks
      BY <1>1, <2>3, <3>1, <3>2, SnapshotIs DEF GuardClears
    <3> QED BY <3>3, IsSnapshot
  <2>4. ASSUME NEW t, Tick(t) PROVE mem' \in Snapshots
    BY <1>1, <2>4 DEF Tick, actorVars
  <2> QED BY <1>6, <2>1, <2>2, <2>3, <2>4 DEF Environment
<1> QED BY <1>3, <1>4, <1>5, <1>6 DEF Next

\* A place in the middle of a transition keeps what the transition began with.
LEMMA CurStep ==
    ASSUME TypeInv, RemovalInv, ClockInv, [Next]_vars
    PROVE CurTyped'
<1>1. mem \in Snapshots
  BY DEF TypeInv, TypeOK
<1>2. CASE UNCHANGED <<pc, cur>>
  BY <1>2 DEF TypeInv, CurTyped, RestoresRecord
<1>3. CASE pc' \in {"idle", "stopped", "complete", "announce", "publish"}
  BY <1>3 DEF CurTyped, RestoresRecord, Firing
<1>4. ASSUME NEW t, ExpireDurable(t) \/ FireLoop(t) PROVE CurTyped'
  <2>1. t \in DOMAIN mem
    BY <1>4 DEF ExpireDurable, FireLoop, Selectable
  <2>2. mem[t] \in Records /\ t \in Tasks
    BY <1>1, <2>1, SnapshotIs
  <2>3. cur'.rec = mem[t] /\ cur'.task = t
    BY <1>4 DEF ExpireDurable, FireLoop, At
  <2>4. pc' # "send" /\ (pc' = "query" => mem[t].anchor \in Iterations)
    BY <1>4, <2>2, RecordFields DEF ExpireDurable, FireLoop
  <2> QED BY <2>2, <2>3, <2>4 DEF CurTyped
<1>5. CASE PersistRemoval
  BY <1>5 DEF PersistRemoval, ClockInv, Reasons, CurTyped, RestoresRecord, Firing
<1>6. CASE AskIteration
  <2>1. PICK completed : cur' = At(cur.task, "fire", cur.rec, cur.source, completed, NoIter)
    BY <1>6 DEF AskIteration
  <2>2. pc \in Firing /\ pc' = "units"
    BY <1>6 DEF AskIteration, Firing
  <2>3. cur'.rec = cur.rec /\ cur'.task = cur.task
    BY <2>1 DEF At
  <2> QED BY <2>2, <2>3 DEF TypeInv, CurTyped, RestoresRecord
<1>7. CASE AskUnits
  BY <1>7 DEF AskUnits, TypeInv, CurTyped, RestoresRecord, Firing
<1>8. ASSUME NEW i \in Iterations, Anchor(i) PROVE CurTyped'
  <2>1. pc \in Firing /\ pc' = "send"
    BY <1>8 DEF Anchor, Firing
  <2>2. cur'.rec = cur.rec /\ cur'.task = cur.task /\ cur'.sub = i
    BY <1>8 DEF Anchor, At
  <2> QED BY <2>1, <2>2 DEF TypeInv, CurTyped, RestoresRecord
<1>9. \/ UNCHANGED <<pc, cur>>
      \/ pc' \in {"idle", "stopped", "complete", "announce", "publish"}
      \/ \E t : ExpireDurable(t) \/ FireLoop(t)
      \/ PersistRemoval \/ AskIteration \/ AskUnits \/ \E i \in Iterations : Anchor(i)
  <2>1. CASE UNCHANGED vars \/ Writer
    BY <2>1 DEF vars, actorVars, Writer, Save, TakeSave, Flush, Debounce
  <2>2. CASE Commands
    BY <2>2 DEF Commands, Create, Update, Delete, RetryDelete, AbandonRemoval
  <2>3. CASE Timer
    <3>1. ASSUME NEW t, BlockExpiry(t) \/ ExpirePlain(t) \/ FireForeground(t)
          PROVE UNCHANGED <<pc, cur>> \/ pc' = "announce"
      BY <3>1 DEF BlockExpiry, ExpirePlain, FireForeground
    <3>2. CASE AnnounceExpiry \/ Persisted \/ PersistFailed \/ PersistUnknown \/ Published \/ PublishFailed
               \/ Skip \/ SendSpawn \/ SendFails
      BY <3>2 DEF AnnounceExpiry, Persisted, PersistFailed, PersistUnknown, Published, PublishFailed,
                  Skip, SendSpawn, SendFails
    <3> QED BY <2>3, <3>1, <3>2 DEF Timer
  <2>4. CASE Environment
    BY <2>4 DEF Environment, Wire, CloseCoordinator, CloseTarget, Shutdown, Restart, GuardClears, IterationEnds,
                Descend, DescendantsEnd, Tick, actorVars
  <2> QED BY <2>1, <2>2, <2>3, <2>4 DEF Next
<1> QED BY <1>2, <1>3, <1>4, <1>5, <1>6, <1>7, <1>8, <1>9

-----------------------------------------------------------------------------
(***************************************************************************)
(* The other parts of the state.                                           *)
(***************************************************************************)
IterationRecords ==
    [state : {"new", "named", "live", "done", "failed", "lost"}, task : Tasks \cup {NoTask},
     prompt : Prompts \cup {"none"}, resumes : Iterations \cup {NoIter}]

LoopTyped ==
    /\ coord \in {"unwired", "open", "closed"}
    /\ iter \in [Iterations -> IterationRecords]
    /\ unit \subseteq Iterations /\ watch \subseteq Iterations

RestTyped ==
    /\ blocked \subseteq Tasks /\ removal \in [task : Tasks \cup {NoTask}, source : Versions]
    /\ target \in BOOLEAN /\ ack \in {"none", "ok", "err"}
    /\ due \subseteq Tasks /\ expired \subseteq Tasks /\ born \subseteq Tasks

\* A change of the state of an iteration, or of all of them, keeps the types.
LEMMA BecomesTyped ==
    ASSUME iter \in [Iterations -> IterationRecords]
    PROVE /\ \A i \in Iterations, s \in {"named", "done", "failed"} : Becomes(i, s) \in [Iterations -> IterationRecords]
          /\ Orphaned \in [Iterations -> IterationRecords]
<1>1. \A i \in Iterations, s \in {"named", "done", "failed", "lost"} :
        Iteration(s, iter[i].task, iter[i].prompt, iter[i].resumes) \in IterationRecords
  BY DEF Iteration, IterationRecords
<1>2. \A i \in Iterations, s \in {"named", "done", "failed"} : Becomes(i, s) \in [Iterations -> IterationRecords]
  BY <1>1 DEF Becomes
<1>3. Orphaned \in [Iterations -> IterationRecords]
  BY <1>1 DEF Orphaned
<1> QED BY <1>2, <1>3

\* The iterations, their units and the guards keep their types.
LEMMA LoopTypedStep ==
    ASSUME LoopTyped, CurTyped, [Next]_vars
    PROVE LoopTyped'
<1> DEFINE F == [Iterations -> IterationRecords]
<1>1. iter \in F
  BY DEF LoopTyped
<1>2. CASE UNCHANGED loopVars
  BY <1>2 DEF LoopTyped, loopVars
<1>3. ASSUME NEW i \in Iterations, Anchor(i) PROVE LoopTyped'
  BY <1>1, <1>3, BecomesTyped DEF Anchor, LoopTyped
<1>4. CASE SendSpawn
  <2>1. cur.rec \in Records /\ cur.task \in Tasks /\ cur.sub \in Iterations
    BY <1>4 DEF SendSpawn, CurTyped, RestoresRecord, Firing
  <2>2. PICK r : /\ r = Iteration("live", cur.task, cur.rec.prompt,
                             IF Resumes(cur.rec, cur.completed) THEN cur.rec.anchor ELSE NoIter)
                 /\ iter' = [iter EXCEPT ![cur.sub] = r]
    BY <1>4 DEF SendSpawn
  <2>3. r \in IterationRecords
    BY <2>1, <2>2, RecordFields DEF Iteration, IterationRecords
  <2> QED BY <1>1, <1>4, <2>1, <2>2, <2>3 DEF SendSpawn, LoopTyped
<1>5. ASSUME NEW i \in Iterations, GuardClears(i) \/ Descend(i) \/ DescendantsEnd(i) PROVE LoopTyped'
  BY <1>5 DEF GuardClears, Descend, DescendantsEnd, LoopTyped
<1>6. ASSUME NEW i \in Iterations, IterationEnds(i) PROVE LoopTyped'
  BY <1>1, <1>6, BecomesTyped DEF IterationEnds, LoopTyped
<1>7. CASE Wire \/ CloseCoordinator \/ Restart
  BY <1>1, <1>7, BecomesTyped DEF Wire, CloseCoordinator, Restart, LoopTyped
<1>8. \/ UNCHANGED loopVars \/ SendSpawn \/ Wire \/ CloseCoordinator \/ Restart
      \/ \E i \in Iterations : Anchor(i) \/ GuardClears(i) \/ IterationEnds(i) \/ Descend(i) \/ DescendantsEnd(i)
  <2>1. CASE UNCHANGED vars \/ Writer
    BY <2>1 DEF vars, Writer, Save, TakeSave, Flush, Debounce
  <2>2. CASE Commands
    BY <2>2 DEF Commands, Create, Update, Delete, RetryDelete, AbandonRemoval, PersistRemoval
  <2>3. CASE Timer
    <3>1. ASSUME NEW t, BlockExpiry(t) \/ ExpireDurable(t) \/ ExpirePlain(t) \/ FireForeground(t) \/ FireLoop(t)
          PROVE UNCHANGED loopVars
      BY <3>1 DEF BlockExpiry, ExpireDurable, ExpirePlain, FireForeground, FireLoop
    <3>2. CASE AnnounceExpiry \/ Persisted \/ PersistFailed \/ PersistUnknown \/ Published \/ PublishFailed
               \/ Skip \/ AskIteration \/ AskUnits \/ SendFails
      BY <3>2 DEF AnnounceExpiry, Persisted, PersistFailed, PersistUnknown, Published, PublishFailed,
                  Skip, AskIteration, AskUnits, SendFails
    <3> QED BY <2>3, <3>1, <3>2 DEF Timer
  <2>4. CASE Environment
    BY <2>4 DEF Environment, CloseTarget, Shutdown, Tick
  <2> QED BY <2>1, <2>2, <2>3, <2>4 DEF Next
<1> QED BY <1>2, <1>3, <1>4, <1>5, <1>6, <1>7, <1>8

\* The pending removals, announcements and reservations keep their types.
LEMMA RestTypedStep ==
    ASSUME RestTyped, CurTyped, mem \in Snapshots, clock \in Versions, [Next]_vars
    PROVE RestTyped'
<1>1. NoRemoval \in [task : Tasks \cup {NoTask}, source : Versions]
  BY LimitAssumption DEF NoRemoval, Zero, Version, Versions
<1>2. DOMAIN mem \subseteq Tasks
  BY SnapshotIs
<1>3. CASE UNCHANGED vars \/ Writer
  <2>1. CASE UNCHANGED vars \/ Save \/ TakeSave \/ Debounce
    BY <2>1 DEF vars, actorVars, writerVars, timeVars, Save, TakeSave, Debounce, RestTyped
  <2>2. CASE Flush
    <3>1. UNCHANGED <<blocked, removal, target, due, expired, born>>
      BY <2>2 DEF Flush, actorVars, timeVars
    <3>2. \E w \in DurablyWritten(Head(chan).snap) : ack' \in {w[2], ack}
      BY <2>2 DEF Flush
    <3>3. \A snap : \A w \in DurablyWritten(snap) : w[2] \in {"ok", "err"}
      BY DEF DurablyWritten
    <3>4. ack' \in {"ok", "err", ack}
      BY <3>2, <3>3
    <3> QED BY <3>1, <3>4 DEF RestTyped
  <2> QED BY <1>3, <2>1, <2>2 DEF Writer
<1>4. CASE Commands
  <2>1. ASSUME NEW t \in Tasks, Delete(t) PROVE RestTyped'
    BY <2>1 DEF Delete, RestTyped, writerVars
  <2>2. ASSUME NEW t \in Tasks, NEW p, NEW kind, Create(t, kind, p) PROVE RestTyped'
    BY <2>2 DEF Create, RestTyped, writerVars
  <2>3. ASSUME NEW t \in Tasks, NEW p, NEW interval, Update(t, p, interval) PROVE RestTyped'
    BY <2>3 DEF Update, RestTyped, writerVars
  <2>4. CASE RetryDelete \/ AbandonRemoval \/ PersistRemoval
    BY <1>1, <2>4 DEF RetryDelete, AbandonRemoval, PersistRemoval, EnqueueFlush, RestTyped, writerVars, timeVars
  <2> QED BY <1>4, <2>1, <2>2, <2>3, <2>4 DEF Commands
<1>5. CASE Timer
  <2>1. ASSUME NEW t \in Tasks, BlockExpiry(t) \/ ExpireDurable(t) \/ ExpirePlain(t) PROVE RestTyped'
    BY <2>1 DEF BlockExpiry, ExpireDurable, ExpirePlain, EnqueueFlush, RestTyped, writerVars, timeVars
  <2>2. ASSUME NEW t \in Tasks, FireForeground(t) \/ FireLoop(t) PROVE RestTyped'
    BY <2>2 DEF FireForeground, FireLoop, RestTyped, writerVars
  <2>3. CASE AnnounceExpiry \/ Persisted \/ PersistUnknown \/ Published \/ PublishFailed
    BY <1>1, <2>3 DEF AnnounceExpiry, Persisted, PersistUnknown, Published, PublishFailed, RestTyped, writerVars, timeVars
  <2>4. CASE PersistFailed
    BY <2>4 DEF PersistFailed, CurTyped, RestoresRecord, RestTyped, timeVars
  <2>5. CASE Skip \/ AskIteration \/ AskUnits \/ SendSpawn \/ SendFails
    BY <2>5 DEF Skip, AskIteration, AskUnits, SendSpawn, SendFails, RestTyped, writerVars, timeVars
  <2>6. ASSUME NEW i, Anchor(i) PROVE RestTyped'
    BY <2>6 DEF Anchor, RestTyped, writerVars, timeVars
  <2> QED BY <1>5, <2>1, <2>2, <2>3, <2>4, <2>5, <2>6 DEF Timer
<1>6. CASE Environment
  <2>1. CASE Restart
    BY <1>1, <2>1 DEF Restart, RestTyped
  <2>2. CASE Wire \/ CloseCoordinator \/ CloseTarget \/ Shutdown
    BY <2>2 DEF Wire, CloseCoordinator, CloseTarget, Shutdown, RestTyped, actorVars, writerVars, timeVars
  <2>3. ASSUME NEW i, GuardClears(i) \/ IterationEnds(i) \/ Descend(i) \/ DescendantsEnd(i) PROVE RestTyped'
    BY <2>3 DEF GuardClears, IterationEnds, Descend, DescendantsEnd, RestTyped, actorVars, writerVars, timeVars
  <2>4. ASSUME NEW t \in Tasks, Tick(t) PROVE RestTyped'
    BY <2>4 DEF Tick, RestTyped, actorVars, writerVars
  <2> QED BY <1>6, <2>1, <2>2, <2>3, <2>4 DEF Environment
<1> QED BY <1>3, <1>4, <1>5, <1>6 DEF Next

\* The parts make up the type invariant.
LEMMA TypeParts ==
    TypeOK <=> /\ AllSnaps(Snapshots) /\ Len(chan) <= MaxQueue /\ Cardinality(debounced) <= 1
               /\ LoopTyped /\ RestTyped /\ clock \in Versions /\ pc \in Places /\ removed \subseteq born
BY DEF TypeOK, AllSnaps, CommandsOf, LoopTyped, RestTyped, IterationRecords

\* Every step keeps every part of the types.
LEMMA TypeStep ==
    ASSUME TypeInv, RemovalInv, ClockInv, [Next]_vars
    PROVE TypeInv'
<1>1. /\ AllSnaps(Snapshots) /\ Len(chan) <= MaxQueue /\ Cardinality(debounced) <= 1
      /\ LoopTyped /\ RestTyped /\ clock \in Versions /\ CurTyped
  BY TypeParts DEF TypeInv
<1>2. mem' \in Snapshots /\ WriterMoves
  BY MemTyped, WriterStep
<1>3. AllSnaps(Snapshots)'
  <2>1. PICK G : G = Snapshots
    OBVIOUS
  <2>2. AllSnaps(G)'
    BY <1>1, <1>2, <2>1, SnapsStep DEF AllSnaps
  <2> QED BY <2>1, <2>2 DEF AllSnaps
<1>4. Len(chan') <= MaxQueue /\ Cardinality(debounced') <= 1
  <2>1. PICK C : chan \in Seq(C)
    BY <1>1 DEF AllSnaps
  <2> QED BY <1>1, <1>2, <2>1, BoundsStep
<1>5. LoopTyped' /\ RestTyped' /\ clock' \in Versions
  <2>1. mem \in Snapshots
    BY <1>1 DEF AllSnaps
  <2> QED BY <1>1, <2>1, LoopTypedStep, RestTypedStep, ClockTyped
<1>6. pc' \in Places /\ removed' \subseteq born'
  BY ClockStep, RemovalStep DEF ClockInv, Reasons, Firing, Removing, Places, RemovalInv, Known
<1>7. CurTyped'
  BY CurStep
<1>8. TypeOK'
  BY <1>3, <1>4, <1>5, <1>6 DEF TypeOK, AllSnaps, CommandsOf, LoopTyped, RestTyped, IterationRecords
<1> QED BY <1>7, <1>8 DEF TypeInv

\* A freshly loaded session is typed.
LEMMA InitTyped ==
    ASSUME Init
    PROVE ClockInv /\ RemovalInv /\ TypeInv
<1>1. ClockInv /\ RemovalInv
  BY InitRemoval
<1>3. mem \in Snapshots /\ disk = mem /\ born \subseteq Tasks
  <2>1. \A p \in Prompts : NewTask("once", p) \in Records
    BY LimitAssumption DEF NewTask, Task, Records
  <2>2. PICK T : T = born /\ T \in SUBSET Tasks
    BY TaskAssumption DEF Init
  <2>3. disk \in [T -> Records]
    BY <2>1, <2>2 DEF Init
  <2> QED BY <2>2, <2>3, IsSnapshot DEF Init
<1>4. AllSnaps(Snapshots) /\ Len(chan) <= MaxQueue /\ Cardinality(debounced) <= 1
  BY <1>3, FS_EmptySet, LimitAssumption DEF Init, AllSnaps
<1>5. LoopTyped
  BY DEF Init, LoopTyped, IterationRecords, Iteration
<1>6. RestTyped /\ clock \in Versions
  BY <1>3, LimitAssumption DEF Init, RestTyped, NoRemoval, Zero, Version, Versions
<1>7. pc \in Places /\ removed \subseteq born /\ CurTyped
  BY DEF Init, Places, CurTyped, RestoresRecord, Firing
<1> QED BY <1>1, <1>4, <1>5, <1>6, <1>7, TypeParts DEF TypeInv

\* The state of the scheduler has its type: the records that are patched, rolled
\* back or restored are records, the chain of transcripts keeps its limit, and a
\* revision never runs over, with any reservation, at a shutdown too.
THEOREM SchedulerTypeOK == Spec => []TypeOK
<1>1. Init => ClockInv /\ RemovalInv /\ TypeInv
  BY InitTyped
<1>2. ClockInv /\ RemovalInv /\ TypeInv /\ [Next]_vars => (ClockInv /\ RemovalInv /\ TypeInv)'
  BY ClockStep, RemovalStep, TypeStep
<1>3. TypeInv => TypeOK
  BY DEF TypeInv
<1> QED BY <1>1, <1>2, <1>3, PTL DEF Spec

-----------------------------------------------------------------------------
(***************************************************************************)
(* The kinds of steps, seen from the iterations.                           *)
(***************************************************************************)
\* Neither the iterations nor the tasks nor the transition change.
Aside ==
    /\ UNCHANGED <<mem, pc, cur, iter, unit, watch, born>>
    /\ coord' = coord \/ (coord = "unwired" /\ coord' = "open")

\* The actor ends or leaves a transition, or handles a command: a task may be new,
\* and one that has a new prompt starts a new transcript.
Calm ==
    /\ UNCHANGED <<coord, iter, unit, watch>> /\ born \subseteq born' /\ ~RestoresRecord'
    /\ \A t \in DOMAIN mem' :
         \/ t \notin born /\ mem'[t].anchor = NoIter
         \/ /\ t \in DOMAIN mem /\ mem'[t].anchor = mem[t].anchor
            /\ mem'[t].reset \/ mem'[t] = mem[t]

Moves ==
    \/ Aside \/ Calm \/ (\E t \in Tasks : ExpireDurable(t) \/ FireLoop(t))
    \/ PersistFailed \/ AskIteration \/ AskUnits \/ (\E i \in Iterations : Anchor(i)) \/ SendSpawn \/ SendFails
    \/ \E i \in Iterations : GuardClears(i) \/ IterationEnds(i) \/ Descend(i) \/ DescendantsEnd(i)
    \/ CloseCoordinator \/ Restart

\* A command touches no iteration and anchors nothing new.
LEMMA CalmCommands ==
    ASSUME mem \in Snapshots, ClockInv, Commands
    PROVE Calm
<1>1. ASSUME NEW t, NEW p, NEW kind, Create(t, kind, p) PROVE Calm
  <2>1. /\ UNCHANGED <<coord, iter, unit, watch>> /\ born \subseteq born' /\ pc' = "idle" /\ t \notin born
    BY <1>1 DEF Create, loopVars, Accepts
  <2>2. \A x \in DOMAIN mem' : IF x = t THEN mem'[x] = NewTask(kind, p) ELSE x \in DOMAIN mem /\ mem'[x] = mem[x]
    BY <1>1 DEF Create, With
  <2>3. NewTask(kind, p).anchor = NoIter
    BY DEF NewTask, Task
  <2> QED BY <2>1, <2>2, <2>3 DEF Calm, RestoresRecord, Firing
<1>2. ASSUME NEW t, NEW p, NEW interval, Update(t, p, interval) PROVE Calm
  <2>1. UNCHANGED <<coord, iter, unit, watch, born>> /\ pc' = "idle" /\ t \in DOMAIN mem
    BY <1>2 DEF Update, loopVars, Accepts
  <2>2. \A x \in DOMAIN mem' : x \in DOMAIN mem /\ (IF x = t THEN mem'[x] = Patched(mem[t], p) ELSE mem'[x] = mem[x])
    BY <1>2, <2>1 DEF Update, With
  <2>3. Patched(mem[t], p).anchor = mem[t].anchor /\ (Patched(mem[t], p).reset \/ Patched(mem[t], p) = mem[t])
    BY DEF Patched, Task
  <2> QED BY <2>1, <2>2, <2>3 DEF Calm, RestoresRecord, Firing
<1>3. ASSUME NEW t, Delete(t) PROVE Calm
  <2>1. UNCHANGED <<coord, iter, unit, watch, born>> /\ pc' = "complete"
    BY <1>3 DEF Delete, loopVars
  <2>2. \A x \in DOMAIN mem' : x \in DOMAIN mem /\ mem'[x] = mem[x]
    BY <1>3 DEF Delete, Without
  <2> QED BY <2>1, <2>2 DEF Calm, RestoresRecord, Firing
<1>4. CASE RetryDelete \/ AbandonRemoval
  BY <1>4 DEF RetryDelete, AbandonRemoval, loopVars, timeVars, Calm, RestoresRecord, Firing
<1>5. CASE PersistRemoval
  BY <1>5 DEF PersistRemoval, loopVars, timeVars, Calm, RestoresRecord, Firing, ClockInv, Reasons
<1> QED BY <1>1, <1>2, <1>3, <1>4, <1>5 DEF Commands

\* Every step is calm or one of the loop's own steps.
LEMMA MoveCases ==
    ASSUME mem \in Snapshots, ClockInv, [Next]_vars
    PROVE Moves
<1>1. CASE UNCHANGED vars \/ Writer
  <2>1. Aside
    BY <1>1 DEF vars, actorVars, loopVars, timeVars, Writer, Save, TakeSave, Flush, Debounce, Aside
  <2> QED BY <2>1 DEF Moves
<1>2. CASE Commands
  BY <1>2, CalmCommands DEF Moves
<1>3. CASE Timer
  <2>1. ASSUME NEW t, BlockExpiry(t) PROVE Moves
    <3>1. Aside
      BY <2>1 DEF BlockExpiry, loopVars, timeVars, Aside
    <3> QED BY <3>1 DEF Moves
  <2>2. ASSUME NEW t, ExpirePlain(t) PROVE Moves
    <3>1. \A x \in DOMAIN mem' : x \in DOMAIN mem /\ mem'[x] = mem[x]
      BY <2>2 DEF ExpirePlain, Without
    <3>2. Calm
      BY <2>2, <3>1 DEF ExpirePlain, loopVars, Calm, RestoresRecord, Firing
    <3> QED BY <3>2 DEF Moves
  <2>3. ASSUME NEW t, FireForeground(t) PROVE Moves
    <3>1. \A x \in DOMAIN mem' : x \in DOMAIN mem /\ mem'[x] = mem[x]
      BY <2>3 DEF FireForeground, Without
    <3>2. Calm
      BY <2>3, <3>1 DEF FireForeground, Selectable, Accepts, loopVars, Calm, RestoresRecord, Firing
    <3> QED BY <3>2 DEF Moves
  <2>4. CASE AnnounceExpiry \/ Persisted \/ PersistUnknown \/ Published \/ PublishFailed \/ Skip
    <3>1. Calm
      BY <2>4 DEF AnnounceExpiry, Persisted, PersistUnknown, Published, PublishFailed, Skip,
                  loopVars, timeVars, Calm, RestoresRecord, Firing
    <3> QED BY <3>1 DEF Moves
  <2> QED BY <1>3, <2>1, <2>2, <2>3, <2>4 DEF Timer, Moves
<1>4. CASE Environment
  <2>1. CASE Wire \/ CloseTarget \/ \E t \in Tasks : Tick(t)
    <3>1. Aside
      BY <2>1 DEF Wire, CloseTarget, Tick, actorVars, loopVars, timeVars, Aside
    <3> QED BY <3>1 DEF Moves
  <2>2. CASE Shutdown
    <3>1. Calm
      BY <2>2 DEF Shutdown, loopVars, timeVars, Calm, RestoresRecord, Firing
    <3> QED BY <3>1 DEF Moves
  <2> QED BY <1>4, <2>1, <2>2 DEF Environment, Moves
<1> QED BY <1>1, <1>2, <1>3, <1>4 DEF Next

-----------------------------------------------------------------------------
(***************************************************************************)
(* Iterations of a loop do not overlap.                                    *)
(***************************************************************************)
LEMMA AsideLoop ==
    ASSUME LoopInv, Aside
    PROVE LoopInv'
<1>1. Started' /\ Latest' /\ Alone' /\ OverlapsFailedOnly'
  BY DEF Aside, LoopInv, Started, Latest, Alone, OverlapsFailedOnly, Working
<1>2. Named' /\ CurUsed'
  BY DEF Aside, LoopInv, Named, CurUsed, RestoresRecord, Firing
<1>3. mem' \in UsedSnaps'
  BY DEF Aside, LoopInv, UsedSnaps
<1> QED BY <1>1, <1>2, <1>3 DEF LoopInv

\* A calm step keeps what is known of anchors and iterations.
LEMMA CalmLoop ==
    ASSUME LoopInv, Calm, mem' \in Snapshots
    PROVE LoopInv'
<1>1. UNCHANGED <<coord, iter, unit, watch>> /\ born \subseteq born' /\ ~RestoresRecord'
  BY DEF Calm
<1>2. \A t \in DOMAIN mem' : (t \notin born /\ mem'[t].anchor = NoIter) \/ (t \in DOMAIN mem /\ mem'[t].anchor = mem[t].anchor)
  BY DEF Calm
<1>3. pc' \notin Firing /\ ~(pc' = "persist" /\ cur'.why = "expire")
  BY <1>1 DEF RestoresRecord
<1>4. Started' /\ OverlapsFailedOnly'
  BY <1>1 DEF LoopInv, Started, OverlapsFailedOnly, Working
<1>5. Latest'
  BY <1>1, <1>2, <1>3 DEF LoopInv, Started, Latest, Working
<1>6. Alone' /\ Named' /\ CurUsed'
  BY <1>1, <1>3 DEF Alone, Named, CurUsed, Firing
<1>7. mem' \in UsedSnaps'
  BY <1>1, <1>2 DEF LoopInv, UsedSnaps
<1> QED BY <1>4, <1>5, <1>6, <1>7 DEF LoopInv

\* A durable expiry is under way, or a loop is fired.
LEMMA BeginLoop ==
    ASSUME LoopInv, TypeInv, NEW t, ExpireDurable(t) \/ FireLoop(t), mem' \in Snapshots
    PROVE LoopInv'
<1>1. UNCHANGED <<coord, iter, unit, watch, born>> /\ t \in DOMAIN mem /\ pc' \notin {"send", "idle"}
  BY DEF ExpireDurable, FireLoop, loopVars, timeVars, Selectable
<1>2. \A x \in DOMAIN mem' : x \in DOMAIN mem /\ mem'[x] = mem[x]
  BY DEF ExpireDurable, FireLoop, Without
<1>3. cur'.rec = mem[t] /\ cur'.task = t
  BY DEF ExpireDurable, FireLoop, At
<1>4. Started' /\ OverlapsFailedOnly'
  BY <1>1 DEF LoopInv, Started, OverlapsFailedOnly, Working
<1>5. Latest'
  BY <1>1, <1>2, <1>3 DEF LoopInv, Latest, Working
<1>6. Alone'
  <2> SUFFICES ASSUME pc' = "spawn", NEW i \in Iterations, iter[i].task = t, Working(i), iter[i].state # "failed"
               PROVE FALSE
    BY <1>1, <1>3 DEF Alone, Working
  <2>1. mem[t].anchor = NoIter
    BY DEF ExpireDurable, FireLoop
  <2>2. mem[t].anchor = i
    BY <1>1 DEF LoopInv, Latest
  <2> QED BY <2>1, <2>2, TaskAssumption
<1>7. Named'
  BY <1>1 DEF ExpireDurable, FireLoop, Named, Firing, loopVars
<1>8. CurUsed'
  BY <1>1, <1>3 DEF LoopInv, UsedSnaps, CurUsed
<1>9. mem' \in UsedSnaps'
  BY <1>1, <1>2 DEF LoopInv, UsedSnaps
<1> QED BY <1>4, <1>5, <1>6, <1>7, <1>8, <1>9 DEF LoopInv

\* An expiry is undone: what works for the loop is still its last iteration.
LEMMA UndoLoop ==
    ASSUME LoopInv, PersistFailed, mem' \in Snapshots
    PROVE LoopInv'
<1>1. UNCHANGED <<coord, iter, unit, watch, born>> /\ pc = "persist" /\ pc' = "idle"
  BY DEF PersistFailed, loopVars, timeVars
<1>2. \A x \in DOMAIN mem' : \/ x \in DOMAIN mem /\ mem'[x] = mem[x]
                             \/ cur.why = "expire" /\ x = cur.task /\ mem'[x] = cur.rec
  BY DEF PersistFailed, With
<1>4. Started' /\ OverlapsFailedOnly'
  BY <1>1 DEF LoopInv, Started, OverlapsFailedOnly, Working
<1>5. Latest'
  BY <1>1, <1>2 DEF LoopInv, Latest, Working
<1>6. Alone' /\ Named' /\ CurUsed'
  BY <1>1 DEF Alone, Named, CurUsed, RestoresRecord, Firing
<1>7. mem' \in UsedSnaps'
  BY <1>1, <1>2 DEF LoopInv, UsedSnaps, CurUsed, RestoresRecord
<1> QED BY <1>4, <1>5, <1>6, <1>7 DEF LoopInv

\* The coordinator answers.
LEMMA AskLoop ==
    ASSUME LoopInv, AskIteration \/ AskUnits
    PROVE LoopInv'
<1>1. UNCHANGED <<coord, iter, unit, watch, born, mem>> /\ pc \in Firing /\ pc' \in {"units", "spawn"}
  BY DEF AskIteration, AskUnits, loopVars, timeVars, Firing
<1>2. cur'.task = cur.task /\ cur'.rec = cur.rec
  <2>1. CASE AskIteration
    <3>1. PICK completed : cur' = At(cur.task, "fire", cur.rec, cur.source, completed, NoIter)
      BY <2>1 DEF AskIteration
    <3> QED BY <3>1 DEF At
  <2>2. CASE AskUnits
    BY <2>2 DEF AskUnits
  <2> QED BY <2>1, <2>2
<1>4. Started' /\ OverlapsFailedOnly'
  BY <1>1 DEF LoopInv, Started, OverlapsFailedOnly, Working
<1>5. Latest'
  BY <1>1 DEF LoopInv, Latest, Working
<1>6. Alone'
  <2>1. CASE AskIteration
    BY <2>1 DEF AskIteration, Alone
  <2>2. CASE AskUnits
    BY <1>1, <1>2, <2>2 DEF AskUnits, LoopUnitActive, Alone, Working
  <2> QED BY <2>1, <2>2
<1>7. Named' /\ CurUsed'
  BY <1>1, <1>2 DEF LoopInv, Named, CurUsed, RestoresRecord, Firing
<1>8. mem' \in UsedSnaps'
  BY <1>1 DEF LoopInv, UsedSnaps
<1> QED BY <1>4, <1>5, <1>6, <1>7, <1>8 DEF LoopInv

\* What a change of state does to the iterations.
LEMMA BecomesIs ==
    ASSUME LoopTyped, NEW i \in Iterations, NEW s
    PROVE \A j \in Iterations : /\ Becomes(i, s)[j].state = IF j = i THEN s ELSE iter[j].state
                                /\ Becomes(i, s)[j].task = iter[j].task
                                /\ Becomes(i, s)[j].prompt = iter[j].prompt
                                /\ Becomes(i, s)[j].resumes = iter[j].resumes
BY DEF LoopTyped, Becomes, Iteration

\* What a lost coordinator makes of each iteration.
LEMMA OrphanedIs ==
    \A j \in Iterations : /\ Orphaned[j].state = IF iter[j].state = "new" THEN "new" ELSE "lost"
                          /\ Orphaned[j].task = iter[j].task
                          /\ Orphaned[j].prompt = iter[j].prompt
                          /\ Orphaned[j].resumes = iter[j].resumes
BY DEF Orphaned, Iteration

\* What a spawn and its rollback do to the tasks.
LEMMA AnchorIs ==
    ASSUME TypeInv, RemovalInv, NEW i \in Iterations, Anchor(i)
    PROVE /\ cur.task \in DOMAIN mem /\ DOMAIN mem' = DOMAIN mem
          /\ \A x \in DOMAIN mem : x # cur.task => mem'[x] = mem[x]
          /\ mem'[cur.task].anchor = i /\ mem'[cur.task].prompt = mem[cur.task].prompt
          /\ cur'.task = cur.task /\ cur'.rec = cur.rec /\ cur'.completed = cur.completed /\ cur'.sub = i
          /\ pc = "spawn" /\ pc' = "send" /\ iter[i].state = "new" /\ iter' = Becomes(i, "named")
          /\ UNCHANGED <<coord, unit, watch, born>>
<1>1. cur.task \in DOMAIN mem
  BY DEF Anchor, RemovalInv, InMemory, Firing
<1>2. DOMAIN mem' = DOMAIN mem /\ (\A x \in DOMAIN mem : x # cur.task => mem'[x] = mem[x])
      /\ mem'[cur.task].anchor = i /\ mem'[cur.task].prompt = mem[cur.task].prompt
  BY <1>1 DEF Anchor, With, Task
<1>3. cur'.task = cur.task /\ cur'.rec = cur.rec /\ cur'.completed = cur.completed /\ cur'.sub = i
  BY DEF Anchor, At
<1> QED BY <1>1, <1>2, <1>3 DEF Anchor, timeVars

\* A spawn that cannot be sent gives the task its old anchor back, and changes no other task.
LEMMA RollbackIs ==
    ASSUME TypeInv, RemovalInv, SendFails
    PROVE /\ cur.task \in DOMAIN mem /\ DOMAIN mem' = DOMAIN mem
          /\ \A x \in DOMAIN mem : x # cur.task => mem'[x] = mem[x]
          /\ mem'[cur.task].anchor = cur.rec.anchor /\ mem'[cur.task].prompt = mem[cur.task].prompt
          /\ mem'[cur.task].reset = cur.rec.reset
          /\ pc = "send" /\ pc' = "idle" /\ UNCHANGED <<coord, iter, unit, watch, born>>
<1>1. cur.task \in DOMAIN mem
  BY DEF SendFails, RemovalInv, InMemory, Firing
<1> QED BY <1>1 DEF SendFails, With, RolledBack, Task, loopVars, timeVars

\* Anchoring a new iteration keeps LoopInv: both questions were answered before.
LEMMA AnchorLoop ==
    ASSUME LoopInv, TypeInv, RemovalInv, NEW i \in Iterations, Anchor(i), mem' \in Snapshots
    PROVE LoopInv'
<1>1. LoopTyped
  BY TypeParts DEF TypeInv
<1>2. /\ cur.task \in DOMAIN mem /\ DOMAIN mem' = DOMAIN mem
      /\ \A x \in DOMAIN mem : x # cur.task => mem'[x] = mem[x]
      /\ mem'[cur.task].anchor = i
      /\ cur'.task = cur.task /\ cur'.rec = cur.rec /\ cur'.sub = i
      /\ pc = "spawn" /\ pc' = "send" /\ iter[i].state = "new" /\ iter' = Becomes(i, "named")
      /\ UNCHANGED <<coord, unit, watch, born>>
  BY AnchorIs
<1>3. \A j \in Iterations : /\ iter'[j].state = (IF j = i THEN "named" ELSE iter[j].state)
                            /\ iter'[j].task = iter[j].task
  BY <1>1, <1>2, BecomesIs
<1>4. i \notin unit /\ i \notin watch
  BY <1>2 DEF LoopInv, Started
<1>5. \A j \in Iterations : Working(j)' <=> Working(j)
  BY <1>2, <1>3, <1>4 DEF Working
<1>6. \A j \in Iterations : Working(j) => j # i
  BY <1>2, <1>4 DEF Working
<1>7. Started'
  BY <1>2, <1>3, <1>4, <1>5, <1>6 DEF LoopInv, Started
<1>8. OverlapsFailedOnly'
  BY <1>2, <1>3, <1>5, <1>6 DEF LoopInv, OverlapsFailedOnly
<1>9. Alone'
  BY <1>2, <1>3, <1>5, <1>6 DEF LoopInv, Alone
<1>10. Latest'
  BY <1>2, <1>3, <1>5, <1>6 DEF LoopInv, Latest, Alone
<1>11. Named'
  <2>1. \A x \in DOMAIN mem : mem[x].anchor # i
    BY <1>2, TaskAssumption DEF LoopInv, UsedSnaps
  <2>2. coord # "unwired"
    BY <1>2 DEF LoopInv, Named, Firing
  <2> QED BY <1>2, <1>3, <1>4, <2>1, <2>2 DEF Named
<1>12. CurUsed'
  <2>1. cur.rec.anchor \in Iterations \cup {NoIter}
    BY <1>2, RecordFields DEF TypeInv, CurTyped, RestoresRecord, Firing
  <2>2. cur.rec.anchor # NoIter => iter[cur.rec.anchor].state # "new"
    BY <1>2 DEF LoopInv, CurUsed, RestoresRecord, Firing
  <2> QED BY <1>2, <1>3, <2>1, <2>2 DEF CurUsed
<1>13. mem' \in UsedSnaps'
  <2> SUFFICES ASSUME NEW x \in DOMAIN mem', mem'[x].anchor # NoIter
               PROVE iter'[mem'[x].anchor].state # "new"
    BY DEF UsedSnaps
  <2>1. CASE x = cur.task
    BY <1>2, <1>3, <2>1
  <2>2. CASE x # cur.task
    <3>1. mem[x].anchor \in Iterations /\ iter[mem[x].anchor].state # "new" /\ mem'[x] = mem[x]
      BY <1>2, <2>2, SnapshotIs, RecordFields DEF LoopInv, UsedSnaps
    <3> QED BY <1>2, <1>3, <3>1
  <2> QED BY <2>1, <2>2
<1> QED BY <1>7, <1>8, <1>9, <1>10, <1>11, <1>12, <1>13 DEF LoopInv

\* The iteration is spawned, when nothing but a failed one works for the loop.
LEMMA SpawnIs ==
    ASSUME TypeInv, RemovalInv, SendSpawn
    PROVE /\ cur.sub \in Iterations /\ cur.rec \in Records /\ cur.task \in DOMAIN mem /\ cur.task \in born
          /\ iter'[cur.sub] = Iteration("live", cur.task, cur.rec.prompt,
                                  IF Resumes(cur.rec, cur.completed) THEN cur.rec.anchor ELSE NoIter)
          /\ \A j \in Iterations : j # cur.sub => iter'[j] = iter[j]
          /\ pc = "send" /\ pc' = "idle" /\ coord = "open" /\ UNCHANGED <<mem, coord, unit, watch, born>>
<1>1. cur.task \in DOMAIN mem
  BY DEF SendSpawn, RemovalInv, InMemory, Firing
<1>2. cur.task \in born
  BY <1>1, InMemoryIsKnown
<1>3. cur.sub \in Iterations /\ cur.rec \in Records
  BY DEF SendSpawn, TypeInv, CurTyped, RestoresRecord, Firing
<1>4. DOMAIN iter = Iterations
  BY DEF TypeInv, TypeOK
<1>5. pc = "send" /\ pc' = "idle" /\ coord = "open" /\ UNCHANGED <<mem, coord, unit, watch, born>>
  BY DEF SendSpawn, timeVars
<1>6. PICK r : /\ r = Iteration("live", cur.task, cur.rec.prompt,
                           IF Resumes(cur.rec, cur.completed) THEN cur.rec.anchor ELSE NoIter)
               /\ iter' = [iter EXCEPT ![cur.sub] = r]
  BY DEF SendSpawn
<1>7. iter'[cur.sub] = r /\ (\A j \in Iterations : j # cur.sub => iter'[j] = iter[j])
  BY <1>3, <1>4, <1>6
<1> QED BY <1>1, <1>2, <1>3, <1>5, <1>6, <1>7

\* Sending the spawn keeps LoopInv.
LEMMA SpawnLoop ==
    ASSUME LoopInv, TypeInv, RemovalInv, SendSpawn, mem' \in Snapshots
    PROVE LoopInv'
<1> DEFINE s == cur.sub
<1>1. /\ s \in Iterations /\ cur.task \in DOMAIN mem /\ cur.task \in born
      /\ iter'[s].state = "live" /\ iter'[s].task = cur.task
      /\ \A j \in Iterations : j # s => iter'[j] = iter[j]
      /\ pc = "send" /\ pc' = "idle" /\ UNCHANGED <<mem, coord, unit, watch, born>>
  BY SpawnIs DEF Iteration
<1>2. s \notin watch /\ mem[cur.task].anchor = s
  BY <1>1 DEF LoopInv, Named
<1>3. \A j \in Iterations : iter[j].task = cur.task /\ Working(j) => iter[j].state = "failed"
  BY <1>1 DEF LoopInv, Alone
<1> HIDE DEF s
<1>4. \A j \in Iterations : j # s => (Working(j)' <=> Working(j))
  BY <1>1 DEF Working
<1>5. Started'
  BY <1>1, <1>2, <1>4 DEF LoopInv, Started, Working
<1>6. OverlapsFailedOnly'
  <2> SUFFICES ASSUME NEW i \in Iterations, NEW j \in Iterations, i # j, iter'[i].task = iter'[j].task,
                      iter'[i].state = "live", Working(j)'
               PROVE iter'[j].state = "failed"
    BY DEF OverlapsFailedOnly
  <2>1. CASE i = s
    BY <1>1, <1>3, <1>4, <2>1
  <2>2. CASE j = s
    <3>1. iter[i].state = "live" /\ iter[i].task = cur.task
      BY <1>1, <2>2
    <3> QED BY <1>3, <3>1 DEF Working
  <2>3. CASE i # s /\ j # s
    BY <1>1, <1>4, <2>3 DEF LoopInv, OverlapsFailedOnly
  <2> QED BY <2>1, <2>2, <2>3
<1>7. Latest'
  BY <1>1, <1>2, <1>3, <1>4 DEF LoopInv, Latest
<1>8. Alone' /\ Named' /\ CurUsed'
  BY <1>1 DEF Alone, Named, CurUsed, RestoresRecord, Firing
<1>9. mem' \in UsedSnaps'
  <2>1. \A x \in DOMAIN mem : mem[x].anchor # NoIter =>
            mem[x].anchor \in Iterations /\ iter[mem[x].anchor].state # "new"
    BY SnapshotIs, RecordFields DEF LoopInv, UsedSnaps
  <2> QED BY <1>1, <2>1 DEF UsedSnaps
<1> QED BY <1>5, <1>6, <1>7, <1>8, <1>9 DEF LoopInv

\* Rolling an unsent spawn back keeps LoopInv.
LEMMA RollbackLoop ==
    ASSUME LoopInv, TypeInv, RemovalInv, SendFails, mem' \in Snapshots
    PROVE LoopInv'
<1>1. /\ cur.task \in DOMAIN mem /\ DOMAIN mem' = DOMAIN mem
      /\ \A x \in DOMAIN mem : x # cur.task => mem'[x] = mem[x]
      /\ mem'[cur.task].anchor = cur.rec.anchor
      /\ pc = "send" /\ pc' = "idle" /\ UNCHANGED <<coord, iter, unit, watch, born>>
  BY RollbackIs
<1>2. Started' /\ OverlapsFailedOnly'
  BY <1>1 DEF LoopInv, Started, OverlapsFailedOnly, Working
<1>3. Latest'
  BY <1>1 DEF LoopInv, Latest, Alone, Working
<1>4. Alone' /\ Named' /\ CurUsed'
  BY <1>1 DEF Alone, Named, CurUsed, RestoresRecord, Firing
<1>5. mem' \in UsedSnaps'
  BY <1>1 DEF LoopInv, UsedSnaps, CurUsed, RestoresRecord, Firing
<1> QED BY <1>2, <1>3, <1>4, <1>5 DEF LoopInv

\* The guard clears the anchor of an iteration that is over.
LEMMA GuardIs ==
    ASSUME NEW i, GuardClears(i)
    PROVE /\ DOMAIN mem' = DOMAIN mem /\ i \in watch /\ watch' = watch \ {i}
          /\ \A x \in DOMAIN mem : IF mem[x].anchor = i THEN mem'[x].anchor = NoIter /\ mem'[x].prompt = mem[x].prompt
                                                        ELSE mem'[x] = mem[x]
          /\ UNCHANGED <<coord, iter, unit, born, pc, cur>>
BY DEF GuardClears, Task, timeVars

\* A guard that clears an anchor keeps LoopInv: only a failed iteration is forgotten.
LEMMA GuardLoop ==
    ASSUME LoopInv, TypeInv, NEW i \in Iterations, GuardClears(i), mem' \in Snapshots
    PROVE LoopInv'
<1>1. /\ DOMAIN mem' = DOMAIN mem /\ i \in watch /\ watch' = watch \ {i}
      /\ \A x \in DOMAIN mem : IF mem[x].anchor = i THEN mem'[x].anchor = NoIter ELSE mem'[x] = mem[x]
      /\ UNCHANGED <<coord, iter, unit, born, pc, cur>>
  BY GuardIs
<1>2. Started' /\ OverlapsFailedOnly' /\ Alone' /\ CurUsed'
  BY <1>1 DEF LoopInv, Started, OverlapsFailedOnly, Alone, CurUsed, RestoresRecord, Working
<1>3. Latest'
  <2>1. ~Working(i) \/ iter[i].state = "failed"
    BY <1>1 DEF LoopInv, Started, Working
  <2> QED BY <1>1, <2>1 DEF LoopInv, Latest, Working
<1>4. Named'
  <2>1. pc = "send" => cur.sub # i /\ cur.sub \in Iterations
    BY <1>1 DEF LoopInv, Named, TypeInv, CurTyped
  <2> QED BY <1>1, <2>1, TaskAssumption DEF LoopInv, Named
<1>5. mem' \in UsedSnaps'
  BY <1>1 DEF LoopInv, UsedSnaps
<1> QED BY <1>2, <1>3, <1>4, <1>5 DEF LoopInv

\* An iteration ends; its descendants may still work.
LEMMA EndIs ==
    ASSUME TypeInv, NEW i \in Iterations, IterationEnds(i)
    PROVE \E s \in {"done", "failed"} :
            /\ iter[i].state = "live"
            /\ \A j \in Iterations : /\ iter'[j].state = IF j = i THEN s ELSE iter[j].state
                                     /\ iter'[j].task = iter[j].task /\ iter'[j].prompt = iter[j].prompt
                                     /\ iter'[j].resumes = iter[j].resumes
            /\ watch' = IF s = "failed" THEN watch \cup {i} ELSE watch
            /\ UNCHANGED <<mem, pc, cur, coord, unit, born>>
<1>1. LoopTyped
  BY TypeParts DEF TypeInv
<1>2. iter[i].state = "live" /\ UNCHANGED <<mem, pc, cur, coord, unit, born>>
  BY DEF IterationEnds, actorVars, timeVars
<1>3. PICK s \in {"done", "failed"} : iter' = Becomes(i, s) /\ watch' = IF s = "failed" THEN watch \cup {i} ELSE watch
  BY DEF IterationEnds
<1>4. \A j \in Iterations : /\ iter'[j].state = (IF j = i THEN s ELSE iter[j].state)
                            /\ iter'[j].task = iter[j].task /\ iter'[j].prompt = iter[j].prompt
                            /\ iter'[j].resumes = iter[j].resumes
  BY <1>1, <1>3, BecomesIs
<1> QED BY <1>2, <1>3, <1>4

\* The end of an iteration keeps LoopInv.
LEMMA EndLoop ==
    ASSUME LoopInv, TypeInv, NEW i \in Iterations, IterationEnds(i), mem' \in Snapshots
    PROVE LoopInv'
<1>1. PICK s \in {"done", "failed"} :
        /\ iter[i].state = "live"
        /\ \A j \in Iterations : /\ iter'[j].state = IF j = i THEN s ELSE iter[j].state
                                 /\ iter'[j].task = iter[j].task
        /\ watch' = IF s = "failed" THEN watch \cup {i} ELSE watch
        /\ UNCHANGED <<mem, pc, cur, coord, unit, born>>
  BY EndIs
<1>2. \A j \in Iterations : Working(j)' => Working(j)
  BY <1>1 DEF Working
<1>3. Started'
  BY <1>1, <1>2 DEF LoopInv, Started
<1>4. OverlapsFailedOnly'
  <2> SUFFICES ASSUME NEW k \in Iterations, NEW j \in Iterations, k # j, iter'[k].task = iter'[j].task,
                      iter'[k].state = "live", Working(j)'
               PROVE iter'[j].state = "failed"
    BY DEF OverlapsFailedOnly
  <2>1. iter[j].state = "failed"
    BY <1>1, <1>2 DEF LoopInv, OverlapsFailedOnly
  <2> QED BY <1>1, <2>1
<1>5. Latest'
  BY <1>1, <1>2 DEF LoopInv, Latest
<1>6. Alone'
  BY <1>1, <1>2 DEF LoopInv, Alone
<1>7. Named'
  <2>1. pc = "send" => cur.sub # i /\ cur.sub \in Iterations
    BY <1>1 DEF LoopInv, Named, TypeInv, CurTyped
  <2> QED BY <1>1, <2>1 DEF LoopInv, Named
<1>8. CurUsed'
  <2>1. RestoresRecord => cur.rec.anchor \in Iterations \cup {NoIter}
    BY RecordFields DEF TypeInv, CurTyped
  <2> QED BY <1>1, <2>1 DEF LoopInv, CurUsed, RestoresRecord
<1>9. mem' \in UsedSnaps'
  <2>1. \A x \in DOMAIN mem : mem[x].anchor # NoIter =>
            mem[x].anchor \in Iterations /\ iter[mem[x].anchor].state # "new"
    BY <1>1, SnapshotIs, RecordFields DEF LoopInv, UsedSnaps
  <2> QED BY <1>1, <2>1 DEF UsedSnaps
<1> QED BY <1>3, <1>4, <1>5, <1>6, <1>7, <1>8, <1>9 DEF LoopInv

\* Children that an iteration spawns, and their end, keep LoopInv.
LEMMA DescendLoop ==
    ASSUME LoopInv, NEW i \in Iterations, Descend(i) \/ DescendantsEnd(i)
    PROVE LoopInv'
<1>1. UNCHANGED <<mem, pc, cur, coord, iter, watch, born>> /\ (\A j \in unit' : j \in unit \/ (j = i /\ iter[i].state = "live"))
  BY DEF Descend, DescendantsEnd, actorVars, timeVars
<1>2. \A j \in Iterations : Working(j)' => Working(j)
  BY <1>1 DEF Working
<1>3. Started'
  BY <1>1, <1>2 DEF LoopInv, Started
<1>4. Latest' /\ Alone' /\ OverlapsFailedOnly'
  BY <1>1, <1>2 DEF LoopInv, Latest, Alone, OverlapsFailedOnly
<1>5. Named' /\ CurUsed' /\ mem' \in UsedSnaps'
  BY <1>1 DEF LoopInv, Named, CurUsed, RestoresRecord, UsedSnaps
<1> QED BY <1>3, <1>4, <1>5 DEF LoopInv

\* The coordinator, or the process, ends: nothing works any more.
LEMMA OrphanLoop ==
    ASSUME LoopInv, TypeInv, disk \in UsedSnaps, CloseCoordinator \/ Restart
    PROVE LoopInv'
<1>1. /\ \A j \in Iterations : iter'[j].state = IF iter[j].state = "new" THEN "new" ELSE "lost"
      /\ unit' = {} /\ watch' \subseteq watch /\ born' = born
  BY OrphanedIs DEF CloseCoordinator, Restart, timeVars
<1>2. \/ UNCHANGED <<mem, pc, cur>> /\ coord' = "closed"
      \/ mem' = disk /\ pc' = "idle"
  BY DEF CloseCoordinator, Restart, actorVars
<1>3. \A j \in Iterations : ~Working(j)'
  BY <1>1 DEF Working
<1>4. Started' /\ Latest' /\ Alone' /\ OverlapsFailedOnly'
  BY <1>1, <1>3 DEF LoopInv, Started, Latest, Alone, OverlapsFailedOnly, Working
<1>5. Named'
  <2>1. pc = "send" => cur.sub \in Iterations
    BY DEF TypeInv, CurTyped
  <2> QED BY <1>1, <1>2, <2>1 DEF LoopInv, Named, Firing
<1>6. CurUsed'
  <2>1. RestoresRecord => cur.rec.anchor \in Iterations \cup {NoIter}
    BY RecordFields DEF TypeInv, CurTyped
  <2> QED BY <1>1, <1>2, <2>1 DEF LoopInv, CurUsed, RestoresRecord, Firing
<1>7. mem' \in UsedSnaps'
  <2>1. mem' \in Snapshots
    BY <1>2 DEF TypeInv, TypeOK
  <2>2. mem' \in UsedSnaps
    BY <1>2 DEF LoopInv
  <2>3. \A x \in DOMAIN mem' : mem'[x].anchor # NoIter =>
            mem'[x].anchor \in Iterations /\ iter[mem'[x].anchor].state # "new"
    BY <2>1, <2>2, SnapshotIs, RecordFields DEF UsedSnaps
  <2> QED BY <1>1, <2>1, <2>3 DEF UsedSnaps
<1> QED BY <1>4, <1>5, <1>6, <1>7 DEF LoopInv

\* An id that was used stays used.
LEMMA UsedStays ==
    ASSUME TypeInv, RemovalInv, Moves, NEW i \in Iterations, iter[i].state # "new"
    PROVE iter'[i].state # "new"
<1>1. LoopTyped
  BY TypeParts DEF TypeInv
<1>2. ASSUME NEW t, ExpireDurable(t) \/ FireLoop(t) PROVE iter' = iter
  BY <1>2 DEF ExpireDurable, FireLoop, loopVars
<1>3. CASE Aside \/ Calm \/ PersistFailed \/ AskIteration \/ AskUnits \/ SendFails
  BY <1>3 DEF Aside, Calm, PersistFailed, AskIteration, AskUnits, SendFails, loopVars
<1>4. ASSUME NEW j \in Iterations, Anchor(j) PROVE iter'[i].state # "new"
  BY <1>1, <1>4, BecomesIs DEF Anchor
<1>5. CASE SendSpawn
  BY <1>5, SpawnIs DEF Iteration
<1>6. ASSUME NEW j \in Iterations, GuardClears(j) \/ Descend(j) \/ DescendantsEnd(j) PROVE iter' = iter
  BY <1>6 DEF GuardClears, Descend, DescendantsEnd
<1>7. ASSUME NEW j \in Iterations, IterationEnds(j) PROVE iter'[i].state # "new"
  BY <1>7, EndIs
<1>8. CASE CloseCoordinator \/ Restart
  BY <1>8, OrphanedIs DEF CloseCoordinator, Restart
<1> QED BY <1>2, <1>3, <1>4, <1>5, <1>6, <1>7, <1>8 DEF Moves

\* Every step keeps OverlapInv.
LEMMA OverlapStep ==
    ASSUME OverlapInv, TypeInv, RemovalInv, ClockInv, [Next]_vars
    PROVE OverlapInv'
<1>1. LoopInv /\ disk \in UsedSnaps
  BY DEF OverlapInv, AllSnaps
<1>2. Moves /\ WriterMoves /\ mem' \in Snapshots
  BY MoveCases, WriterStep, MemTyped DEF TypeInv, TypeOK
<1>3. LoopInv'
  BY <1>1, <1>2, AsideLoop, CalmLoop, BeginLoop, UndoLoop, AskLoop, AnchorLoop, SpawnLoop, RollbackLoop,
     GuardLoop, EndLoop, DescendLoop, OrphanLoop DEF Moves
<1>4. PICK G : G = UsedSnaps'
  OBVIOUS
<1>5. UsedSnaps \subseteq G
  <2> SUFFICES ASSUME NEW s \in UsedSnaps, NEW t \in DOMAIN s, s[t].anchor # NoIter
               PROVE iter'[s[t].anchor].state # "new"
    BY <1>4 DEF UsedSnaps
  <2>1. s[t].anchor \in Iterations /\ iter[s[t].anchor].state # "new"
    BY SnapshotIs, RecordFields DEF UsedSnaps
  <2> QED BY <1>2, <2>1, UsedStays
<1>6. AllSnaps(G)
  <2>1. CommandsOf(UsedSnaps) \subseteq CommandsOf(G)
    BY <1>5 DEF CommandsOf
  <2>2. Seq(CommandsOf(UsedSnaps)) \subseteq Seq(CommandsOf(G))
    BY <2>1, SeqMonotonic
  <2> QED BY <1>5, <2>2 DEF OverlapInv, AllSnaps
<1>7. mem' \in G
  BY <1>3, <1>4 DEF LoopInv
<1>8. AllSnaps(G)'
  BY <1>2, <1>6, <1>7, SnapsStep
<1> QED BY <1>3, <1>4, <1>8 DEF OverlapInv, AllSnaps

\* With no iteration running nothing overlaps.
LEMMA InitOverlap ==
    ASSUME Init
    PROVE OverlapInv
<1>1. mem \in Snapshots /\ disk = mem /\ TypeInv
  BY InitTyped DEF TypeInv, TypeOK, Init
<1>2. \A t \in DOMAIN mem : mem[t].anchor = NoIter
  BY DEF Init, NewTask, Task
<1>3. mem \in UsedSnaps
  BY <1>1, <1>2 DEF UsedSnaps
<1>4. Started /\ Latest /\ Alone /\ Named /\ CurUsed /\ OverlapsFailedOnly
  BY DEF Init, Started, Latest, Alone, Named, CurUsed, RestoresRecord, OverlapsFailedOnly, Working, Iteration, Firing
<1>5. AllSnaps(UsedSnaps)
  BY <1>1, <1>3 DEF Init, AllSnaps
<1> QED BY <1>3, <1>4, <1>5 DEF OverlapInv, LoopInv

\* Two iterations of one loop never work at the same time, and neither does an
\* iteration with the descendants of an earlier one, unless the earlier one
\* failed: for any number of loops and iterations, with prompts patched, tasks
\* deleted, expired and restored, and coordinators and processes that end, in
\* between.
THEOREM OverlapsFailedOnlyHolds == Spec => []OverlapsFailedOnly
<1> DEFINE I == ClockInv /\ RemovalInv /\ TypeInv /\ OverlapInv
<1>1. Init => I
  BY InitTyped, InitOverlap
<1>2. I /\ [Next]_vars => I'
  BY ClockStep, RemovalStep, TypeStep, OverlapStep
<1>3. I => OverlapsFailedOnly
  BY DEF OverlapInv, LoopInv
<1> QED BY <1>1, <1>2, <1>3, PTL DEF Spec

-----------------------------------------------------------------------------
(***************************************************************************)
(* An iteration resumes a transcript of its own prompt.                    *)
(***************************************************************************)
\* The iterations keep their prompts and what they resumed, and those that the
\* invariant is about keep their states or are lost.
Undisturbed ==
    \A j \in Iterations :
        /\ iter'[j].prompt = iter[j].prompt /\ iter'[j].resumes = iter[j].resumes
        /\ iter'[j].state \in {"live", "done", "failed"} => iter[j].state \in {"live", "done", "failed"}
        /\ iter[j].state \in {"done", "lost"} => iter'[j].state \in {"done", "lost"}
        /\ iter[j].state \notin {"new", "named"} => iter'[j].state \notin {"new", "named"}

\* The transition, if it goes on, goes on with the record it began with.
SameTransition ==
    /\ RestoresRecord' => RestoresRecord /\ cur'.rec = cur.rec
    /\ pc' \in {"units", "spawn", "send"} /\ cur'.completed => pc \in {"units", "spawn", "send"} /\ cur.completed

\* A step that disturbs neither keeps what the invariant says of them.
LEMMA UndisturbedKeeps ==
    ASSUME ChainInv, TypeInv, Undisturbed
    PROVE /\ \A rec : OwnChain(rec) => OwnChain(rec)'
          /\ SameTransition => (RestoresRecord => OwnChain(cur.rec))' /\ CompletedKept'
          /\ ResumedStarted' /\ ResumesOwnJob'
<1>1. \A j \in Iterations : iter[j].resumes \in Iterations \cup {NoIter}
  BY DEF TypeInv, TypeOK
<1>2. \A rec : OwnChain(rec) => OwnChain(rec)'
  BY DEF Undisturbed, OwnChain
<1>3. RestoresRecord => OwnChain(cur.rec) /\ cur.rec \in Records
  BY DEF ChainInv, OwnChains, TypeInv, CurTyped
<1>4. SameTransition => (RestoresRecord => OwnChain(cur.rec))'
  <2> SUFFICES ASSUME SameTransition, RestoresRecord' PROVE OwnChain(cur.rec)'
    OBVIOUS
  <2>1. PICK r : r = cur.rec /\ cur'.rec = r
    BY DEF SameTransition
  <2>2. OwnChain(r)'
    BY <1>2, <1>3, <2>1 DEF SameTransition
  <2> QED BY <2>1, <2>2 DEF OwnChain
<1>5. SameTransition => CompletedKept'
  <2> SUFFICES ASSUME SameTransition, pc' \in {"units", "spawn", "send"}, cur'.completed
               PROVE /\ cur'.rec.anchor \in Iterations /\ iter'[cur'.rec.anchor].state \in {"done", "lost"}
                     /\ ~cur'.rec.reset => iter'[cur'.rec.anchor].prompt = cur'.rec.prompt
    BY DEF CompletedKept
  <2>1. cur'.rec = cur.rec
    BY DEF SameTransition, RestoresRecord, Firing
  <2>2. /\ cur.rec.anchor \in Iterations /\ iter[cur.rec.anchor].state \in {"done", "lost"}
        /\ ~cur.rec.reset => iter[cur.rec.anchor].prompt = cur.rec.prompt
    BY DEF SameTransition, ChainInv, CompletedKept
  <2> QED BY <2>1, <2>2 DEF Undisturbed
<1>6. ResumedStarted' /\ ResumesOwnJob'
  BY <1>1 DEF ChainInv, Undisturbed, ResumedStarted, ResumesOwnJob
<1> QED BY <1>2, <1>4, <1>5, <1>6

\* No step but the spawn itself changes what a spawned iteration resumes.
LEMMA UndisturbedMoves ==
    ASSUME TypeInv, RemovalInv, Moves, ~SendSpawn
    PROVE Undisturbed
<1>1. LoopTyped
  BY TypeParts DEF TypeInv
<1>2. CASE iter' = iter
  BY <1>2 DEF Undisturbed
<1>3. CASE Aside \/ Calm \/ PersistFailed \/ AskIteration \/ AskUnits \/ SendFails
  BY <1>2, <1>3 DEF Aside, Calm, PersistFailed, AskIteration, AskUnits, SendFails, loopVars
<1>4. ASSUME NEW t, ExpireDurable(t) \/ FireLoop(t) PROVE Undisturbed
  BY <1>2, <1>4 DEF ExpireDurable, FireLoop, loopVars
<1>5. ASSUME NEW i \in Iterations, GuardClears(i) \/ Descend(i) \/ DescendantsEnd(i) PROVE Undisturbed
  BY <1>2, <1>5 DEF GuardClears, Descend, DescendantsEnd
<1>6. ASSUME NEW i \in Iterations, Anchor(i) PROVE Undisturbed
  BY <1>1, <1>6, BecomesIs DEF Anchor, Undisturbed
<1>7. ASSUME NEW i \in Iterations, IterationEnds(i) PROVE Undisturbed
  BY <1>7, EndIs DEF Undisturbed
<1>8. CASE CloseCoordinator \/ Restart
  BY <1>8, OrphanedIs DEF CloseCoordinator, Restart, Undisturbed
<1> QED BY <1>3, <1>4, <1>5, <1>6, <1>7, <1>8 DEF Moves

\* The chains of the records in memory, and the prompt of the loop that is fired.
MemChains == (\A t \in DOMAIN mem : OwnChain(mem[t])) /\ SamePrompt

\* The record of a task in memory is one whose chain is its own, or has none.
LEMMA MemChainsKept ==
    ASSUME ChainInv, TypeInv, Undisturbed,
           \A t \in DOMAIN mem' :
              \/ t \in DOMAIN mem /\ mem'[t] = mem[t]
              \/ mem'[t].anchor \notin Iterations \/ mem'[t].reset
              \/ iter'[mem'[t].anchor].state \notin {"live", "done", "failed"}
              \/ /\ RestoresRecord /\ mem'[t].anchor = cur.rec.anchor /\ mem'[t].reset = cur.rec.reset
                 /\ mem'[t].prompt = cur.rec.prompt
    PROVE (\A t \in DOMAIN mem : OwnChain(mem[t]))'
<1> SUFFICES ASSUME NEW t \in DOMAIN mem', ~mem'[t].reset, mem'[t].anchor \in Iterations,
                    iter'[mem'[t].anchor].state \in {"live", "done", "failed"}
             PROVE iter'[mem'[t].anchor].prompt = mem'[t].prompt
  BY DEF OwnChain
<1>1. CASE t \in DOMAIN mem /\ mem'[t] = mem[t]
  BY <1>1 DEF ChainInv, OwnChains, OwnChain, Undisturbed
<1>2. CASE /\ RestoresRecord /\ mem'[t].anchor = cur.rec.anchor /\ mem'[t].reset = cur.rec.reset
           /\ mem'[t].prompt = cur.rec.prompt
  BY <1>2 DEF ChainInv, OwnChains, OwnChain, Undisturbed
<1> QED BY <1>1, <1>2

\* ChainInv is kept when the transition under way is and the tasks in memory are chained.
LEMMA ChainParts ==
    ASSUME ChainInv, TypeInv, Undisturbed, SameTransition, MemChains'
    PROVE ChainInv'
<1>1. (RestoresRecord => OwnChain(cur.rec))' /\ CompletedKept' /\ ResumedStarted' /\ ResumesOwnJob'
  BY UndisturbedKeeps
<1> QED BY <1>1 DEF MemChains, ChainInv, OwnChains

\* The transition goes on or ends.
LEMMA SteadyChain ==
    ASSUME ChainInv, TypeInv, RemovalInv, Undisturbed, NEW i,
           \/ Aside \/ Calm \/ PersistFailed \/ AskUnits \/ SendFails
           \/ (i \in Iterations /\ Anchor(i)) \/ GuardClears(i) \/ IterationEnds(i) \/ Descend(i) \/ DescendantsEnd(i)
           \/ CloseCoordinator \/ Restart
    PROVE ChainInv'
<1>1. CASE Aside \/ IterationEnds(i) \/ Descend(i) \/ DescendantsEnd(i) \/ CloseCoordinator \/ AskUnits
  <2>1. UNCHANGED <<mem, cur>> /\ (pc' = pc \/ (pc = "units" /\ pc' = "spawn"))
    BY <1>1 DEF Aside, IterationEnds, Descend, DescendantsEnd, CloseCoordinator, AskUnits, actorVars
  <2>2. SameTransition
    BY <2>1 DEF SameTransition, RestoresRecord, Firing
  <2>3. MemChains'
    <3>1. (\A t \in DOMAIN mem : OwnChain(mem[t]))'
      BY <2>1, MemChainsKept
    <3> QED BY <2>1, <3>1 DEF MemChains, ChainInv, SamePrompt, Firing
  <2> QED BY <2>2, <2>3, ChainParts
<1>2. CASE Calm
  <2>1. SameTransition
    BY <1>2 DEF Calm, SameTransition, RestoresRecord, Firing
  <2>2. (\A t \in DOMAIN mem : OwnChain(mem[t]))'
    BY <1>2, MemChainsKept, TaskAssumption DEF Calm
  <2> QED BY <1>2, <2>1, <2>2, ChainParts DEF Calm, MemChains, SamePrompt, RestoresRecord
<1>3. CASE PersistFailed
  <2>1. pc' = "idle" /\ pc = "persist"
    BY <1>3 DEF PersistFailed
  <2>2. \A x \in DOMAIN mem' : \/ x \in DOMAIN mem /\ mem'[x] = mem[x]
                               \/ cur.why = "expire" /\ mem'[x] = cur.rec
    BY <1>3 DEF PersistFailed, With
  <2>3. (\A t \in DOMAIN mem : OwnChain(mem[t]))'
    BY <2>1, <2>2, MemChainsKept DEF RestoresRecord
  <2>4. SameTransition
    BY <2>1 DEF SameTransition, RestoresRecord, Firing
  <2> QED BY <2>1, <2>3, <2>4, ChainParts DEF MemChains, SamePrompt, Firing
<1>4. CASE SendFails
  <2>1. /\ cur.task \in DOMAIN mem /\ DOMAIN mem' = DOMAIN mem
        /\ \A x \in DOMAIN mem : x # cur.task => mem'[x] = mem[x]
        /\ mem'[cur.task].anchor = cur.rec.anchor /\ mem'[cur.task].prompt = mem[cur.task].prompt
        /\ mem'[cur.task].reset = cur.rec.reset
        /\ pc = "send" /\ pc' = "idle"
    BY <1>4, RollbackIs
  <2>2. mem'[cur.task].prompt = cur.rec.prompt /\ RestoresRecord
    BY <2>1 DEF ChainInv, SamePrompt, Firing, RestoresRecord
  <2>3. (\A t \in DOMAIN mem : OwnChain(mem[t]))'
    BY <2>1, <2>2, MemChainsKept
  <2>4. SameTransition
    BY <2>1 DEF SameTransition, RestoresRecord, Firing
  <2> QED BY <2>1, <2>3, <2>4, ChainParts DEF MemChains, SamePrompt, Firing
<1>5. CASE i \in Iterations /\ Anchor(i)
  <2>1. /\ cur.task \in DOMAIN mem /\ DOMAIN mem' = DOMAIN mem
        /\ \A x \in DOMAIN mem : x # cur.task => mem'[x] = mem[x]
        /\ mem'[cur.task].anchor = i /\ mem'[cur.task].prompt = mem[cur.task].prompt
        /\ cur'.task = cur.task /\ cur'.rec = cur.rec /\ cur'.completed = cur.completed
        /\ pc = "spawn" /\ pc' = "send" /\ iter' = Becomes(i, "named")
    BY <1>5, AnchorIs
  <2>2. iter'[i].state = "named"
    BY <1>5, <2>1, TypeParts, BecomesIs DEF TypeInv
  <2>3. (\A t \in DOMAIN mem : OwnChain(mem[t]))'
    BY <2>1, <2>2, MemChainsKept
  <2>4. SameTransition
    BY <2>1 DEF SameTransition, RestoresRecord, Firing
  <2> QED BY <2>1, <2>3, <2>4, ChainParts DEF MemChains, ChainInv, SamePrompt, Firing
<1>6. CASE GuardClears(i)
  <2>1. /\ DOMAIN mem' = DOMAIN mem
        /\ \A x \in DOMAIN mem : IF mem[x].anchor = i THEN mem'[x].anchor = NoIter /\ mem'[x].prompt = mem[x].prompt
                                                      ELSE mem'[x] = mem[x]
        /\ UNCHANGED <<pc, cur>>
    BY <1>6, GuardIs
  <2>2. (\A t \in DOMAIN mem : OwnChain(mem[t]))'
    BY <2>1, MemChainsKept, TaskAssumption
  <2>3. SameTransition
    BY <2>1 DEF SameTransition, RestoresRecord
  <2>4. SamePrompt'
    BY <2>1 DEF ChainInv, SamePrompt, RemovalInv, InMemory
  <2> QED BY <2>2, <2>3, <2>4, ChainParts DEF MemChains
<1>7. CASE Restart
  <2>1. \A j \in Iterations : iter'[j].state \in {"new", "lost"}
    BY <1>7, OrphanedIs DEF Restart
  <2>2. pc' = "idle"
    BY <1>7 DEF Restart
  <2>3. (\A t \in DOMAIN mem : OwnChain(mem[t]))'
    BY <2>1, MemChainsKept
  <2>4. SameTransition
    BY <2>2 DEF SameTransition, RestoresRecord, Firing
  <2> QED BY <2>2, <2>3, <2>4, ChainParts DEF MemChains, SamePrompt, Firing
<1> QED BY <1>1, <1>2, <1>3, <1>4, <1>5, <1>6, <1>7

\* A transition begins, or learns whether the last iteration completed.
LEMMA BeginChain ==
    ASSUME ChainInv, TypeInv, Undisturbed, NEW t, ExpireDurable(t) \/ FireLoop(t)
    PROVE ChainInv'
<1>1. t \in DOMAIN mem /\ cur'.rec = mem[t] /\ cur'.task = t /\ ~cur'.completed
  BY DEF ExpireDurable, FireLoop, Selectable, At
<1>2. \A x \in DOMAIN mem' : x \in DOMAIN mem /\ mem'[x] = mem[x]
  BY DEF ExpireDurable, FireLoop, Without
<1>3. (\A x \in DOMAIN mem : OwnChain(mem[x]))'
  BY <1>2, MemChainsKept
<1>4. SamePrompt'
  BY <1>1 DEF ExpireDurable, FireLoop, SamePrompt, Firing
<1>5. OwnChain(cur.rec)'
  BY <1>1 DEF ChainInv, OwnChains, OwnChain, Undisturbed
<1>6. CompletedKept'
  BY <1>1 DEF CompletedKept
<1>7. ResumedStarted' /\ ResumesOwnJob'
  BY UndisturbedKeeps
<1> QED BY <1>3, <1>4, <1>5, <1>6, <1>7 DEF ChainInv, OwnChains

\* The answer to the first question keeps ChainInv.
LEMMA AskChain ==
    ASSUME ChainInv, TypeInv, Undisturbed, AskIteration
    PROVE ChainInv'
<1>1. pc = "query" /\ pc' = "units" /\ UNCHANGED <<mem, iter>>
  BY DEF AskIteration, loopVars
<1>2. PICK completed \in {FALSE, iter[cur.rec.anchor].state = "done"} :
        cur' = At(cur.task, "fire", cur.rec, cur.source, completed, NoIter)
  BY DEF AskIteration
<1>3. cur'.task = cur.task /\ cur'.rec = cur.rec /\ cur'.completed = completed
  BY <1>2 DEF At
<1>4. cur.rec.anchor \in Iterations /\ OwnChain(cur.rec)
  BY <1>1 DEF TypeInv, CurTyped, ChainInv, OwnChains, RestoresRecord, Firing
<1>5. CompletedKept'
  <2> SUFFICES ASSUME completed
               PROVE /\ iter[cur.rec.anchor].state \in {"done", "lost"}
                     /\ ~cur.rec.reset => iter[cur.rec.anchor].prompt = cur.rec.prompt
    BY <1>1, <1>3, <1>4 DEF CompletedKept
  <2>1. iter[cur.rec.anchor].state = "done"
    BY <1>2
  <2> QED BY <1>4, <2>1 DEF OwnChain
<1>6. (\A x \in DOMAIN mem : OwnChain(mem[x]))'
  BY <1>1, MemChainsKept
<1>7. SamePrompt'
  BY <1>1, <1>3 DEF ChainInv, SamePrompt, Firing
<1>8. OwnChain(cur.rec)'
  BY <1>1, <1>3, <1>4 DEF OwnChain
<1>9. ResumedStarted' /\ ResumesOwnJob'
  BY UndisturbedKeeps
<1> QED BY <1>5, <1>6, <1>7, <1>8, <1>9 DEF ChainInv, OwnChains

\* The iteration that is spawned resumes the transcript of the record's anchor
\* only if that one is known to have completed the same prompt.
LEMMA SpawnChain ==
    ASSUME ChainInv, LoopInv, TypeInv, RemovalInv, SendSpawn
    PROVE ChainInv'
<1> DEFINE s == cur.sub
           a == cur.rec.anchor
<1>1. /\ s \in Iterations /\ cur.rec \in Records /\ cur.task \in DOMAIN mem
      /\ iter'[s].state = "live" /\ iter'[s].prompt = cur.rec.prompt
      /\ iter'[s].resumes = (IF Resumes(cur.rec, cur.completed) THEN a ELSE NoIter)
      /\ \A j \in Iterations : j # s => iter'[j] = iter[j]
      /\ pc = "send" /\ pc' = "idle" /\ coord = "open" /\ UNCHANGED mem
  BY SpawnIs DEF Iteration
<1>2. iter[s].state = "named" /\ (\A t \in DOMAIN mem : mem[t].anchor = s <=> t = cur.task)
  BY <1>1 DEF LoopInv, Named
<1>3. mem[cur.task].prompt = cur.rec.prompt
  BY <1>1 DEF ChainInv, SamePrompt, Firing
<1>4. Resumes(cur.rec, cur.completed) =>
        a \in Iterations /\ iter[a].state \in {"done", "lost"} /\ iter[a].prompt = cur.rec.prompt
  BY <1>1 DEF ChainInv, CompletedKept, Resumes
<1>5. \A j \in Iterations : iter[j].resumes \in Iterations \cup {NoIter} /\ iter[j].resumes # s
  BY <1>1, <1>2, TaskAssumption DEF ChainInv, ResumedStarted, TypeInv, TypeOK
<1> HIDE DEF s, a
<1>6. (\A t \in DOMAIN mem : OwnChain(mem[t]))'
  BY <1>1, <1>2, <1>3 DEF ChainInv, OwnChains, OwnChain
<1>7. (~RestoresRecord)' /\ SamePrompt' /\ CompletedKept'
  BY <1>1 DEF RestoresRecord, SamePrompt, CompletedKept, Firing
<1>8. ResumedStarted'
  BY <1>1, <1>2, <1>4, <1>5 DEF ChainInv, ResumedStarted
<1>9. ResumesOwnJob'
  BY <1>1, <1>2, <1>4, <1>5 DEF ChainInv, ResumesOwnJob
<1> QED BY <1>6, <1>7, <1>8, <1>9 DEF ChainInv, OwnChains

\* Every step keeps ChainInv.
LEMMA ChainStep ==
    ASSUME ChainInv, OverlapInv, TypeInv, RemovalInv, ClockInv, [Next]_vars
    PROVE ChainInv'
<1>1. Moves /\ LoopInv
  BY MoveCases DEF TypeInv, TypeOK, OverlapInv
<1>2. CASE SendSpawn
  BY <1>1, <1>2, SpawnChain
<1>3. CASE ~SendSpawn
  <2>1. Undisturbed
    BY <1>1, <1>3, UndisturbedMoves
  <2>2. CASE \E t \in Tasks : ExpireDurable(t) \/ FireLoop(t)
    BY <2>1, <2>2, BeginChain
  <2>3. CASE AskIteration
    BY <2>1, <2>3, AskChain
  <2>4. CASE \/ Aside \/ Calm \/ PersistFailed \/ AskUnits \/ SendFails \/ CloseCoordinator \/ Restart
             \/ \E i \in Iterations : \/ Anchor(i) \/ GuardClears(i) \/ IterationEnds(i) \/ Descend(i)
                                      \/ DescendantsEnd(i)
    BY <2>1, <2>4, SteadyChain
  <2> QED BY <1>1, <1>3, <2>2, <2>3, <2>4 DEF Moves
<1> QED BY <1>2, <1>3

\* An iteration that resumes a transcript resumes one of its own prompt, however
\* often the prompt of the loop was patched and patched back, with spawns that
\* fail and are rolled back, completions that are seen late, and processes that
\* end in between.
THEOREM ResumesOwnJobHolds == Spec => []ResumesOwnJob
<1> DEFINE I == ClockInv /\ RemovalInv /\ TypeInv /\ OverlapInv /\ ChainInv
<1>1. Init => I
  <2>1. Init => ChainInv
    BY DEF Init, ChainInv, OwnChains, OwnChain, SamePrompt, CompletedKept, ResumedStarted, ResumesOwnJob,
           RestoresRecord, Firing, Iteration
  <2> QED BY <2>1, InitTyped, InitOverlap
<1>2. I /\ [Next]_vars => I'
  BY ClockStep, RemovalStep, TypeStep, OverlapStep, ChainStep
<1>3. I => ResumesOwnJob
  BY DEF ChainInv
<1> QED BY <1>1, <1>2, <1>3, PTL DEF Spec
=============================================================================

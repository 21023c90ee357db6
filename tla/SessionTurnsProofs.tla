------------------------- MODULE SessionTurnsProofs -------------------------
(***************************************************************************)
(* What ties the state of a session to the turn that runs, proved for any  *)
(* rows, any features and cancels, and any number of slots: the claim on   *)
(* the turn's report, the slots of its messages, and its pin.              *)
(***************************************************************************)
EXTENDS SessionTurns, TLAPS

(***************************************************************************)
(* The shape of the records.  Rows are not typed: nothing here depends on  *)
(* what is queued.                                                         *)
(***************************************************************************)
IsTurn(t) == t = Turn(t.prompt, t.epoch) /\ t.epoch \in Nat

IsOp(o) ==
    /\ o = [kind |-> o.kind, stop |-> o.stop, lease |-> o.lease, torn |-> o.torn,
            rows |-> o.rows, msgs |-> o.msgs, result |-> o.result]
    /\ IsTurn(o.lease) /\ IsTurn(o.torn)

Shapes ==
    /\ IsTurn(running)
    /\ report \in [epoch : Nat, state : {"free", "gate", "reported"}]
    /\ task = [pc |-> task.pc, batch |-> task.batch]
    /\ IsOp(op)
    /\ \A s \in slots : s = [id |-> s.id, binding |-> s.binding, phase |-> s.phase, at |-> s.at]

\* A turn that runs has the epoch of the report slot, which is never 0.
EpochOfRunning == running # NoTurn => running.epoch = report.epoch /\ report.epoch # 0

\* A task belongs to a turn, and only a task at the stop gate holds the claim.
TaskOfRunning ==
    /\ task.pc # "none" => running # NoTurn
    /\ report.state = "gate" => task.pc = "gate"

\* The completions in the channel are of turns up to the present one, and the
\* task of a turn whose completion is there is over.
Sent ==
    /\ \E S : completions \in Seq(S)
    /\ \A i \in 1..Len(completions) :
         /\ completions[i].epoch \in Nat
         /\ completions[i].epoch <= report.epoch
         /\ completions[i].epoch = report.epoch /\ running # NoTurn => task.pc = "none"

\* Between the step that takes the turn apart and the one that finishes its
\* lease, nothing of the turn is left and no other can start.
Quiet == gate /\ task.pc = "none" /\ slots = {}
Closing == (pc = "settle" /\ Leased => Quiet) /\ (pc = "complete" => Quiet)

SlotsOfRunning == SlotsBoundToRunning /\ (running = NoTurn => slots = {})

\* The turn a cancel tore down has no task; a newer one has a newer epoch.
TornIsOver ==
    pc = "settle" /\ op.torn # NoTurn =>
        /\ op.torn.epoch <= report.epoch
        /\ report.epoch = op.torn.epoch => task.pc = "none"

TurnInv ==
    /\ Shapes /\ EpochOfRunning /\ TaskOfRunning /\ Sent /\ Closing
    /\ SlotsOfRunning /\ TornIsOver /\ StoppedTurnReported

-----------------------------------------------------------------------------
(***************************************************************************)
(* The kinds of steps.                                                     *)
(***************************************************************************)
\* The loop goes on to a place where no turn has been taken apart yet.
LoopGoesOn == UNCHANGED loopVars \/ (pc' \notin {"settle", "complete"} /\ IsOp(op'))

\* Nothing of the turn changes.
Aside == UNCHANGED <<running, report, task, slots, completions>> /\ (gate => gate') /\ LoopGoesOn

\* A turn starts.
Starts ==
    /\ running = NoTurn /\ ~gate
    /\ running' = Turn(running'.prompt, report.epoch + 1)
    /\ report' = [epoch |-> report.epoch + 1, state |-> "free"]
    /\ task' = [pc |-> "prepare", batch |-> task'.batch]
    /\ UNCHANGED <<slots, completions, gate>>
    /\ LoopGoesOn

\* The task of the turn moves on; it may take the claim on the report or give
\* it up, and move the turn's slots to their next phase.
Moves ==
    /\ task.pc # "none" /\ task'.pc # "none"
    /\ task' = [pc |-> task'.pc, batch |-> task'.batch]
    /\ report' \in [epoch : {report.epoch}, state : {"free", "gate", "reported"}]
    /\ report'.state = "gate" => task'.pc = "gate"
    /\ \A s \in slots' :
         /\ s = [id |-> s.id, binding |-> s.binding, phase |-> s.phase, at |-> s.at]
         /\ \E t \in slots : s.binding = t.binding
    /\ UNCHANGED <<running, completions, gate, loopVars>>

\* The task of the turn is aborted and its claim released; the turn stays.
Aborts ==
    /\ running # NoTurn
    /\ task' = NoTask
    /\ report' = ReleaseAborted(running.epoch)
    /\ gate'
    /\ pc' \notin {"settle", "complete"} /\ IsOp(op')
    /\ UNCHANGED <<running, slots, completions>>

\* A step beside the turn disturbs nothing.
LEMMA AsideKeeps ==
    ASSUME TurnInv, Aside
    PROVE TurnInv'
<1> USE DEF TurnInv, Aside, LoopGoesOn
<1>1. Shapes' /\ EpochOfRunning' /\ TaskOfRunning' /\ SlotsOfRunning'
  BY DEF Shapes, EpochOfRunning, TaskOfRunning, SlotsOfRunning, SlotsBoundToRunning, loopVars,
         IsOp, IsTurn, Turn, NoTurn
<1>2. Sent'
  BY DEF Sent
<1>3. Closing' /\ TornIsOver'
  BY DEF Closing, TornIsOver, Quiet, Leased, loopVars
<1>4. StoppedTurnReported'
  BY DEF StoppedTurnReported, CancelReason, loopVars
<1> QED BY <1>1, <1>2, <1>3, <1>4

\* A new turn has a new epoch, which no completion on its way carries.
LEMMA StartsKeeps ==
    ASSUME TurnInv, Starts
    PROVE TurnInv'
<1> USE DEF TurnInv, Starts, LoopGoesOn
<1>1. running'.epoch = report.epoch + 1 /\ running'.epoch # 0 /\ running' # NoTurn /\ report.epoch \in Nat
  BY DEF Turn, NoTurn, Shapes
<1>2. Shapes'
  BY <1>1 DEF Shapes, loopVars, IsOp, IsTurn, Turn
<1>3. EpochOfRunning' /\ TaskOfRunning'
  BY <1>1 DEF EpochOfRunning, TaskOfRunning
<1>4. slots = {}
  BY DEF SlotsOfRunning
<1>5. SlotsOfRunning'
  BY <1>1, <1>4 DEF SlotsOfRunning, SlotsBoundToRunning
<1>6. Sent'
  BY <1>1 DEF Sent
<1>7. Closing'
  BY DEF Closing, Quiet, Leased, loopVars
<1>8. TornIsOver' /\ StoppedTurnReported'
  BY <1>1 DEF TornIsOver, StoppedTurnReported, CancelReason, loopVars, Shapes, IsOp, IsTurn
<1> QED BY <1>2, <1>3, <1>5, <1>6, <1>7, <1>8

\* A step of the task: it lives, so nobody has torn its turn down.
LEMMA MovesKeeps ==
    ASSUME TurnInv, Moves
    PROVE TurnInv'
<1> USE DEF TurnInv, Moves
<1>1. running # NoTurn
  BY DEF TaskOfRunning
<1>2. Shapes' /\ EpochOfRunning' /\ TaskOfRunning'
  BY <1>1 DEF Shapes, EpochOfRunning, TaskOfRunning, loopVars, IsOp, IsTurn, Turn, NoTurn
<1>3. SlotsOfRunning'
  BY <1>1 DEF SlotsOfRunning, SlotsBoundToRunning
<1>4. Sent'
  BY <1>1 DEF Sent
<1>5. Closing' /\ TornIsOver' /\ StoppedTurnReported'
  BY DEF Closing, Quiet, Leased, TornIsOver, StoppedTurnReported, CancelReason, loopVars
<1> QED BY <1>2, <1>3, <1>4, <1>5

\* The abort frees a claim of the gate together with the task.
LEMMA AbortsKeeps ==
    ASSUME TurnInv, Aborts
    PROVE TurnInv'
<1> USE DEF TurnInv, Aborts
<1>1. report' \in [epoch : {report.epoch}, state : {"free", "reported"}]
  BY DEF ReleaseAborted, Shapes, EpochOfRunning
<1>2. Shapes' /\ EpochOfRunning' /\ TaskOfRunning'
  BY <1>1 DEF Shapes, EpochOfRunning, TaskOfRunning, NoTask, IsTurn
<1>3. SlotsOfRunning'
  BY DEF SlotsOfRunning, SlotsBoundToRunning
<1>4. Sent'
  BY <1>1 DEF Sent, NoTask
<1>5. Closing' /\ TornIsOver' /\ StoppedTurnReported'
  BY DEF Closing, TornIsOver, StoppedTurnReported
<1> QED BY <1>2, <1>3, <1>4, <1>5

\* Messages come or go, and a completion may be taken from the channel.
Sorts ==
    /\ \A s \in slots' :
         /\ s = [id |-> s.id, binding |-> s.binding, phase |-> s.phase, at |-> s.at]
         /\ s.binding = running /\ running # NoTurn
    /\ (completions # <<>> /\ completions' = Tail(completions)) \/ UNCHANGED completions
    /\ UNCHANGED <<running, report, task, gate>>
    /\ (pc' \notin {"settle", "complete"}) /\ IsOp(op')

\* What is in the channel after its first completion was taken.
LEMMA TailKeeps ==
    ASSUME TurnInv, completions # <<>>
    PROVE /\ \E S : Tail(completions) \in Seq(S)
          /\ Len(Tail(completions)) \in Nat
          /\ \A i \in 1..Len(Tail(completions)) :
               i + 1 \in 1..Len(completions) /\ Tail(completions)[i] = completions[i + 1]
<1>1. PICK S : completions \in Seq(S)
  BY DEF TurnInv, Sent
<1> QED BY <1>1

\* Slots of the running turn come, or all go.
LEMMA SortsKeeps ==
    ASSUME TurnInv, Sorts
    PROVE TurnInv'
<1> USE DEF TurnInv, Sorts
<1>1. Shapes' /\ EpochOfRunning' /\ TaskOfRunning' /\ SlotsOfRunning'
  BY DEF Shapes, EpochOfRunning, TaskOfRunning, SlotsOfRunning, SlotsBoundToRunning, IsTurn, Turn, NoTurn
<1>2. Sent'
  <2>1. CASE UNCHANGED completions
    BY <2>1 DEF Sent
  <2>2. CASE completions # <<>> /\ completions' = Tail(completions)
    BY <2>2, TailKeeps DEF Sent
  <2> QED BY <2>1, <2>2
<1>3. Closing' /\ TornIsOver' /\ StoppedTurnReported'
  BY DEF Closing, TornIsOver, StoppedTurnReported
<1> QED BY <1>1, <1>2, <1>3

\* The shape of the loop's operations.
LEMMA NoOpShape == IsOp(NoOp)
  BY DEF IsOp, NoOp, Begun, IsTurn, NoTurn, Turn

\* A handler begins with what it was asked to do.
LEMMA BegunShape ==
    ASSUME NEW kind, NEW stop, NEW lease, NEW rows, IsTurn(lease)
    PROVE IsOp(Begun(kind, stop, lease, rows))
<1>1. IsTurn(NoTurn)
  BY DEF IsTurn, NoTurn, Turn
<1> QED BY <1>1 DEF IsOp, Begun

-----------------------------------------------------------------------------
(***************************************************************************)
(* The steps that end a turn.                                              *)
(***************************************************************************)
\* The completion of a turn is sent by its task, which is over then.
LEMMA SendCompletionKeeps ==
    ASSUME TurnInv, SendCompletion
    PROVE TurnInv'
<1> USE DEF TurnInv, SendCompletion, TaskStep, loopVars
<1> DEFINE c == [prompt |-> running.prompt, epoch |-> running.epoch, result |-> task.pc]
<1>1. running # NoTurn /\ report.state # "gate"
  BY DEF TaskOfRunning
<1>2. Shapes' /\ EpochOfRunning' /\ TaskOfRunning'
  BY <1>1 DEF Shapes, EpochOfRunning, TaskOfRunning, NoTask, IsOp, IsTurn, Turn, NoTurn, deliveryVars
<1>3. SlotsOfRunning'
  BY DEF SlotsOfRunning, SlotsBoundToRunning, deliveryVars
<1>4. Sent'
  <2>1. PICK S : completions \in Seq(S)
    BY DEF Sent
  <2>2. completions \in Seq(S \cup {c}) /\ c \in S \cup {c}
    BY <2>1
  <2>3. completions' \in Seq(S \cup {c}) /\ completions' = Append(completions, c)
    BY <2>2
  <2>4. c.epoch = report.epoch /\ c.epoch \in Nat /\ task'.pc = "none" /\ report' = report
    BY <1>1 DEF EpochOfRunning, Shapes, IsTurn, NoTask
  <2>5. \A i \in 1..Len(completions') : completions'[i] = c \/ (i \in 1..Len(completions) /\ completions'[i] = completions[i])
    BY <2>2, <2>3
  <2>6. report.epoch <= report.epoch
    BY DEF Shapes
  <2> HIDE DEF c
  <2> QED BY <2>3, <2>4, <2>5, <2>6 DEF Sent
<1>5. Closing' /\ TornIsOver' /\ StoppedTurnReported'
  BY DEF Closing, Quiet, Leased, TornIsOver, StoppedTurnReported, CancelReason, NoTask, deliveryVars
<1> QED BY <1>2, <1>3, <1>4, <1>5

\* Every slot is bound to the running turn, so none is left when it ends.
LEMMA RemainingNone ==
    ASSUME NEW target, SlotsBoundToRunning, running \in target
    PROVE Remaining(slots, target) = {}
  BY DEF Remaining, Ended, SlotsBoundToRunning

\* Nor is one left when every binding ends.
LEMMA RemainingAllEnd ==
    ASSUME NEW S
    PROVE Remaining(S, AllBindings(S)) = {}
  BY DEF Remaining, Ended, AllBindings

\* A report that nobody at the gate has claimed is filed or left alone.
LEMMA ReportedShape ==
    ASSUME NEW slot \in [epoch : Nat, state : {"free", "reported"}], NEW epoch, NEW interrupt
    PROVE Reported(slot, epoch, interrupt) \in [epoch : {slot.epoch}, state : {"free", "reported"}]
  BY DEF Reported

\* A completion that owns the turn takes it apart.
LEMMA CompleteKeeps ==
    ASSUME TurnInv, Complete
    PROVE TurnInv'
<1> USE DEF TurnInv
<1> DEFINE c == Head(completions)
<1>1. /\ completions # <<>> /\ completions' = Tail(completions)
      /\ ~gate /\ gate' /\ running = Turn(c.prompt, c.epoch) /\ running # NoTurn
      /\ report' = report \/ report' = Reported(report, report.epoch, FALSE)
      /\ slots' = Remaining(slots, {Turn(c.prompt, c.epoch)})
      /\ op' = Begun("completion", FALSE, running, {})
      /\ pc' = "complete"
      /\ UNCHANGED <<running, task>>
  BY DEF Complete, OwnsCompletion, AtFront, turnVars, taskVars
<1>2. task.pc = "none"
  <2>1. PICK S : completions \in Seq(S)
    BY DEF Sent
  <2>2. 1 \in 1..Len(completions) /\ c = completions[1]
    BY <1>1, <2>1
  <2>3. c.epoch = report.epoch
    BY <1>1 DEF EpochOfRunning, Turn
  <2> HIDE DEF c
  <2> QED BY <1>1, <2>2, <2>3 DEF Sent
<1> HIDE DEF c
<1>3. report' \in [epoch : {report.epoch}, state : {"free", "reported"}] /\ report.epoch \in Nat
  <2>1. report \in [epoch : Nat, state : {"free", "reported"}]
    BY <1>2 DEF TaskOfRunning, Shapes
  <2>2. Reported(report, report.epoch, FALSE) \in [epoch : {report.epoch}, state : {"free", "reported"}]
    BY <2>1, ReportedShape, Zenon
  <2> QED BY <1>1, <2>1, <2>2
<1>4. slots' = {}
  BY <1>1, RemainingNone DEF SlotsOfRunning
<1>5. IsOp(op') /\ op'.kind = "completion" /\ op'.torn = NoTurn
  BY <1>1 DEF Shapes, IsOp, IsTurn, Begun, NoTurn, Turn
<1>6. Shapes' /\ EpochOfRunning' /\ TaskOfRunning' /\ SlotsOfRunning'
  BY <1>1, <1>2, <1>3, <1>4, <1>5
     DEF Shapes, EpochOfRunning, TaskOfRunning, SlotsOfRunning, SlotsBoundToRunning, IsTurn
<1>7. Sent'
  BY <1>1, <1>2, <1>3, TailKeeps DEF Sent
<1>8. Closing'
  BY <1>1, <1>2, <1>4 DEF Closing, Quiet
<1>9. TornIsOver' /\ StoppedTurnReported'
  BY <1>1 DEF TornIsOver, StoppedTurnReported
<1> QED BY <1>6, <1>7, <1>8, <1>9

\* A handler lets the turn go, once nothing of it is left.
LEMMA ReleaseKeeps ==
    ASSUME TurnInv,
           running' = NoTurn \/ UNCHANGED running,
           running' = NoTurn => slots = {} /\ task.pc = "none",
           UNCHANGED <<report, task, slots, completions>>,
           pc' \notin {"settle", "complete"}, op' = NoOp
    PROVE TurnInv'
<1> USE DEF TurnInv
<1>1. Shapes'
  BY NoOpShape DEF Shapes, NoTurn, IsTurn, Turn
<1>2. EpochOfRunning' /\ TaskOfRunning' /\ SlotsOfRunning'
  BY DEF EpochOfRunning, TaskOfRunning, SlotsOfRunning, SlotsBoundToRunning
<1>3. Sent'
  BY DEF Sent
<1>4. Closing' /\ TornIsOver' /\ StoppedTurnReported'
  BY DEF Closing, TornIsOver, StoppedTurnReported
<1> QED BY <1>1, <1>2, <1>3, <1>4

\* So does the end of a completion,
LEMMA FinishCompletionKeeps ==
    ASSUME TurnInv, FinishCompletion
    PROVE TurnInv'
<1>1. slots = {} /\ task.pc = "none"
  BY DEF TurnInv, FinishCompletion, Closing, Quiet
<1> QED BY <1>1, ReleaseKeeps DEF FinishCompletion, taskVars, deliveryVars

\* and the end of a cancel.
LEMMA SettleKeeps ==
    ASSUME TurnInv, Settle
    PROVE TurnInv'
<1>1. Leased => slots = {} /\ task.pc = "none"
  BY DEF TurnInv, Settle, Closing, Quiet
<1>2. running' = NoTurn => slots = {} /\ task.pc = "none"
  BY <1>1 DEF Settle, TurnInv, SlotsOfRunning, TaskOfRunning
<1>3. pc' \notin {"settle", "complete"}
  BY DEF Settle, AfterCancel
<1> QED BY <1>2, <1>3, ReleaseKeeps DEF Settle, taskVars, deliveryVars

\* What the teardown does to the turn, without the queue.
LEMMA TeardownEffect ==
    ASSUME TurnInv, Teardown
    PROVE /\ pc = "teardown" /\ (Leased => LeaseCurrent)
          /\ running # NoTurn => task' = NoTask
          /\ running = NoTurn => UNCHANGED task
          /\ LET epoch == IF Leased THEN op.lease.epoch ELSE report.epoch
                 freed == IF running # NoTurn THEN ReleaseAborted(epoch) ELSE report
             IN \/ report' = freed
                   /\ (running # NoTurn /\ op'.result = "cancelled" => ~CancelReason)
                \/ report' = Reported(freed, epoch, TRUE)
          /\ slots' = Remaining(slots, AllBindings(slots)) \/ slots' = Remaining(slots, {running})
          /\ running' = IF Leased THEN running ELSE NoTurn
          /\ IsOp(op') /\ op'.torn = running /\ op'.kind = op.kind /\ op'.stop = op.stop
          /\ pc' = "settle"
          /\ UNCHANGED <<gate, completions>>
<1> DEFINE hard == op.kind \in {"hard", "shutdown"}
           pops == op.kind = "legacy" /\ rewindable /\ Poppable(FrontRow)
           live == running # NoTurn
           epoch == IF Leased THEN op.lease.epoch ELSE report.epoch
           cause == IF hard THEN "hardTeardown" ELSE IF pops THEN "rewind" ELSE "softCancel"
           target == IF hard \/ pops \/ ~live THEN AllBindings(slots) ELSE {running}
           queue == WithFallbacks(pending, target, cause)
           front == IF queue = <<>> THEN {} ELSE {queue[1].row}
           freed == IF live THEN ReleaseAborted(epoch) ELSE report
           newop == [op EXCEPT !.torn = running,
                               !.rows = IF hard THEN QueuedRows(queue) ELSE front,
                               !.msgs = IdsOf(Completions(slots, target, cause)),
                               !.result = IF pops THEN "rewound" ELSE "cancelled"]
<1>1. /\ pc = "teardown" /\ (Leased => LeaseCurrent)
      /\ IF live THEN AbortTask ELSE UNCHANGED taskVars
      /\ report' = IF live /\ ~pops /\ CancelReason THEN Reported(freed, epoch, TRUE) ELSE freed
      /\ slots' = Remaining(slots, target)
      /\ running' = IF Leased THEN running ELSE NoTurn
      /\ op' = newop
      /\ pc' = "settle"
      /\ UNCHANGED <<gate, completions>>
  BY Zenon DEF Teardown
<1>2. slots' = Remaining(slots, AllBindings(slots)) \/ slots' = Remaining(slots, {running})
  BY <1>1
<1> HIDE DEF hard, pops, epoch, freed, front, target, cause, queue
<1>3. IsOp(op') /\ op'.torn = running /\ op'.kind = op.kind /\ op'.stop = op.stop
  BY <1>1 DEF TurnInv, Shapes, IsOp, IsTurn, Turn
<1>4. op'.result = "cancelled" => ~pops
  BY <1>1 DEF TurnInv, Shapes, IsOp
<1>5. \/ report' = freed /\ (running # NoTurn /\ op'.result = "cancelled" => ~CancelReason)
      \/ report' = Reported(freed, epoch, TRUE)
  BY <1>1, <1>4
<1>6. (running # NoTurn => task' = NoTask) /\ (running = NoTurn => UNCHANGED task)
  BY <1>1 DEF AbortTask, taskVars
<1> QED BY <1>1, <1>2, <1>3, <1>5, <1>6 DEF epoch, freed

\* Unless it was at the gate, an interrupt of the turn is filed when somebody
\* listens.
LEMMA InterruptReported ==
    ASSUME NEW slot \in [epoch : Nat, state : {"free", "reported"}],
           "hooks" \in Features, ~Subagent
    PROVE Reported(slot, slot.epoch, TRUE).state = "reported"
  BY DEF Reported

\* The teardown of a cancel.
LEMMA TeardownKeeps ==
    ASSUME TurnInv, Teardown
    PROVE TurnInv'
<1> DEFINE epoch == IF Leased THEN op.lease.epoch ELSE report.epoch
           freed == IF running # NoTurn THEN ReleaseAborted(epoch) ELSE report
<1> USE DEF TurnInv
<1>0. /\ running # NoTurn => task' = NoTask
      /\ running = NoTurn => UNCHANGED task
      /\ running' = IF Leased THEN running ELSE NoTurn
      /\ IsOp(op') /\ op'.torn = running
      /\ pc' = "settle"
      /\ UNCHANGED <<gate, completions>>
  BY TeardownEffect
<1>1. task'.pc = "none" /\ task' = [pc |-> task'.pc, batch |-> task'.batch]
  <2>1. CASE running = NoTurn
    BY <1>0, <2>1 DEF TaskOfRunning, Shapes
  <2>2. CASE running # NoTurn
    BY <1>0, <2>2 DEF NoTask
  <2> QED BY <2>1, <2>2
<1>2. running # NoTurn => epoch = report.epoch
  BY TeardownEffect DEF LeaseCurrent, EpochOfRunning
<1>3. freed \in [epoch : Nat, state : {"free", "reported"}] /\ freed.epoch = report.epoch
  <2>1. CASE running = NoTurn
    BY <2>1 DEF Shapes, TaskOfRunning
  <2>2. CASE running # NoTurn
    <3>1. report.epoch = epoch
      BY <1>2, <2>2
    <3> HIDE DEF epoch
    <3> QED BY <2>2, <3>1 DEF ReleaseAborted, Shapes
  <2> QED BY <2>1, <2>2
<1>4. report' = freed \/ report' = Reported(freed, epoch, TRUE)
  BY TeardownEffect
<1>5. report' \in [epoch : {report.epoch}, state : {"free", "reported"}] /\ report.epoch \in Nat
  <2> HIDE DEF freed, epoch
  <2>1. Reported(freed, epoch, TRUE) \in [epoch : {freed.epoch}, state : {"free", "reported"}]
    BY <1>3, ReportedShape, Zenon
  <2> QED BY <1>3, <1>4, <2>1
<1>6. slots' = {}
  <2>1. Remaining(slots, {running}) = {} /\ Remaining(slots, AllBindings(slots)) = {}
    BY RemainingNone, RemainingAllEnd DEF SlotsOfRunning
  <2> QED BY <2>1, TeardownEffect
<1>7. Shapes'
  <2>1. IsTurn(running')
    BY <1>0 DEF Shapes, IsTurn, NoTurn, Turn
  <2> QED BY <1>0, <1>1, <1>5, <1>6, <2>1 DEF Shapes
<1>8. EpochOfRunning' /\ TaskOfRunning' /\ SlotsOfRunning'
  BY <1>1, <1>5, <1>6, TeardownEffect
     DEF EpochOfRunning, TaskOfRunning, SlotsOfRunning, SlotsBoundToRunning
<1>9. Sent'
  BY <1>1, <1>5, TeardownEffect DEF Sent
<1>10. Closing'
  <2>1. Leased' => Leased /\ gate
    BY TeardownEffect DEF Leased, LeaseCurrent
  <2> QED BY <1>1, <1>6, <2>1, TeardownEffect DEF Closing, Quiet
<1>11. TornIsOver'
  BY <1>0, <1>1, <1>5 DEF TornIsOver, EpochOfRunning
<1>12. StoppedTurnReported'
  <2> SUFFICES ASSUME op'.torn # NoTurn, op'.result = "cancelled", CancelReason',
                      "hooks" \in Features, ~Subagent
               PROVE report'.state = "reported"
    BY DEF StoppedTurnReported, Subagent
  <2>1. running # NoTurn /\ CancelReason
    BY TeardownEffect DEF CancelReason
  <2>2. report' = Reported(freed, epoch, TRUE)
    BY <2>1, TeardownEffect
  <2>3. epoch = freed.epoch
    BY <1>2, <1>3, <2>1
  <2> HIDE DEF freed, epoch
  <2>4. Reported(freed, freed.epoch, TRUE).state = "reported"
    BY <1>3, InterruptReported, Zenon
  <2> QED BY <2>2, <2>3, <2>4
<1> QED BY <1>7, <1>8, <1>9, <1>10, <1>11, <1>12

\* A named cancel pops its row at once, or leaves that to the teardown.
LEMMA CancelNamedKeeps ==
    ASSUME TurnInv, CancelNamed
    PROVE TurnInv'
<1> USE DEF TurnInv
<1>1. PICK p \in Prompts, stop \in BOOLEAN :
        LET target == {Turn(p, report.epoch)}
        IN /\ pc = "idle"
           /\ \/ /\ pc' = "start"
                 /\ UNCHANGED <<running, slots, taskVars, report, op>>
              \/ /\ IF running.prompt = p
                    THEN /\ AbortTask /\ report' = ReleaseAborted(report.epoch)
                         /\ running' = NoTurn
                    ELSE UNCHANGED <<taskVars, report, running>>
                 /\ slots' = Remaining(slots, target)
                 /\ op' = [Begun("named", FALSE, NoTurn, {p}) EXCEPT
                             !.result = "rewound",
                             !.msgs = IdsOf(Completions(slots, target, "rewind"))]
                 /\ pc' = "settle"
              \/ /\ op' = Begun("named", stop, NoTurn, {p})
                 /\ pc' = "teardown"
                 /\ UNCHANGED <<running, slots, taskVars, report>>
           /\ UNCHANGED <<gate, completions>>
  BY DEF CancelNamed
<1>2. CASE UNCHANGED <<running, slots, taskVars, report>> /\ pc' \in {"start", "teardown"} /\ IsOp(op')
  BY <1>1, <1>2, AsideKeeps DEF Aside, LoopGoesOn, taskVars
<1>3. CASE pc' = "settle"
  <2> DEFINE target == {Turn(p, report.epoch)}
  <2>1. /\ slots' = Remaining(slots, target)
        /\ op' = [Begun("named", FALSE, NoTurn, {p}) EXCEPT
                    !.result = "rewound",
                    !.msgs = IdsOf(Completions(slots, target, "rewind"))]
        /\ UNCHANGED <<gate, completions>>
    BY <1>1, <1>3
  <2>2. slots' \subseteq slots
    BY <2>1 DEF Remaining
  <2>3. IsOp(op') /\ op'.kind = "named" /\ op'.torn = NoTurn
    <3> HIDE DEF target
    <3> QED BY <2>1 DEF IsOp, Begun, IsTurn, NoTurn, Turn
  <2>4. Closing' /\ TornIsOver' /\ StoppedTurnReported'
    BY <1>3, <2>3 DEF Closing, Leased, LeasedKinds, TornIsOver, StoppedTurnReported
  <2>5. CASE running.prompt = p
    <3>1. running # NoTurn
      BY <2>5, ConstantsAssumption DEF NoTurn, Turn, Rows
    <3>2. running = Turn(p, report.epoch)
      BY <2>5, <3>1 DEF EpochOfRunning, Shapes, IsTurn
    <3>3. slots' = {}
      BY <2>1, <3>2, RemainingNone DEF SlotsOfRunning
    <3>4. task' = NoTask /\ report' = ReleaseAborted(report.epoch) /\ running' = NoTurn
      BY <1>1, <1>3, <2>5 DEF AbortTask
    <3>5. report' \in [epoch : {report.epoch}, state : {"free", "reported"}] /\ report.epoch \in Nat
      BY <3>4 DEF ReleaseAborted, Shapes
    <3>6. Shapes' /\ EpochOfRunning' /\ TaskOfRunning' /\ SlotsOfRunning'
      BY <2>3, <3>3, <3>4, <3>5 DEF Shapes, EpochOfRunning, TaskOfRunning, SlotsOfRunning,
         SlotsBoundToRunning, NoTask, IsTurn, NoTurn, Turn
    <3>7. Sent'
      BY <2>1, <3>4, <3>5 DEF Sent, NoTask
    <3> QED BY <2>4, <3>6, <3>7
  <2>6. CASE running.prompt # p
    <3>1. UNCHANGED <<task, report, running>>
      BY <1>1, <1>3, <2>6 DEF taskVars
    <3>2. Shapes' /\ EpochOfRunning' /\ TaskOfRunning' /\ SlotsOfRunning'
      BY <2>2, <2>3, <3>1 DEF Shapes, EpochOfRunning, TaskOfRunning, SlotsOfRunning,
         SlotsBoundToRunning, IsTurn, NoTurn, Turn
    <3>3. Sent'
      BY <2>1, <3>1 DEF Sent
    <3> QED BY <2>4, <3>2, <3>3
  <2> QED BY <2>5, <2>6
<1>4. IsOp(op)
  BY DEF Shapes
<1>5. IsOp(Begun("named", stop, NoTurn, {p}))
  <2>1. IsTurn(NoTurn)
    BY DEF IsTurn, NoTurn, Turn
  <2> QED BY <2>1, BegunShape, Zenon
<1> QED BY <1>1, <1>2, <1>3, <1>4, <1>5

\* Nothing is left of a session that is over.
LEMMA DropActorKeeps ==
    ASSUME DropActor
    PROVE TurnInv'
<1> USE DEF DropActor
<1>1. Shapes'
  BY NoOpShape DEF Shapes, NoTask, IsTurn, NoTurn, Turn
<1>2. EpochOfRunning' /\ TaskOfRunning' /\ SlotsOfRunning' /\ Closing' /\ TornIsOver' /\ StoppedTurnReported'
  BY DEF EpochOfRunning, TaskOfRunning, SlotsOfRunning, SlotsBoundToRunning, Closing, TornIsOver,
         StoppedTurnReported, NoTask
<1>3. Sent'
  <2>1. completions' \in Seq({})
    OBVIOUS
  <2>2. Len(completions') = 0
    OBVIOUS
  <2> QED BY <2>1, <2>2 DEF Sent
<1> QED BY <1>1, <1>2, <1>3 DEF TurnInv

-----------------------------------------------------------------------------
(***************************************************************************)
(* The other steps, each of one of the kinds above.                        *)
(***************************************************************************)
\* What arrives goes to the queue, the buffer, or a slot of the running turn.
LEMMA ArrivalsKeep ==
    ASSUME TurnInv, Arrivals
    PROVE TurnInv'
<1>1. IsOp(op)
  BY DEF TurnInv, Shapes
<1>2. ASSUME NEW p \in Prompts, Prompt(p)
      PROVE Aside
  <2>1. /\ pc' = "start" \/ pc' = "replace"
        /\ UNCHANGED <<holds, turnVars, gate, report, taskVars, completions, slots, op, kicks, seen>>
    <3>1. PICK now \in BOOLEAN, goal \in Goals :
            /\ pc' = "start" \/ pc' = IF ReplacesTurn(goal) THEN "replace" ELSE "start"
            /\ UNCHANGED <<holds, turnVars, gate, report, taskVars, completions, slots, op, kicks, seen>>
      BY <1>2, Zenon DEF Prompt
    <3> QED BY <3>1
  <2> QED BY <1>1, <2>1 DEF Aside, LoopGoesOn, turnVars, taskVars
<1>3. ASSUME NEW w \in Wakes, Wake(w)
      PROVE Aside
  BY <1>1, <1>3 DEF Wake, Aside, LoopGoesOn, turnVars, taskVars, deliveryVars
<1>4. ASSUME NEW n \in Notes, Interject(n)
      PROVE Aside
  BY <1>1, <1>4 DEF Interject, Aside, LoopGoesOn, turnVars, taskVars, loopVars
<1>5. ASSUME NEW m \in Messages, ParentMessage(m)
      PROVE Aside \/ Sorts
  <2>1. CASE UNCHANGED slots
    BY <1>1, <1>5, <2>1 DEF ParentMessage, Aside, LoopGoesOn, turnVars, taskVars, loopVars
  <2>2. CASE running # NoTurn /\ slots' = AdmitPending(slots, running, m) /\ pc' = "start"
    <3>1. UNCHANGED <<running, gate, report, task, completions, op>>
      BY <1>5 DEF ParentMessage, turnVars, taskVars
    <3>2. \A s \in slots : /\ s = [id |-> s.id, binding |-> s.binding, phase |-> s.phase, at |-> s.at]
                            /\ s.binding = running
      BY DEF TurnInv, Shapes, SlotsOfRunning, SlotsBoundToRunning
    <3>3. \A s \in slots' : /\ s = [id |-> s.id, binding |-> s.binding, phase |-> s.phase, at |-> s.at]
                             /\ s.binding = running
      BY <2>2, <3>2 DEF AdmitPending
    <3> QED BY <1>1, <2>2, <3>1, <3>3 DEF Sorts
  <2> QED BY <1>5, <2>1, <2>2 DEF ParentMessage
<1> QED BY <1>2, <1>3, <1>4, <1>5, AsideKeeps, SortsKeeps DEF Arrivals

\* The queue is not the turn.
LEMMA QueueEditKeeps ==
    ASSUME TurnInv, QueueEdit
    PROVE TurnInv'
<1>1. IsOp(op)
  BY DEF TurnInv, Shapes
<1> USE DEF Aside, LoopGoesOn, turnVars, taskVars, deliveryVars, QueueEdited
<1>2. CASE Reorder
  BY <1>1, <1>2, AsideKeeps DEF Reorder
<1>3. CASE Clear
  BY <1>1, <1>3, AsideKeeps DEF Clear
<1>4. ASSUME NEW p \in Edited,
             RemoveQueued(p) \/ Edit(p) \/ HoldEdit(p) \/ ReleaseEdit(p) \/ InterjectQueued(p)
      PROVE Aside
  <2>1. CASE RemoveQueued(p) \/ Edit(p) \/ ReleaseEdit(p)
    BY <1>1, <2>1 DEF RemoveQueued, Edit, ReleaseEdit
  <2>2. CASE HoldEdit(p)
    BY <2>2 DEF HoldEdit
  <2>3. CASE InterjectQueued(p)
    <3>1. PICK goal \in Goals :
            /\ pc' = "start" \/ pc' = "replace"
            /\ UNCHANGED <<turnVars, gate, report, taskVars, completions, slots, op, kicks, seen>>
      BY <2>3, Zenon DEF InterjectQueued
    <3> QED BY <1>1, <3>1
  <2> QED BY <1>4, <2>1, <2>2, <2>3
<1> QED BY <1>2, <1>3, <1>4, AsideKeeps DEF QueueEdit

\* The claim of a cancel leaves the turn alone or aborts its task.
LEMMA ClaimKind ==
    ASSUME TurnInv, NEW kind, NEW stop, NEW early, Claim(kind, stop, early),
           UNCHANGED <<running, slots, completions>>
    PROVE Aside \/ Aborts
<1>1. IsTurn(CurrentLease)
  BY DEF CurrentLease, TurnInv, Shapes, IsTurn, Turn
<1>2. IsOp(op') /\ pc' = "teardown" /\ gate'
  BY <1>1, BegunShape DEF Claim
<1>3. CASE UNCHANGED <<taskVars, report>>
  BY <1>2, <1>3 DEF Aside, LoopGoesOn, taskVars
<1>4. CASE running # NoTurn /\ AbortTask /\ report' = ReleaseAborted(running.epoch)
  BY <1>2, <1>4 DEF Aborts, AbortTask
<1> QED BY <1>3, <1>4 DEF Claim

\* The commands that end a turn early.
LEMMA CancelsKeep ==
    ASSUME TurnInv, Cancels
    PROVE TurnInv'
<1>1. IsOp(op)
  BY DEF TurnInv, Shapes
<1>2. CASE CancelKeep
  <2>1. PICK kind \in CancelKinds, stop \in BOOLEAN, early \in BOOLEAN :
          /\ Claim(kind, stop, early) \/ UNCHANGED <<gate, loopVars, taskVars, report>>
          /\ UNCHANGED <<running, slots, completions>>
    BY <1>2 DEF CancelKeep, turnVars
  <2>2. CASE UNCHANGED <<gate, loopVars, taskVars, report>>
    BY <2>1, <2>2, AsideKeeps DEF Aside, LoopGoesOn, taskVars
  <2>3. CASE Claim(kind, stop, early)
    BY <2>1, <2>3, ClaimKind, AsideKeeps, AbortsKeeps
  <2> QED BY <2>1, <2>2, <2>3
<1>3. CASE CancelLegacy
  <2>1. PICK stop \in BOOLEAN : op' = Begun("legacy", stop, NoTurn, {})
    BY <1>3 DEF CancelLegacy
  <2>2. IsOp(op')
    BY <2>1, BegunShape DEF IsTurn, NoTurn, Turn
  <2> QED BY <1>3, <2>2, AsideKeeps DEF CancelLegacy, Aside, LoopGoesOn, turnVars, taskVars
<1>4. CASE Shutdown
  <2>1. UNCHANGED <<running, slots, completions>>
    BY <1>4 DEF Shutdown, turnVars, deliveryVars
  <2>2. CASE Claim("shutdown", FALSE, TRUE)
    BY <2>1, <2>2, ClaimKind, AsideKeeps, AbortsKeeps, Zenon
  <2>3. CASE pc' = "settleAll" /\ UNCHANGED <<gate, op, taskVars, report>>
    BY <1>1, <2>1, <2>3, AsideKeeps DEF Aside, LoopGoesOn, taskVars
  <2> QED BY <1>4, <2>2, <2>3 DEF Shutdown
<1>5. CASE CloseChannel
  <2>1. slots' = {}
    BY <1>5, RemainingAllEnd DEF CloseChannel
  <2> QED BY <1>1, <1>5, <2>1, SortsKeeps DEF CloseChannel, Sorts, turnVars, taskVars
<1> QED BY <1>2, <1>3, <1>4, <1>5, CancelNamedKeeps DEF Cancels

\* maybe_start_running_task starts a turn only when none runs and none is ending.
LEMMA StartTurnKind ==
    ASSUME StartTurn, UNCHANGED <<gate, slots, completions>>, LoopGoesOn
    PROVE Aside \/ Starts
<1>1. CASE UNCHANGED <<turnVars, report, task>>
  BY <1>1 DEF Aside, turnVars
<1>2. CASE ~StartBlocked /\ \E q, n : Promote(q, n)
  <2>1. PICK q, n : Promote(q, n)
    BY <1>2
  <2>2. running' = Turn(running'.prompt, report.epoch + 1)
    BY <2>1 DEF Promote, Turn
  <2>3. task' = [pc |-> "prepare", batch |-> task'.batch]
    BY <2>1 DEF Promote
  <2> QED BY <1>2, <2>1, <2>2, <2>3 DEF Starts, Promote, StartBlocked
<1>3. \/ UNCHANGED <<turnVars, report, task>>
      \/ ~StartBlocked /\ \E q, n : Promote(q, n)
  BY Zenon DEF StartTurn
<1> QED BY <1>1, <1>2, <1>3

\* The rest of a handler.
LEMMA LoopStepKeeps ==
    ASSUME TurnInv, LoopStep
    PROVE TurnInv'
<1>1. IsOp(op)
  BY DEF TurnInv, Shapes
<1>2. CASE Start
  BY <1>1, <1>2, StartTurnKind, AsideKeeps, StartsKeeps DEF Start, LoopGoesOn, deliveryVars
<1>3. CASE Replace
  <2>1. UNCHANGED <<running, slots, completions>>
    BY <1>3 DEF Replace, turnVars
  <2>2. CASE Claim("replace", FALSE, FALSE)
    BY <2>1, <2>2, ClaimKind, AsideKeeps, AbortsKeeps, Zenon
  <2>3. CASE pc' = "idle" /\ UNCHANGED <<gate, op, taskVars, report>>
    BY <1>1, <2>1, <2>3, AsideKeeps DEF Aside, LoopGoesOn, taskVars
  <2> QED BY <1>3, <2>2, <2>3 DEF Replace
<1>4. CASE LoseLease
  BY <1>4, NoOpShape, AsideKeeps DEF LoseLease, Aside, LoopGoesOn, turnVars, taskVars, deliveryVars
<1>5. CASE FlushStranded
  BY <1>1, <1>5, AsideKeeps DEF FlushStranded, Aside, LoopGoesOn, turnVars, taskVars
<1>6. CASE SettleAll
  <2>1. slots' = {}
    BY <1>6, RemainingAllEnd DEF SettleAll
  <2> QED BY <1>1, <1>6, <2>1, SortsKeeps DEF SettleAll, Sorts, turnVars, taskVars
<1> QED BY <1>2, <1>3, <1>4, <1>5, <1>6, TeardownKeeps, SettleKeeps, FinishCompletionKeeps,
           DropActorKeeps DEF LoopStep

\* A completion of a former turn is dropped.
LEMMA DropStaleKeeps ==
    ASSUME TurnInv, DropStaleCompletion
    PROVE TurnInv'
<1>1. IsOp(op) /\ \A s \in slots : /\ s = [id |-> s.id, binding |-> s.binding, phase |-> s.phase, at |-> s.at]
                                     /\ s.binding = running /\ running # NoTurn
  BY DEF TurnInv, Shapes, SlotsOfRunning, SlotsBoundToRunning
<1> QED BY <1>1, SortsKeeps DEF DropStaleCompletion, Sorts, turnVars, taskVars, deliveryVars, loopVars

\* The tasks beside the loop.
LEMMA BackgroundKeeps ==
    ASSUME TurnInv, Background
    PROVE TurnInv'
<1>1. CASE DropAborted
  BY <1>1, AsideKeeps DEF DropAborted, Aside, LoopGoesOn
<1>2. CASE Kick
  BY <1>2, StartTurnKind, AsideKeeps, StartsKeeps DEF Kick, LoopGoesOn, deliveryVars
<1>3. CASE \E r \in Resumes : ResumePushes(r)
  BY <1>3, AsideKeeps DEF ResumePushes, Aside, LoopGoesOn, turnVars, taskVars, deliveryVars
<1> QED BY <1>1, <1>2, <1>3 DEF Background

\* The slots of a turn keep their binding as they go from phase to phase.
LEMMA AdvanceKeeps ==
    ASSUME NEW S, NEW binding, NEW from, NEW to,
           \A s \in S : s = [id |-> s.id, binding |-> s.binding, phase |-> s.phase, at |-> s.at]
    PROVE \A s \in Advance(S, binding, from, to) :
            /\ s = [id |-> s.id, binding |-> s.binding, phase |-> s.phase, at |-> s.at]
            /\ \E t \in S : s.binding = t.binding
<1> SUFFICES ASSUME NEW t \in S,
                    NEW s, s = IF t.binding = binding /\ t.phase = from THEN [t EXCEPT !.phase = to] ELSE t
             PROVE /\ s = [id |-> s.id, binding |-> s.binding, phase |-> s.phase, at |-> s.at]
                   /\ s.binding = t.binding
  BY DEF Advance
<1> QED OBVIOUS

\* The steps of the turn itself.
LEMMA TurnTaskKeeps ==
    ASSUME TurnInv, TurnTask
    PROVE TurnInv'
<1> USE DEF Moves, At, GoTo, NoTask, TaskStep, deliveryVars
<1>1. /\ task = [pc |-> task.pc, batch |-> task.batch]
      /\ report \in [epoch : {report.epoch}, state : {"free", "gate", "reported"}]
      /\ report.state = "gate" => task.pc = "gate"
      /\ \A s \in slots : s = [id |-> s.id, binding |-> s.binding, phase |-> s.phase, at |-> s.at]
  BY DEF TurnInv, Shapes, TaskOfRunning
<1>2. CASE CommitMessage
  BY <1>1, <1>2, MovesKeeps DEF CommitMessage
<1>3. CASE BeginTurn \/ EndEarly
  BY <1>1, <1>3, MovesKeeps DEF BeginTurn, EndEarly
<1>4. CASE BlockPrompt
  BY <1>1, <1>4, MovesKeeps DEF BlockPrompt
<1>5. CASE SendUpdate
  BY <1>1, <1>5, MovesKeeps DEF SendUpdate
<1>6. CASE DrainNotes
  BY <1>1, <1>6, MovesKeeps DEF DrainNotes
<1>7. CASE SubmitNotes \/ RestoreNotes
  BY <1>1, <1>7, MovesKeeps DEF SubmitNotes, RestoreNotes
<1>8. CASE TakeMessages
  BY <1>1, <1>8, MovesKeeps, AdvanceKeeps DEF TakeMessages, BeginDelivery
<1>9. CASE DeliverMessages
  BY <1>1, <1>9, MovesKeeps, AdvanceKeeps DEF DeliverMessages, FinishDelivery
<1>10. CASE MissBarrier
  BY <1>1, <1>10, MovesKeeps DEF MissBarrier
<1>11. CASE \E w \in Wakes : ConsumeWake(w)
  BY <1>1, <1>11, MovesKeeps DEF ConsumeWake
<1>12. CASE ClaimForGate
  BY <1>1, <1>12, MovesKeeps DEF ClaimForGate
<1>13. CASE LeaveGate
  BY <1>1, <1>13, MovesKeeps DEF LeaveGate
<1>14. CASE EndTurn
  <2>1. report \in [epoch : Nat, state : {"free", "reported"}] /\ report.epoch \in {report.epoch}
    BY <1>14 DEF EndTurn, TurnInv, Shapes, TaskOfRunning
  <2>2. Reported(report, report.epoch, FALSE) \in [epoch : {report.epoch}, state : {"free", "reported"}]
    BY <2>1, ReportedShape, Zenon
  <2> QED BY <1>1, <1>14, <2>1, <2>2, MovesKeeps DEF EndTurn
<1> QED BY <1>2, <1>3, <1>4, <1>5, <1>6, <1>7, <1>8, <1>9, <1>10, <1>11, <1>12, <1>13, <1>14,
           SendCompletionKeeps DEF TurnTask

-----------------------------------------------------------------------------
\* The inductive invariant holds in every state of a session: the task, the
\* claim, the completions on their way and the messages in their slots belong
\* to the turn that runs, whoever ends it and however the steps interleave.
THEOREM TurnInvariant == Spec => []TurnInv
<1>1. Init => TurnInv
  <2> SUFFICES ASSUME Init PROVE TurnInv
    OBVIOUS
  <2>1. Shapes
    BY NoOpShape DEF Init, Shapes, NoTask, IsTurn, NoTurn, Turn
  <2>2. completions \in Seq({}) /\ Len(completions) = 0
    BY DEF Init
  <2>3. Sent
    BY <2>2 DEF Sent
  <2> QED BY <2>1, <2>3 DEF Init, TurnInv, EpochOfRunning, TaskOfRunning, SlotsOfRunning,
             SlotsBoundToRunning, Closing, TornIsOver, StoppedTurnReported, NoTask
<1>2. TurnInv /\ [Next]_vars => TurnInv'
  <2>1. ASSUME TurnInv, UNCHANGED vars
        PROVE TurnInv'
    BY <2>1, AsideKeeps DEF Aside, LoopGoesOn, vars, turnVars, taskVars, deliveryVars, loopVars
  <2> QED BY <2>1, ArrivalsKeep, QueueEditKeeps, CancelsKeep, DropStaleKeeps, CompleteKeeps,
             LoopStepKeeps, BackgroundKeeps, TurnTaskKeeps DEF Next
<1> QED BY <1>1, <1>2, PTL DEF Spec

\* The claim of the stop gate belongs to the task of the turn that runs, so
\* begin_turn of the next turn never finds the claim of an aborted one.
THEOREM ClaimBelongsHolds == Spec => []ClaimBelongsToTurn
<1>1. TurnInv => ClaimBelongsToTurn
  BY DEF TurnInv, TaskOfRunning, EpochOfRunning, ClaimBelongsToTurn
<1> QED BY <1>1, TurnInvariant, PTL

\* No message slot survives the turn it is bound to: finish_turn of the
\* delivery core empties them at a completion, a cancel, a rewind, a shutdown
\* and a closed channel.
THEOREM SlotsBoundHolds == Spec => []SlotsBoundToRunning
<1>1. TurnInv => SlotsBoundToRunning
  BY DEF TurnInv, SlotsOfRunning
<1> QED BY <1>1, TurnInvariant, PTL

\* A turn that a user's cancel tore down has its end reported, although the
\* stop gate may have held the claim and another turn may have started since.
THEOREM StoppedReportedHolds == Spec => []StoppedTurnReported
<1>1. TurnInv => StoppedTurnReported
  BY DEF TurnInv
<1> QED BY <1>1, TurnInvariant, PTL

-----------------------------------------------------------------------------
(***************************************************************************)
(* The pin.  A step takes it and the turn away or leaves them, unless it   *)
(* starts a turn, and then it sets both.                                   *)
(***************************************************************************)
Pinned == running' # NoTurn /\ pin' = running'.prompt
Unpins == (pin' = pin \/ pin' = NoRow) /\ (running' = running \/ running' = NoTurn)

\* Starting a turn pins it.
LEMMA StartTurnPins ==
    ASSUME StartTurn, report.epoch \in Nat
    PROVE Pinned \/ Unpins
<1>1. UNCHANGED turnVars \/ \E q, n : Promote(q, n)
  BY Zenon DEF StartTurn
<1> QED BY <1>1 DEF Promote, Pinned, Unpins, turnVars, Turn, NoTurn

\* The loop clears the pin, or starts a turn.
LEMMA LoopPins ==
    ASSUME LoopStep \/ Cancels \/ DropStaleCompletion \/ Complete, report.epoch \in Nat
    PROVE Pinned \/ Unpins
<1> USE DEF Unpins, turnVars
<1>1. CASE Start
  BY <1>1, StartTurnPins DEF Start
<1>2. CASE Replace \/ LoseLease \/ FlushStranded \/ SettleAll \/ CloseChannel \/ DropStaleCompletion
  BY <1>2, Zenon DEF Replace, LoseLease, FlushStranded, SettleAll, CloseChannel, DropStaleCompletion
<1>3. CASE Settle \/ FinishCompletion \/ DropActor
  BY <1>3 DEF Settle, FinishCompletion, DropActor
<1>4. CASE Complete \/ CancelKeep \/ CancelLegacy \/ Shutdown
  BY <1>4, Zenon DEF Complete, CancelKeep, CancelLegacy, Shutdown
<1>5. CASE Teardown
  <2>1. pin' = pin /\ running' = IF Leased THEN running ELSE NoTurn
    BY <1>5, Zenon DEF Teardown
  <2> QED BY <2>1
<1>6. CASE CancelNamed
  <2>1. PICK p \in Prompts :
          /\ pin' = pin
          /\ \/ UNCHANGED running
             \/ IF running.prompt = p THEN running' = NoTurn ELSE UNCHANGED running
    BY <1>6, Zenon DEF CancelNamed
  <2> QED BY <2>1
<1> QED BY <1>1, <1>2, <1>3, <1>4, <1>5, <1>6 DEF LoopStep, Cancels

\* What arrives, and an edit, leave pin and turn alone.
LEMMA InputPins ==
    ASSUME Arrivals \/ QueueEdit
    PROVE Unpins
<1> USE DEF Unpins, turnVars, QueueEdited
<1>1. CASE Arrivals
  <2>1. UNCHANGED turnVars
    BY <1>1, Zenon DEF Arrivals, Prompt, Wake, ParentMessage, Interject
  <2> QED BY <2>1
<1>2. CASE QueueEdit
  <2>1. UNCHANGED turnVars
    BY <1>2, Zenon DEF QueueEdit, Reorder, Clear, RemoveQueued, Edit, HoldEdit, ReleaseEdit, InterjectQueued
  <2> QED BY <2>1
<1> QED BY <1>1, <1>2

\* The end of the task and the drop of its future clear the pin at most.
LEMMA TaskPins ==
    ASSUME Background \/ TurnTask, report.epoch \in Nat
    PROVE Pinned \/ Unpins
<1> USE DEF Unpins, TaskStep, turnVars
<1>1. CASE Kick
  BY <1>1, StartTurnPins DEF Kick
<1>2. CASE DropAborted \/ EndTurn \/ BlockPrompt
  BY <1>2 DEF DropAborted, EndTurn, BlockPrompt
<1>3. CASE \E r \in Resumes : ResumePushes(r)
  BY <1>3 DEF ResumePushes
<1>4. CASE \/ CommitMessage \/ BeginTurn \/ EndEarly \/ SendUpdate
           \/ DrainNotes \/ SubmitNotes \/ RestoreNotes
           \/ TakeMessages \/ DeliverMessages \/ MissBarrier
           \/ (\E w \in Wakes : ConsumeWake(w))
           \/ ClaimForGate \/ LeaveGate \/ SendCompletion
  <2>1. UNCHANGED running /\ UNCHANGED pin
    <3>1. TaskStep
      BY <1>4, Zenon DEF CommitMessage, BeginTurn, EndEarly, SendUpdate, DrainNotes, SubmitNotes,
           RestoreNotes, TakeMessages, DeliverMessages, MissBarrier, ConsumeWake, ClaimForGate,
           LeaveGate, SendCompletion
    <3> QED BY <3>1
  <2> QED BY <2>1
<1> QED BY <1>1, <1>2, <1>3, <1>4 DEF Background, TurnTask

\* The pin never names another turn than the one that runs, although the
\* teardown of a cancel, the drop of an aborted future and a background kick
\* all touch it: the debug_assert of the cancel's teardown holds.
THEOREM PinHolds == Spec => []PinNamesRunning
<1>1. Init => PinNamesRunning
  BY DEF Init, PinNamesRunning
<1>2. PinNamesRunning /\ report.epoch \in Nat /\ [Next]_vars => PinNamesRunning'
  <2>1. ASSUME PinNamesRunning, Pinned \/ Unpins
        PROVE PinNamesRunning'
    BY <2>1 DEF PinNamesRunning, Pinned, Unpins
  <2>2. UNCHANGED vars => Unpins
    BY DEF vars, turnVars, Unpins
  <2> QED BY <2>1, <2>2, LoopPins, InputPins, TaskPins DEF Next
<1>3. TurnInv => report.epoch \in Nat
  BY DEF TurnInv, Shapes
<1> QED BY <1>1, <1>2, <1>3, TurnInvariant, PTL DEF Spec

====

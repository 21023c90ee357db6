---------------------------- MODULE SessionTurns ----------------------------
(***************************************************************************)
(* The turn scheduling of a session actor: the queue of inputs, the one    *)
(* turn that runs, and how turns end.  The command loop of run_session     *)
(* handles one command or completion at a time, but it awaits in the       *)
(* middle of a handler, and the turn task, the futures it has aborted and  *)
(* the spawned background tasks run at those awaits.  A handler is         *)
(* therefore a chain of steps, one per await-free stretch, and pc says     *)
(* where in its chain the loop is.                                         *)
(*                                                                         *)
(* An input is a row.  Prompts are typed by a client, who may also send    *)
(* Notes as interjections; Wakes are completions of tasks and workflows;   *)
(* Resumes are pushed by the spawned plan-approval task; Messages come     *)
(* from the parent agent.  The text of a row is abstracted to the row.     *)
(***************************************************************************)
EXTENDS MessageDelivery

CONSTANTS
    Prompts, Wakes, Resumes, Messages, Notes,
    Edited,       \* the prompts a client edits, moves or removes in the queue
    CancelKinds,  \* the commands that end a turn early
    Features,     \* what the configuration and the environment bring about
    MaxSlots,     \* MAX_PARENT_STEER_SLOTS
    NoRow

Rows == Prompts \cup Wakes \cup Resumes \cup Messages \cup Notes

\* The kinds that claim the finalization gate, and the two rewinds that do not.
LeasedKinds == {"keep", "hard", "replace", "shutdown"}
RewindKinds == {"named", "legacy"}

ASSUME ConstantsAssumption ==
    /\ NoRow \notin Rows
    /\ Edited \subseteq Prompts
    /\ CancelKinds \subseteq {"keep", "hard", "named", "legacy", "shutdown", "close"}
    /\ Features \subseteq {"hooks", "goal", "combine", "steer", "outage"}
    /\ MaxSlots \in Nat \ {0}

VARIABLES
    pending,     \* pending_inputs: the queue, its first row the running turn's
    holds,       \* edit_holds: rows under a client's edit
    hooked,      \* hook_block_hold: a prompt hook blocked the last prompt
    running,     \* running_task: the prompt and the epoch of its task
    gate,        \* finalization_gate: some handler is ending the turn
    pin,         \* current_prompt_id
    rewindable,  \* nothing of the running turn has been sent yet
    committed,   \* front_message_committed
    report,      \* turn_report: the epoch, and who reported the turn's end
    task,        \* the future of the running turn, and the rows it is about to show
    dying,       \* aborted futures that are not dropped yet
    completions, \* the completion channel
    slots,       \* message_delivery
    buffer,      \* pending_interjections
    pc, op,      \* the command loop: its place, and the cancel it carries out
    kicks,       \* background tasks about to call maybe_start_running_task
    answer,      \* whether each row's sender has its answer
    seen         \* how often the model was shown it

queueVars == <<pending, holds, hooked>>
turnVars == <<running, pin, rewindable, committed>>
taskVars == <<task, dying>>
deliveryVars == <<slots, buffer>>
loopVars == <<pc, op>>
historyVars == <<answer, seen>>
vars == <<queueVars, turnVars, gate, report, taskVars, completions, deliveryVars, loopVars, kicks,
          historyVars>>

Turn(prompt, epoch) == [prompt |-> prompt, epoch |-> epoch]
NoTurn == Turn(NoRow, 0)
NoTask == [pc |-> "none", batch |-> <<>>]
Begun(kind, stop, lease, rows) ==
    [kind |-> kind, stop |-> stop, lease |-> lease, torn |-> NoTurn,
     rows |-> rows, msgs |-> {}, result |-> "none"]
NoOp == Begun("none", FALSE, NoTurn, {})
Entry(row, now) == [row |-> row, now |-> now]

-----------------------------------------------------------------------------
(***************************************************************************)
(* What a row is, from its origin.                                         *)
(***************************************************************************)
\* is_preemptible_runtime_wake: dropped when the session ends or a person writes.
RuntimeWake(r) == r \in Wakes \cup Resumes

\* is_queue_editable.  A prompt that became an interjection comes back as a
\* hidden row, which nobody may edit.
Editable(r) == r \in Prompts /\ answer[r] = "owed"

\* front_is_rewind_poppable
Poppable(r) == Editable(r)

QueuedRows(q) == {q[i].row : i \in DOMAIN q}
Queued(r) == r \in QueuedRows(pending)
FrontRow == IF pending = <<>> THEN NoRow ELSE pending[1].row

\* The running turn's row is the first of the queue.
AtFront == running # NoTurn /\ FrontRow = running.prompt

\* front_awaiting_commit
AwaitingCommit == ~committed /\ AtFront

\* The rows a client may still take out of the queue.
Loose(r) == Queued(r) /\ Editable(r) /\ r # running.prompt

\* The entries at some places of a queue, in their order.
Kept(q, places) ==
    [n \in 1..Cardinality(places) |->
       q[CHOOSE i \in places : Cardinality({j \in places : j <= i}) = n]]

Without(q, rows) == Kept(q, {i \in DOMAIN q : q[i].row \notin rows})

\* Rows that are owed an answer get one, or their sender is dropped.
Reply(rows) == [r \in Rows |-> IF r \in rows /\ answer[r] = "owed" THEN "answered" ELSE answer[r]]

\* These rows go on as the text of another turn; their clients are told so.
Merge(rows) == [r \in Rows |-> IF r \in rows THEN "merged" ELSE answer[r]]

Accept(r, as) == [answer EXCEPT ![r] = as]

\* The model is shown these rows.
Shown(rows) == [r \in Rows |-> IF r \in rows THEN seen[r] + 1 ELSE seen[r]]

-----------------------------------------------------------------------------
(***************************************************************************)
(* Reports of a turn's end, and aborting its task.                         *)
(***************************************************************************)
\* A parent sends messages to a subagent's session only, and there an
\* interrupt by the user is not reported.
Subagent == Messages # {}

\* Mutant: an interrupt by the user is not reported anywhere.
ReportedUnlessInterrupt(slot, epoch, interrupt) ==
    IF "hooks" \in Features /\ ~interrupt /\ slot.epoch = epoch /\ slot.state = "free"
    THEN [slot EXCEPT !.state = "reported"]
    ELSE slot

\* claim_and_queue: the report is filed if somebody listens and the turn named
\* is still the one of the slot and unreported.
Reported(slot, epoch, interrupt) ==
    IF "hooks" \in Features /\ ~(Subagent /\ interrupt) /\ slot.epoch = epoch /\ slot.state = "free"
    THEN [slot EXCEPT !.state = "reported"]
    ELSE slot

\* Mutant: the claim of an aborted task's gate is left to the drop of its future.
ReleaseLate(epoch) == report

\* release_aborted
ReleaseAborted(epoch) ==
    IF report.epoch = epoch /\ report.state = "gate" THEN [report EXCEPT !.state = "free"] ELSE report

\* The turn has its TurnSubagentScopeGuard.
Guarded == task.pc \in {"run", "notes", "barrier", "gate"}

\* Mutant: the task is left running.
AbortForgotten == UNCHANGED taskVars

\* The future is dropped some time after the abort.  Until then it holds the
\* interjections it had drained, and its guard the pin.
AbortTask ==
    /\ task' = NoTask
    /\ dying' = IF Guarded
                THEN dying \cup {[prompt |-> running.prompt, batch |-> task.batch]}
                ELSE dying

\* restore_front of RestoreOnCancel, and the drop of the scope guard.
DropAborted ==
    \E d \in dying :
        /\ pc # "gone"
        /\ dying' = dying \ {d}
        /\ buffer' = d.batch \o buffer
        /\ pin' = IF pin = d.prompt THEN NoRow ELSE pin
        /\ UNCHANGED <<queueVars, running, rewindable, committed, gate, report, task,
                       completions, slots, loopVars, kicks, historyVars>>

-----------------------------------------------------------------------------
(***************************************************************************)
(* Starting a turn: maybe_start_running_task.                              *)
(***************************************************************************)
\* combine_prefix_len, for the rows that may be joined.  The text and the
\* images of a prompt decide whether it really is.
Joinable(q, i) ==
    Editable(q[i].row)

CombineLengths(q, held) ==
    {1} \cup IF "combine" \in Features
             THEN {n \in 2..Len(q) : /\ \A i \in 1..n : Joinable(q, i)
                                     /\ \A i \in 2..n : q[i].row \notin held}
             ELSE {}

\* Mutant: the pin that a former turn left behind stays.
PromoteUnderOldPin(q, n) ==
    /\ running' = Turn(q[1].row, report.epoch + 1)
    /\ pin' = IF pin = NoRow THEN q[1].row ELSE pin
    /\ rewindable' = TRUE
    /\ committed' = FALSE
    /\ report' = [epoch |-> report.epoch + 1, state |-> "free"]
    /\ task' = [pc |-> "prepare", batch |-> [i \in 1..(n - 1) |-> q[i + 1].row]]

Promote(q, n) ==
    /\ running' = Turn(q[1].row, report.epoch + 1)
    /\ pin' = q[1].row
    /\ rewindable' = TRUE
    /\ committed' = FALSE
    /\ report' = [epoch |-> report.epoch + 1, state |-> "free"]
    /\ task' = [pc |-> "prepare", batch |-> [i \in 1..(n - 1) |-> q[i + 1].row]]

StartBlocked == running # NoTurn \/ gate \/ pending = <<>> \/ hooked

\* The fronts that are stale wakes are popped, edit holds that expired are
\* dropped, and the next row runs unless it is held.
StartTurn ==
    \/ /\ StartBlocked
       /\ UNCHANGED <<queueVars, turnVars, report, task, answer>>
    \/ /\ ~StartBlocked
       /\ UNCHANGED hooked
       /\ \E k \in 0..Len(pending) :
            /\ \A i \in 1..k : pending[i].row \in Wakes
            /\ LET q == SubSeq(pending, k + 1, Len(pending))
                   stale == {pending[i].row : i \in 1..k}
               IN \E held \in SUBSET (holds \cap QueuedRows(q)) :
                    /\ holds' = held
                    /\ \/ /\ q # <<>> => q[1].row \in held
                          /\ pending' = q
                          /\ answer' = Reply(stale)
                          /\ UNCHANGED <<turnVars, report, task>>
                       \/ /\ q # <<>> /\ q[1].row \notin held
                          /\ \E n \in CombineLengths(q, held) :
                               /\ Promote(q, n)
                               /\ pending' = <<q[1]>> \o SubSeq(q, n + 1, Len(q))
                               /\ answer' = [r \in Rows |->
                                               IF \E i \in 2..n : q[i].row = r THEN "merged"
                                               ELSE Reply(stale)[r]]

\* The kick that ends most handlers.
Start ==
    /\ pc = "start"
    /\ StartTurn
    /\ pc' = "idle"
    /\ UNCHANGED <<gate, dying, completions, deliveryVars, op, kicks, seen>>

\* A background task calls it too, at any time: a plan approval after it has
\* pushed its row.
Kick ==
    /\ kicks > 0 /\ pc # "gone"
    /\ StartTurn
    /\ kicks' = kicks - 1
    /\ UNCHANGED <<gate, dying, completions, deliveryVars, loopVars, seen>>

\* start_resume_turn: the spawned plan approval queues a row, whatever the
\* command loop is doing.
ResumePushes(r) ==
    /\ pc # "gone" /\ answer[r] = "new"
    /\ pending' = Append(pending, Entry(r, FALSE))
    /\ answer' = Accept(r, "owed")
    /\ kicks' = kicks + 1
    /\ UNCHANGED <<holds, hooked, turnVars, gate, report, taskVars, completions, deliveryVars,
                   loopVars, seen>>

-----------------------------------------------------------------------------
(***************************************************************************)
(* Inputs arrive.                                                          *)
(***************************************************************************)
\* sweep_pending_inputs, armed by a queued wake that is not the running turn.
Preempted ==
    IF \E w \in Wakes : Queued(w) /\ w # running.prompt
    THEN {r \in QueuedRows(pending) : RuntimeWake(r) /\ r # running.prompt}
    ELSE {}

\* send_now_insert_index: behind the running front and earlier send-now rows.
SendNowIndex(q) ==
    LET first == IF running # NoTurn /\ q # <<>> /\ q[1].row = running.prompt THEN 2 ELSE 1
    IN Min({i \in first..(Len(q) + 1) : i = Len(q) + 1 \/ ~q[i].now})

\* Mutant: a turn whose message the model has not seen is cancelled as well.
ReplacesAny(goal) == running # NoTurn /\ goal = "none"

\* send_now_cancels_running_turn
ReplacesTurn(goal) == running # NoTurn /\ goal = "none" /\ ~AwaitingCommit

\* During an active goal a prompt sent now becomes an interjection instead,
\* unless it is a shell command, which waits for its own turn.
MergesIntoGoal(goal) == running # NoTurn /\ goal = "merge"

Goals == {"none"} \cup IF "goal" \in Features THEN {"merge", "shell"} ELSE {}

\* SessionCommand::Prompt and queue_input.  A prompt that arrives while the
\* turn waits for a tool is sent now without being asked to.
Prompt(p) ==
    \E now \in BOOLEAN, goal \in Goals :
        LET swept == Without(pending, Preempted)
        IN /\ pc = "idle" /\ answer[p] = "new"
           /\ goal # "none" => now
           /\ hooked' = FALSE
           /\ \/ /\ now /\ MergesIntoGoal(goal)
                 /\ pending' = swept
                 /\ buffer' = Append(buffer, p)
                 /\ answer' = [Reply(Preempted) EXCEPT ![p] = "merged"]
                 /\ pc' = "start"
              \/ /\ now /\ ~MergesIntoGoal(goal)
                 /\ pending' = InsertAt(swept, SendNowIndex(swept), Entry(p, TRUE))
                 /\ answer' = [Reply(Preempted) EXCEPT ![p] = "owed"]
                 /\ pc' = IF ReplacesTurn(goal) THEN "replace" ELSE "start"
                 /\ UNCHANGED buffer
              \/ /\ ~now
                 /\ pending' = Append(swept, Entry(p, FALSE))
                 /\ answer' = [Reply(Preempted) EXCEPT ![p] = "owed"]
                 /\ pc' = "start"
                 /\ UNCHANGED buffer
           /\ UNCHANGED <<holds, turnVars, gate, report, taskVars, completions, slots, op, kicks, seen>>

\* The same command for a synthetic prompt.
Wake(w) ==
    /\ pc = "idle" /\ answer[w] = "new"
    /\ pending' = Append(pending, Entry(w, FALSE))
    /\ answer' = Accept(w, "owed")
    /\ pc' = "start"
    /\ UNCHANGED <<holds, hooked, turnVars, gate, report, taskVars, completions, deliveryVars, op,
                   kicks, seen>>

\* admit_parent_agent_message: a Steer is bound to the running turn, and
\* refused when the slots are full; anything else is queued.
ParentMessage(m) ==
    /\ pc = "idle" /\ answer[m] = "new"
    /\ \/ /\ running # NoTurn /\ Cardinality(slots) >= MaxSlots
          /\ answer' = Accept(m, "rejected")
          /\ UNCHANGED <<pending, slots, pc>>
       \/ /\ running # NoTurn /\ Cardinality(slots) < MaxSlots
          /\ slots' = AdmitPending(slots, running, m)
          /\ answer' = Accept(m, "owed")
          /\ pc' = "start"
          /\ UNCHANGED pending
       \/ /\ pending' = Append(pending, Entry(m, FALSE))
          /\ answer' = Accept(m, "owed")
          /\ pc' = "start"
          /\ UNCHANGED slots
    /\ UNCHANGED <<holds, hooked, turnVars, gate, report, taskVars, completions, buffer, op, kicks, seen>>

\* Mutant: in front of everything.
InsertFrontOfAll(q, row) == InsertAt(q, 1, Entry(row, TRUE))

\* queue_interjection_fallback_prompt: in front, but behind the running turn.
InsertFront(q, row) == InsertAt(q, IF AtFront THEN 2 ELSE 1, Entry(row, TRUE))

\* SessionCommand::Interject
Interject(n) ==
    /\ pc = "idle" /\ answer[n] = "new"
    /\ answer' = Accept(n, "merged")
    /\ \/ /\ pin # NoRow
          /\ buffer' = Append(buffer, n)
          /\ UNCHANGED <<pending, pc>>
       \/ /\ pin = NoRow
          /\ pending' = InsertFront(pending, n)
          /\ pc' = "start"
          /\ UNCHANGED buffer
    /\ UNCHANGED <<holds, hooked, turnVars, gate, report, taskVars, completions, slots, op, kicks, seen>>

\* flush_stranded_interjections: first in the buffer, first in the queue.
Flushed ==
    LET at == IF AtFront THEN 1 ELSE 0
    IN SubSeq(pending, 1, at) \o [i \in DOMAIN buffer |-> Entry(buffer[i], TRUE)]
         \o SubSeq(pending, at + 1, Len(pending))

-----------------------------------------------------------------------------
(***************************************************************************)
(* A client edits the queue.                                               *)
(***************************************************************************)
\* Every edit that changed something releases the hook hold; all of them kick.
QueueEdited(released) ==
    /\ pc' = "start"
    /\ hooked' = (hooked /\ ~released)
    /\ UNCHANGED <<turnVars, gate, report, taskVars, completions, slots, op, kicks, seen>>

RemoveQueued(p) ==
    /\ pc = "idle" /\ Loose(p)
    /\ pending' = Without(pending, {p})
    /\ answer' = Reply({p})
    /\ holds' = holds \ {p}
    /\ QueueEdited(TRUE)
    /\ UNCHANGED buffer

\* Rows that may not move keep their places.
Reorder ==
    LET movable == {i \in DOMAIN pending : Loose(pending[i].row)}
    IN \E f \in [movable -> movable] :
         /\ pc = "idle"
         /\ \A i, j \in movable : f[i] = f[j] => i = j
         /\ \E i \in movable : f[i] # i /\ pending[i].row \in Edited
         /\ pending' = [i \in DOMAIN pending |-> IF i \in movable THEN pending[f[i]] ELSE pending[i]]
         /\ QueueEdited(TRUE)
         /\ UNCHANGED <<holds, buffer, answer>>

\* Mutant: the senders of the cleared rows are not told.
ClearSilently ==
    LET rows == {r \in QueuedRows(pending) : Loose(r)}
    IN /\ pc = "idle" /\ rows \cap Edited # {}
       /\ pending' = Without(pending, rows)
       /\ QueueEdited(TRUE)
       /\ UNCHANGED <<holds, buffer, answer>>

Clear ==
    LET rows == {r \in QueuedRows(pending) : Loose(r)}
    IN /\ pc = "idle" /\ rows \cap Edited # {}
       /\ pending' = Without(pending, rows)
       /\ answer' = Reply(rows)
       /\ QueueEdited(TRUE)
       /\ UNCHANGED <<holds, buffer>>

Edit(p) ==
    /\ pc = "idle" /\ Loose(p)
    /\ holds' = holds \ {p}
    /\ QueueEdited(TRUE)
    /\ UNCHANGED <<pending, buffer, answer>>

\* HoldEdit does not kick, and may name the running turn's row.
HoldEdit(p) ==
    /\ pc = "idle" /\ Queued(p) /\ Editable(p)
    /\ holds' = holds \cup {p}
    /\ UNCHANGED <<pending, hooked, turnVars, gate, report, taskVars, completions, deliveryVars,
                   loopVars, kicks, historyVars>>

ReleaseEdit(p) ==
    /\ pc = "idle" /\ Queued(p) /\ Editable(p)
    /\ holds' = holds \ {p}
    /\ QueueEdited(FALSE)
    /\ UNCHANGED <<pending, buffer, answer>>

\* handle_interject_queued_prompt: a queued row is sent now.
InterjectQueued(p) ==
    \E goal \in Goals :
        LET rest == Without(pending, {p})
        IN /\ pc = "idle" /\ Loose(p)
           /\ holds' = holds \ {p}
           /\ \/ /\ MergesIntoGoal(goal)
                 /\ pending' = rest
                 /\ buffer' = Append(buffer, p)
                 /\ answer' = Accept(p, "merged")
                 /\ pc' = "start" /\ hooked' = FALSE
              \/ /\ ~MergesIntoGoal(goal)
                 /\ pending' = InsertAt(rest, SendNowIndex(rest), Entry(p, TRUE))
                 /\ IF ReplacesTurn(goal)
                    THEN pc' = "replace" /\ UNCHANGED hooked
                    ELSE pc' = "start" /\ hooked' = FALSE
                 /\ UNCHANGED <<buffer, answer>>
           /\ UNCHANGED <<turnVars, gate, report, taskVars, completions, slots, op, kicks, seen>>

QueueEdit ==
    \/ Reorder \/ Clear
    \/ \E p \in Edited :
          RemoveQueued(p) \/ Edit(p) \/ HoldEdit(p) \/ ReleaseEdit(p) \/ InterjectQueued(p)

-----------------------------------------------------------------------------
(***************************************************************************)
(* A turn is cancelled: cancel_running_task.                               *)
(***************************************************************************)
\* claim_cancel_finalization.  With no turn the lease names the front alone.
CanClaim == ~gate /\ (running = NoTurn \/ AtFront)
CurrentLease == IF running = NoTurn THEN Turn(FrontRow, 0) ELSE running

\* Mutant: the lease is compared with the pin instead of the running task.
LeaseMatchesPin ==
    /\ gate
    /\ FrontRow = op.lease.prompt
    /\ op.lease.epoch # 0 => pin = op.lease.prompt

\* finalization_binding_is_current
LeaseCurrent ==
    /\ gate
    /\ IF op.lease.epoch = 0
       THEN running = NoTurn /\ FrontRow = op.lease.prompt
       ELSE running = op.lease /\ AtFront

Leased == op.kind \in LeasedKinds

\* The claim, with the abort of the task that comes with cancel_subagents.
Claim(kind, stop, early) ==
    /\ CanClaim
    /\ gate' = TRUE
    /\ op' = Begun(kind, stop, CurrentLease, {})
    /\ pc' = "teardown"
    /\ IF early /\ running # NoTurn
       THEN AbortTask /\ report' = ReleaseAborted(running.epoch)
       ELSE UNCHANGED <<taskVars, report>>

\* The fallback rows of the slots that end, at the end of a queue.
WithFallbacks(q, target, cause) ==
    LET ids == InOrder(Fallbacks(slots, target, cause))
    IN q \o [i \in DOMAIN ids |-> Entry(ids[i], FALSE)]

\* SessionCommand::Cancel with the history kept.  The interjections in the
\* buffer are cleared, not flushed.
CancelKeep ==
    \E kind \in CancelKinds \cap {"keep", "hard"}, stop \in BOOLEAN, early \in BOOLEAN :
        /\ pc = "idle"
        /\ buffer' = <<>>
        /\ answer' = Reply(Range(buffer))
        /\ IF CanClaim
           THEN Claim(kind, stop, early)
           ELSE UNCHANGED <<gate, loopVars, taskVars, report>>
        /\ UNCHANGED <<queueVars, turnVars, completions, slots, kicks, seen>>

\* A cancel that names the prompt it wants to take back.  A stale name does
\* nothing; in the window the front is popped at once, whatever runs next.
CancelNamed ==
    \E p \in Prompts, stop \in BOOLEAN :
        LET target == {Turn(p, report.epoch)}
        IN /\ pc = "idle" /\ "named" \in CancelKinds /\ answer[p] # "new"
           /\ buffer' = <<>>
           /\ \/ /\ FrontRow # p
                 /\ answer' = Reply(Range(buffer))
                 /\ pc' = "start"
                 /\ UNCHANGED <<pending, running, rewindable, slots, taskVars, report, op>>
              \/ /\ FrontRow = p /\ rewindable /\ Poppable(p)
                 /\ answer' = Reply(Range(buffer))
                 /\ IF running.prompt = p
                    THEN /\ AbortTask /\ report' = ReleaseAborted(report.epoch)
                         /\ running' = NoTurn
                    ELSE UNCHANGED <<taskVars, report, running>>
                 /\ rewindable' = FALSE
                 /\ pending' = Tail(WithFallbacks(pending, target, "rewind"))
                 /\ slots' = Remaining(slots, target)
                 /\ op' = [Begun("named", FALSE, NoTurn, {p}) EXCEPT
                             !.result = "rewound",
                             !.msgs = IdsOf(Completions(slots, target, "rewind"))]
                 /\ pc' = "settle"
              \/ /\ FrontRow = p /\ ~(rewindable /\ Poppable(p))
                 /\ answer' = Reply(Range(buffer))
                 /\ op' = Begun("named", stop, NoTurn, {p})
                 /\ pc' = "teardown"
                 /\ UNCHANGED <<pending, running, rewindable, slots, taskVars, report>>
           /\ UNCHANGED <<holds, hooked, pin, committed, gate, completions, kicks, seen>>

\* A legacy client does not name the prompt: decided at the teardown.
CancelLegacy ==
    \E stop \in BOOLEAN :
        /\ pc = "idle" /\ "legacy" \in CancelKinds
        /\ buffer' = <<>>
        /\ answer' = Reply(Range(buffer))
        /\ op' = Begun("legacy", stop, NoTurn, {})
        /\ pc' = "teardown"
        /\ UNCHANGED <<queueVars, turnVars, gate, report, taskVars, completions, slots, kicks, seen>>

\* cancel_turn_for_send_now: flush the interjections, then claim.
Replace ==
    /\ pc = "replace"
    /\ buffer' = <<>>
    /\ pending' = Flushed
    /\ IF CanClaim
       THEN Claim("replace", FALSE, FALSE)
       ELSE pc' = "idle" /\ UNCHANGED <<gate, op, taskVars, report>>
    /\ UNCHANGED <<holds, hooked, turnVars, completions, slots, kicks, historyVars>>

Shutdown ==
    \/ /\ pc = "idle" /\ "shutdown" \in CancelKinds
       /\ \/ CanClaim /\ Claim("shutdown", FALSE, TRUE)
          \/ pc' = "settleAll" /\ UNCHANGED <<gate, op, taskVars, report>>
       /\ UNCHANGED <<queueVars, turnVars, completions, deliveryVars, kicks, historyVars>>

-----------------------------------------------------------------------------
(***************************************************************************)
(* The teardown, under one hold of the state lock after several awaits.  A *)
(* cancel that named its prompt looks at the front again: it is still that *)
(* prompt, for only the loop takes the front of a turn away.               *)
(***************************************************************************)
\* Mutant: the queue is not kicked after a cancel.
AfterCancelIdle == IF op.kind = "shutdown" THEN "settleAll" ELSE "idle"

AfterCancel == IF op.kind = "shutdown" THEN "settleAll" ELSE "start"

\* The binding is not current any more: the handler gives up, and with it the
\* lease, which nobody finishes.
LoseLease ==
    /\ pc = "teardown" /\ Leased /\ ~LeaseCurrent
    /\ pc' = IF op.kind = "shutdown" THEN "settleAll" ELSE "idle"
    /\ op' = NoOp
    /\ UNCHANGED <<queueVars, turnVars, gate, report, taskVars, completions, deliveryVars, kicks,
                   historyVars>>

\* A user's cancel is reported; a send-now and a shutdown are not.
CancelReason == op.kind \in {"keep"} \cup RewindKinds \/ (op.kind = "hard" /\ op.stop)

Teardown ==
    LET hard == op.kind \in {"hard", "shutdown"}
        pops == op.kind = "legacy" /\ rewindable /\ Poppable(FrontRow)
        live == running # NoTurn
        epoch == IF Leased THEN op.lease.epoch ELSE report.epoch
        cause == IF hard THEN "hardTeardown" ELSE IF pops THEN "rewind" ELSE "softCancel"
        target == IF hard \/ pops \/ ~live THEN AllBindings(slots) ELSE {running}
        queue == WithFallbacks(pending, target, cause)
        front == IF queue = <<>> THEN {} ELSE {queue[1].row}
        wakes == IF op.stop /\ ~pops /\ ~hard THEN (QueuedRows(queue) \cap Wakes) \ front ELSE {}
        freed == IF live THEN ReleaseAborted(epoch) ELSE report
    IN /\ pc = "teardown"
       /\ Leased => LeaseCurrent
       /\ IF live THEN AbortTask ELSE UNCHANGED taskVars
       /\ report' = IF live /\ ~pops /\ CancelReason THEN Reported(freed, epoch, TRUE) ELSE freed
       /\ pending' = IF hard THEN <<>> ELSE Without(queue, front \cup wakes)
       /\ slots' = Remaining(slots, target)
       /\ answer' = Reply(wakes)
       /\ running' = IF Leased THEN running ELSE NoTurn
       /\ rewindable' = (rewindable /\ ~pops)
       /\ op' = [op EXCEPT !.torn = running,
                           !.rows = IF hard THEN QueuedRows(queue) ELSE front,
                           !.msgs = IdsOf(Completions(slots, target, cause)),
                           !.result = IF pops THEN "rewound" ELSE "cancelled"]
       /\ pc' = "settle"
       /\ UNCHANGED <<holds, hooked, pin, committed, gate, completions, buffer, kicks, seen>>

\* The rows and messages are answered and the lease is finished.  A popped
\* rewind of a named prompt tore down the turn without recording it, and
\* leaves the pin alone; the others clear it.  TurnCompleted closes the rewind
\* window of whatever turn runs by now.
Settle ==
    /\ pc = "settle"
    /\ answer' = Reply(op.rows \cup op.msgs)
    /\ pin' = IF pin \in {op.lease.prompt, op.torn.prompt} THEN NoRow ELSE pin
    /\ rewindable' = (rewindable /\ (op.torn = NoTurn \/ op.result = "rewound"))
    /\ running' = IF Leased THEN NoTurn ELSE running
    /\ gate' = (gate /\ ~Leased)
    /\ hooked' = (hooked /\ op.kind # "replace")
    /\ pc' = AfterCancel
    /\ op' = NoOp
    /\ UNCHANGED <<pending, holds, committed, report, taskVars, completions, deliveryVars,
                   kicks, seen>>

-----------------------------------------------------------------------------
(***************************************************************************)
(* A turn completes: handle_completion and the rest of its arm.            *)
(***************************************************************************)
\* claim_task_finalization
OwnsCompletion(c) == ~gate /\ AtFront /\ running = Turn(c.prompt, c.epoch)

DropStaleCompletion ==
    /\ pc = "idle" /\ completions # <<>>
    /\ ~OwnsCompletion(Head(completions))
    /\ completions' = Tail(completions)
    /\ UNCHANGED <<queueVars, turnVars, gate, report, taskVars, deliveryVars, loopVars, kicks,
                   historyVars>>

Complete ==
    LET c == Head(completions)
        target == {Turn(c.prompt, c.epoch)}
    IN /\ pc = "idle" /\ completions # <<>>
       /\ OwnsCompletion(c)
       /\ gate' = TRUE
       /\ completions' = Tail(completions)
       /\ pending' = Tail(WithFallbacks(pending, target, "completion"))
       /\ slots' = Remaining(slots, target)
       /\ answer' = Reply({c.prompt} \cup IdsOf(Completions(slots, target, "completion")))
       /\ report' = IF c.result = "cancelled" THEN Reported(report, report.epoch, FALSE) ELSE report
       /\ op' = Begun("completion", FALSE, running, {})
       /\ pc' = "complete"
       /\ UNCHANGED <<holds, hooked, turnVars, taskVars, buffer, kicks, seen>>

\* Mutant: the rewind window stays open after the turn.
FinishInWindow ==
    /\ pc = "complete"
    /\ running' = NoTurn /\ gate' = FALSE
    /\ pin' = IF pin = op.lease.prompt THEN NoRow ELSE pin
    /\ op' = NoOp
    /\ pc' = "strand"
    /\ UNCHANGED <<queueVars, rewindable, committed, report, taskVars, completions, deliveryVars,
                   kicks, historyVars>>

\* TurnCompleted is sent and the lease finished.
FinishCompletion ==
    /\ pc = "complete"
    /\ running' = NoTurn /\ gate' = FALSE /\ rewindable' = FALSE
    /\ pin' = IF pin = op.lease.prompt THEN NoRow ELSE pin
    /\ op' = NoOp
    /\ pc' = "strand"
    /\ UNCHANGED <<queueVars, committed, report, taskVars, completions, deliveryVars, kicks,
                   historyVars>>

\* Mutant: the buffer is copied, not drained.
FlushCopied ==
    /\ pc = "strand"
    /\ pending' = Flushed
    /\ pc' = "start"
    /\ UNCHANGED <<holds, hooked, turnVars, gate, report, taskVars, completions, deliveryVars, op,
                   kicks, historyVars>>

\* Interjections that the turn did not drain become turns of their own.
FlushStranded ==
    /\ pc = "strand"
    /\ pending' = Flushed
    /\ buffer' = <<>>
    /\ pc' = "start"
    /\ UNCHANGED <<holds, hooked, turnVars, gate, report, taskVars, completions, slots, op, kicks,
                   historyVars>>

-----------------------------------------------------------------------------
(***************************************************************************)
(* The session ends.                                                       *)
(***************************************************************************)
\* settle_all_parent_messages and drop_pending_synthetic_items
SettleAll ==
    LET all == AllBindings(slots)
        wakes == {r \in QueuedRows(pending) : RuntimeWake(r)}
    IN /\ pc = "settleAll"
       /\ answer' = Reply(wakes \cup IdsOf(Completions(slots, all, "hardTeardown")))
       /\ slots' = Remaining(slots, all)
       /\ pending' = Without(pending, wakes)
       /\ pc' = "stopped"
       /\ UNCHANGED <<holds, hooked, turnVars, gate, report, taskVars, completions, buffer, op, kicks,
                      seen>>

\* The command channel is closed.
CloseChannel ==
    LET all == AllBindings(slots)
    IN /\ pc = "idle" /\ "close" \in CancelKinds
       /\ answer' = Reply(IdsOf(Completions(slots, all, "actorDrop")))
       /\ slots' = Remaining(slots, all)
       /\ pc' = "stopped"
       /\ UNCHANGED <<queueVars, turnVars, gate, report, taskVars, completions, buffer, op, kicks, seen>>

\* The loop has returned: everything is dropped, and with a row its sender.
DropActor ==
    /\ pc = "stopped"
    /\ pc' = "gone" /\ op' = NoOp
    /\ pending' = <<>> /\ holds' = {} /\ hooked' = FALSE
    /\ running' = NoTurn /\ pin' = NoRow
    /\ rewindable' = FALSE /\ committed' = FALSE
    /\ gate' = FALSE /\ report' = [epoch |-> 0, state |-> "free"]
    /\ task' = NoTask /\ dying' = {} /\ completions' = <<>>
    /\ buffer' = <<>> /\ slots' = {}
    /\ kicks' = 0
    /\ answer' = Reply(Rows)
    /\ UNCHANGED seen

-----------------------------------------------------------------------------
(***************************************************************************)
(* The turn task.                                                          *)
(***************************************************************************)
At(place) == task.pc = place /\ pc # "gone"
GoTo(place) == task' = [NoTask EXCEPT !.pc = place]

\* What most steps of the task leave alone.
TaskStep == UNCHANGED <<holds, running, pin, gate, dying, loopVars, kicks>>

\* The user message is pushed to the chat state and marked as committed.
CommitMessage ==
    /\ At("prepare") /\ ~committed
    /\ committed' = TRUE
    /\ seen' = Shown({running.prompt} \cup Range(task.batch))
    /\ task' = [task EXCEPT !.batch = <<>>]
    /\ TaskStep
    /\ UNCHANGED <<pending, hooked, rewindable, report, completions, deliveryVars, answer>>

\* The conversation begins, under the scope guard.
BeginTurn ==
    /\ At("prepare") /\ committed
    /\ GoTo("run")
    /\ TaskStep
    /\ UNCHANGED <<queueVars, rewindable, committed, report, completions, deliveryVars, historyVars>>

\* A slash command or a shell command ends the turn without one.
EndEarly ==
    /\ At("prepare")
    /\ GoTo("done")
    /\ TaskStep
    /\ UNCHANGED <<queueVars, rewindable, committed, report, completions, deliveryVars, historyVars>>

\* A prompt hook blocks the prompt: the model never sees it, the queue is held.
BlockPrompt ==
    /\ At("prepare") /\ ~committed /\ "hooks" \in Features
    /\ running.prompt \in Prompts \cup Notes
    /\ hooked' = TRUE
    /\ GoTo("cancelled")
    /\ pin' = IF pin = running.prompt THEN NoRow ELSE pin
    /\ UNCHANGED <<pending, holds, running, rewindable, committed, gate, report, dying,
                   completions, deliveryVars, loopVars, kicks, historyVars>>

\* close_rewind_window: the first update of the turn goes out.
SendUpdate ==
    /\ At("prepare") \/ At("run")
    /\ rewindable /\ rewindable' = FALSE
    /\ TaskStep
    /\ UNCHANGED <<queueVars, committed, report, task, completions, deliveryVars, historyVars>>

\* promote_queued_as_interjections: the first rows behind the running one that
\* are plain prompts, not sent now and not being edited; hidden wakes are
\* skipped.  Nothing is promoted into a turn that a wake or a message started.
\* A shell command or another client's row may end the prefix earlier.
Promoted ==
    LET others == Kept(pending, {i \in DOMAIN pending : /\ pending[i].row # running.prompt
                                                        /\ ~RuntimeWake(pending[i].row)})
        plain(e) == Editable(e.row) /\ ~e.now /\ e.row \notin holds
        stops == {i \in DOMAIN others : ~plain(others[i])}
        prefix == SubSeq(others, 1, IF stops = {} THEN Len(others) ELSE Min(stops) - 1)
    IN IF running.prompt \in Wakes \cup Messages THEN <<>> ELSE [i \in DOMAIN prefix |-> prefix[i].row]

\* drain_interjections_at_safe_point, for the interjections: the batch is the
\* task's own until it is submitted.
DrainNotes ==
    /\ At("run")
    /\ \E k \in 0..(IF "steer" \in Features THEN Len(Promoted) ELSE 0) :
         LET rows == SubSeq(Promoted, 1, k)
         IN /\ buffer \o rows # <<>>
            /\ task' = [pc |-> "notes", batch |-> buffer \o rows]
            /\ pending' = Without(pending, Range(rows))
            /\ answer' = Merge(Range(rows))
    /\ buffer' = <<>>
    /\ TaskStep
    /\ UNCHANGED <<hooked, rewindable, committed, report, completions, slots, seen>>

SubmitNotes ==
    /\ At("notes")
    /\ seen' = Shown(Range(task.batch))
    /\ answer' = Reply(Range(task.batch))
    /\ task' = [NoTask EXCEPT !.pc = "run"]
    /\ TaskStep
    /\ UNCHANGED <<queueVars, rewindable, committed, report, completions, deliveryVars>>

\* The chat state is gone: the guard puts the batch back.
RestoreNotes ==
    /\ At("notes") /\ "outage" \in Features
    /\ buffer' = task.batch \o buffer
    /\ task' = [NoTask EXCEPT !.pc = "run"]
    /\ TaskStep
    /\ UNCHANGED <<queueVars, rewindable, committed, report, completions, slots, historyVars>>

\* drain_parent_messages_at_safe_point, up to the persistence barrier.
TakeMessages ==
    /\ At("run") /\ InPhase(slots, running, "pending") # {}
    /\ slots' = BeginDelivery(slots, running)
    /\ GoTo("barrier")
    /\ TaskStep
    /\ UNCHANGED <<queueVars, rewindable, committed, report, completions, buffer, historyVars>>

\* Behind the barrier, what is projecting now is shown.
DeliverMessages ==
    /\ At("barrier")
    /\ slots' = FinishDelivery(slots, running)
    /\ seen' = Shown(IdsOf(InPhase(slots, running, "projecting")))
    /\ GoTo("run")
    /\ TaskStep
    /\ UNCHANGED <<queueVars, rewindable, committed, report, completions, buffer, answer>>

\* The barrier fails: the messages stay as they are.
MissBarrier ==
    /\ At("barrier") /\ "outage" \in Features
    /\ GoTo("run")
    /\ TaskStep
    /\ UNCHANGED <<queueVars, rewindable, committed, report, completions, deliveryVars, historyVars>>

\* A tool result reported a completion the queue still wanted to announce.
ConsumeWake(w) ==
    /\ At("run") /\ Queued(w) /\ w # running.prompt
    /\ pending' = Without(pending, {w})
    /\ answer' = Reply({w})
    /\ TaskStep
    /\ UNCHANGED <<hooked, rewindable, committed, report, task, completions, deliveryVars, seen>>

\* The stop gate claims the report of the turn while its hooks run.
ClaimForGate ==
    /\ At("run") /\ "hooks" \in Features
    /\ report.state = "free"
    /\ report' = [report EXCEPT !.state = "gate"]
    /\ GoTo("gate")
    /\ TaskStep
    /\ UNCHANGED <<queueVars, rewindable, committed, completions, deliveryVars, historyVars>>

\* It reports the end, or it lets the turn go on and somebody else report.
LeaveGate ==
    \E state \in {"reported", "free"} :
        /\ At("gate")
        /\ report' = [report EXCEPT !.state = state]
        /\ GoTo("run")
        /\ TaskStep
        /\ UNCHANGED <<queueVars, rewindable, committed, completions, deliveryVars, historyVars>>

\* The conversation ends; the scope guard is dropped with it.
EndTurn ==
    \E result \in {"done", "cancelled", "failed"} :
        /\ At("run")
        /\ GoTo(result)
        /\ report' = IF result = "failed" THEN Reported(report, report.epoch, FALSE) ELSE report
        /\ pin' = IF pin = running.prompt THEN NoRow ELSE pin
        /\ UNCHANGED <<queueVars, running, rewindable, committed, gate, dying, completions,
                       deliveryVars, loopVars, kicks, historyVars>>

\* run_task sends the completion and is over.
SendCompletion ==
    /\ task.pc \in {"done", "cancelled", "failed"} /\ pc # "gone"
    /\ completions' = Append(completions, [prompt |-> running.prompt, epoch |-> running.epoch,
                                           result |-> task.pc])
    /\ task' = NoTask
    /\ TaskStep
    /\ UNCHANGED <<queueVars, rewindable, committed, report, deliveryVars, historyVars>>

-----------------------------------------------------------------------------
Init ==
    /\ pending = <<>> /\ holds = {} /\ hooked = FALSE
    /\ running = NoTurn /\ pin = NoRow
    /\ rewindable = FALSE /\ committed = FALSE
    /\ gate = FALSE
    /\ report = [epoch |-> 0, state |-> "free"]
    /\ task = NoTask /\ dying = {} /\ completions = <<>>
    /\ slots = {} /\ buffer = <<>>
    /\ pc = "idle" /\ op = NoOp
    /\ kicks = 0
    /\ answer = [r \in Rows |-> "new"] /\ seen = [r \in Rows |-> 0]

Arrivals ==
    \/ \E p \in Prompts : Prompt(p)
    \/ \E w \in Wakes : Wake(w)
    \/ \E m \in Messages : ParentMessage(m)
    \/ \E n \in Notes : Interject(n)

Cancels == CancelKeep \/ CancelNamed \/ CancelLegacy \/ Shutdown \/ CloseChannel

\* The steps by which the loop finishes what it is handling.
LoopStep ==
    \/ Start \/ Replace \/ LoseLease \/ Teardown \/ Settle
    \/ FinishCompletion \/ FlushStranded \/ SettleAll \/ DropActor

Background == DropAborted \/ Kick \/ \E r \in Resumes : ResumePushes(r)

TurnTask ==
    \/ CommitMessage \/ BeginTurn \/ EndEarly \/ BlockPrompt \/ SendUpdate
    \/ DrainNotes \/ SubmitNotes \/ RestoreNotes
    \/ TakeMessages \/ DeliverMessages \/ MissBarrier
    \/ (\E w \in Wakes : ConsumeWake(w))
    \/ ClaimForGate \/ LeaveGate \/ EndTurn \/ SendCompletion

Next ==
    \/ Arrivals \/ QueueEdit \/ Cancels
    \/ DropStaleCompletion \/ Complete
    \/ LoopStep \/ Background \/ TurnTask

Spec == Init /\ [][Next]_vars

-----------------------------------------------------------------------------
(***************************************************************************)
(* Fairness.  The loop carries a handler through, the runtime polls every  *)
(* task that can run, and a turn does not go on for ever.  The select of   *)
(* the loop prefers commands, so a completion is only handled if the       *)
(* clients pause now and then: strong fairness says they do.               *)
(***************************************************************************)
Fairness ==
    /\ WF_vars(LoopStep) /\ WF_vars(DropAborted) /\ WF_vars(Kick)
    /\ SF_vars(DropStaleCompletion \/ Complete)
    /\ WF_vars(CommitMessage) /\ WF_vars(BeginTurn \/ EndEarly)
    /\ WF_vars(SubmitNotes \/ RestoreNotes) /\ WF_vars(DeliverMessages \/ MissBarrier)
    /\ WF_vars(LeaveGate) /\ SF_vars(EndTurn) /\ WF_vars(SendCompletion)

FairSpec == Spec /\ Fairness

-----------------------------------------------------------------------------
(***************************************************************************)
(* Properties.                                                             *)
(***************************************************************************)
TaskPlaces == {"none", "prepare", "run", "notes", "barrier", "gate", "done", "cancelled", "failed"}
LoopPlaces == {"idle", "start", "replace", "teardown", "settle", "complete", "strand", "settleAll",
               "stopped", "gone"}
Turns == [prompt : Rows \cup {NoRow}, epoch : Nat]
Entries == [row : Rows, now : BOOLEAN]
Slots == [id : Messages, binding : Turns, phase : {"pending", "projecting", "delivered"}, at : Nat]

\* The state has its type.
TypeOK ==
    /\ pending \in Seq(Entries) /\ holds \subseteq Rows /\ hooked \in BOOLEAN
    /\ running \in Turns /\ pin \in Rows \cup {NoRow}
    /\ rewindable \in BOOLEAN /\ committed \in BOOLEAN
    /\ gate \in BOOLEAN
    /\ report \in [epoch : Nat, state : {"free", "gate", "reported"}]
    /\ task \in [pc : TaskPlaces, batch : Seq(Rows)]
    /\ dying \subseteq [prompt : Rows \cup {NoRow}, batch : Seq(Rows)]
    /\ completions \in Seq([prompt : Rows, epoch : Nat, result : {"done", "cancelled", "failed"}])
    /\ slots \subseteq Slots /\ buffer \in Seq(Rows)
    /\ pc \in LoopPlaces
    /\ op \in [kind : LeasedKinds \cup RewindKinds \cup {"none", "completion"}, stop : BOOLEAN,
               lease : Turns, torn : Turns, rows : SUBSET Rows, msgs : SUBSET Rows,
               result : {"none", "cancelled", "rewound"}]
    /\ kicks \in Nat
    /\ answer \in [Rows -> {"new", "rejected", "owed", "merged", "answered"}]
    /\ seen \in [Rows -> Nat]

\* The running turn's row stays first in the queue until the handler that ends
\* the turn has claimed it: no arrival, edit, sweep or fallback displaces it.
\* handle_completion and the cancel pop the front without looking.
FrontIsRunning ==
    running # NoTurn /\ ~gate /\ pc # "stopped" => AtFront

\* A row is in one place only: it cannot run as a turn and be merged into
\* another as well, nor be queued twice.
OnePlace ==
    /\ \A i, j \in DOMAIN pending : pending[i].row = pending[j].row => i = j
    /\ \A r \in Rows :
         Cardinality({place \in {<<"queue", QueuedRows(pending)>>, <<"buffer", Range(buffer)>>,
                                 <<"batch", Range(task.batch)>>, <<"slots", IdsOf(slots)>>,
                                 <<"handler", op.rows \cup op.msgs>>}
                                \cup {<<d.prompt, Range(d.batch)>> : d \in dying} :
                        r \in place[2] /\ ~(place[1] = "handler" /\ op.result = "none")}) <= 1

\* The pin, by which tools and interjections find the turn, never names another
\* turn than the one that runs: the debug_assert of the cancel's teardown.
PinNamesRunning == pin # NoRow /\ running # NoTurn => pin = running.prompt

\* The prompt that a send-now replaces has been shown to the model: a prompt
\* still in preparation is not destroyed unseen by the next one.
SendNowSparesUnseen ==
    pc = "settle" /\ op.kind = "replace" /\ op.torn # NoTurn => seen[op.torn.prompt] > 0

\* A prompt that a client takes back was running, and is not another one that
\* came to the front while the cancel was under way.
RewindTakesItsTurn ==
    [][op'.result = "rewound" /\ op.result = "none" => op'.rows = {running.prompt}]_vars

\* Some handler is ending a turn, and will finish its lease.
Finalizing ==
    \/ Leased /\ pc \in {"teardown", "settle"}
    \/ op.kind = "completion" /\ pc = "complete"

\* A claimed gate has a handler that will release it: a lease is finished, so
\* the queue does not stay blocked.
LeaseFinished == gate => Finalizing

\* A message in a slot belongs to the turn that runs.  No slot survives its
\* turn, in whichever of the ways it ends.
SlotsBoundToRunning == \A s \in slots : s.binding = running

\* A claim of the stop gate belongs to a task that is at the gate, and to the
\* turn that runs: the next turn never starts with the claim of an aborted one.
ClaimBelongsToTurn ==
    report.state = "gate" => task.pc = "gate" /\ report.epoch = running.epoch

\* When a user's cancel has torn down a turn, the end of that turn is reported,
\* even if the stop gate held the claim when the cancel came.
StoppedTurnReported ==
    /\ pc = "settle" /\ op.torn # NoTurn /\ op.result = "cancelled" /\ CancelReason
    /\ "hooks" \in Features /\ ~Subagent /\ report.epoch = op.torn.epoch
    => report.state = "reported"

\* No handler will open the gate again.
Wedged == gate /\ ~Finalizing

\* Every prompt, wake and message is answered in the end, unless a prompt hook
\* or the edit of a client holds the queue, when a person has to act, or a lost
\* lease has wedged it.  A row arrives once, so it is enough that again and
\* again nobody waits.
EveryInputAnswered ==
    []<>((\A r \in Rows : answer[r] # "owed") \/ hooked \/ holds # {} \/ Wedged)

(***************************************************************************)
(* The session implements the ledger.  A row waits in any place from which *)
(* it can still reach the model or its answer.                             *)
(***************************************************************************)
Holding ==
    QueuedRows(pending)
      \cup (IF task.pc = "prepare" /\ ~committed THEN {running.prompt} ELSE {})
      \cup IdsOf(slots) \cup Range(buffer) \cup Range(task.batch)
      \cup (UNION {Range(d.batch) : d \in dying})
      \cup op.rows \cup op.msgs

Stage(r) ==
    IF answer[r] \in {"new", "rejected"} THEN "new"
    ELSE IF seen[r] > 0 THEN IF seen[r] = 1 THEN "shown" ELSE "shown again"
    ELSE IF r \in Holding THEN "waiting" ELSE "withdrawn"

Ledger == INSTANCE InputLedger WITH
    Inputs <- Rows,
    Clients <- Prompts \cup Messages,
    stage <- [r \in Rows |-> Stage(r)],
    answered <- {r \in Rows : answer[r] \in {"merged", "answered"}}

\* Every step keeps the ledger's promise: no input is lost without an answer,
\* none is shown after it was given up, none is shown twice or waits again once
\* it was shown, however often it changes its place.
LedgerRefined == Ledger!Spec

====

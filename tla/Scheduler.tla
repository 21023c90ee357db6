----------------------------- MODULE Scheduler -----------------------------
(***************************************************************************)
(* The scheduler actor of a session and the writer of its state file.      *)
(*                                                                         *)
(* The actor keeps scheduled tasks in memory.  Tool calls snapshot the     *)
(* resources into the writer's channel, the writer debounces snapshots or, *)
(* on the actor's demand, writes one durably and acknowledges it.  A       *)
(* removal is persisted first and then published as a durable tombstone;   *)
(* if a stage fails the removal stays pending and blocks the actor until   *)
(* the same delete is retried.  A due loop is fired by spawning an         *)
(* iteration on the subagent coordinator, after asking whether the last    *)
(* one, and what it spawned, is over.                                      *)
(*                                                                         *)
(* Instants are abstracted: a task becomes due, and a recurring one        *)
(* expires, at some moment.  Which of several due tasks is first in the    *)
(* list is left open.                                                      *)
(***************************************************************************)
EXTENDS Integers, Sequences, FiniteSets

CONSTANTS
    Tasks,          \* task ids; an id is used once
    Legacy,         \* tasks that an older version may have left on disk, to fire once
    Kinds,          \* kinds of recurring tasks that are created
    Prompts,        \* prompts a task may have
    Iterations,     \* ids of subagents; an id is used once
    NoIter,         \* no subagent
    NoTask,         \* no task
    MaxTasks,       \* MAX_SCHEDULED_TASKS
    FreshEvery,     \* LOOP_FRESH_CHAIN_EVERY
    MaxRevision,    \* u64::MAX
    MaxQueue        \* bound: commands in the writer's channel; 0 leaves the writer out

ASSUME TaskAssumption ==
    /\ Legacy \subseteq Tasks /\ Kinds \subseteq {"durable", "plain", "foreground"}
    /\ NoTask \notin Tasks /\ NoIter \notin Iterations

ASSUME LimitAssumption ==
    /\ MaxTasks \in Nat \ {0} /\ FreshEvery \in Nat \ {0}
    /\ MaxRevision \in Nat /\ MaxRevision >= 2
    /\ MaxQueue \in Nat
    /\ IsFiniteSet(Tasks) /\ Cardinality(Tasks) <= MaxRevision

VARIABLES
    mem,        \* the tasks in memory: a function on the ids present
    blocked,    \* blocked_expiries
    clock,      \* SchedulerClock: generation and revision
    removal,    \* pending_removal: the task and the clock of its reservation
    pc, cur,    \* where the actor is, and the transition it is at
    target,     \* is the durable notification target open
    disk,       \* the state file
    chan,       \* the writer's channel
    debounced,  \* the writer's pending snapshot: at most one
    ack,        \* what the writer answered to the flush that the actor awaits
    coord,      \* the channel to the subagent coordinator
    iter,       \* the state of each iteration
    unit,       \* iterations with a live descendant
    watch,      \* iterations whose failure the guard task has still to see
    born,       \* ids that have been used
    due,        \* tasks whose next fire has come
    expired,    \* recurring tasks past their expiry
    removed     \* history: tasks whose tombstone or durable absence is announced

actorVars == <<mem, blocked, clock, removal, pc, cur>>
writerVars == <<disk, chan, debounced, ack>>
loopVars == <<coord, iter, unit, watch>>
timeVars == <<born, due, expired>>
vars == <<actorVars, target, writerVars, loopVars, timeVars, removed>>

-----------------------------------------------------------------------------
(***************************************************************************)
(* Values.                                                                 *)
(***************************************************************************)
\* A task: a loop in the background, whose expiry is durable or plain, one that
\* injects its prompt into the session ("foreground"), or a legacy one-shot
\* ("once"); its prompt; the last iteration; the length of the chain of
\* transcripts; and whether the next iteration has to begin a new chain.
Task(kind, prompt, anchor, age, reset) ==
    [kind |-> kind, prompt |-> prompt, anchor |-> anchor, age |-> age, reset |-> reset]

\* A task that has never fired.
NewTask(kind, p) == Task(kind, p, NoIter, 0, FALSE)

\* A transition under way: its task, why it runs, the task's record when it
\* began, the clock of its reservation, whether the last iteration is known to
\* have completed, and the subagent it is about to spawn.
At(task, why, rec, source, completed, sub) ==
    [task |-> task, why |-> why, rec |-> rec, source |-> source, completed |-> completed, sub |-> sub]

\* An iteration: its state, its loop and prompt, and whose transcript it resumed.
Iteration(state, task, prompt, resumes) ==
    [state |-> state, task |-> task, prompt |-> prompt, resumes |-> resumes]

NoRec == NewTask("none", "none")
Version(generation, revision) == [generation |-> generation, revision |-> revision]
Zero == Version(0, 0)
Idle == At(NoTask, "none", NoRec, Zero, FALSE, NoIter)
NoRemoval == [task |-> NoTask, source |-> Zero]

With(tasks, t, rec) == [x \in DOMAIN tasks \cup {t} |-> IF x = t THEN rec ELSE tasks[x]]
Without(tasks, t) == [x \in DOMAIN tasks \ {t} |-> tasks[x]]

(***************************************************************************)
(* The clock.  A reservation of n versions that does not fit under the     *)
(* largest revision starts a new generation.  Of a generation only its     *)
(* difference from the one before matters.                                 *)
(***************************************************************************)
\* Mutant: only the first version of a reservation is checked for overflow.
CommitChecked1(n) ==
    IF clock.revision + 1 <= MaxRevision THEN Version(clock.generation, clock.revision + n)
    ELSE Version(1 - clock.generation, n)

Commit(n) ==
    IF clock.revision + n <= MaxRevision THEN Version(clock.generation, clock.revision + n)
    ELSE Version(1 - clock.generation, n)

-----------------------------------------------------------------------------
(***************************************************************************)
(* The writer of the state file.                                           *)
(***************************************************************************)
Command(flush, snap, reply) == [flush |-> flush, snap |-> snap, reply |-> reply]

\* A tool call that ends, or persist_state, queues a snapshot of the resources.
Save ==
    /\ Len(chan) < MaxQueue
    /\ chan' = Append(chan, Command(FALSE, mem, FALSE))
    /\ UNCHANGED <<actorVars, target, disk, debounced, ack, loopVars, timeVars, removed>>

\* The writer takes a snapshot: it replaces the one that was pending.
TakeSave ==
    /\ chan # <<>> /\ ~Head(chan).flush
    /\ chan' = Tail(chan) /\ debounced' = {Head(chan).snap}
    /\ UNCHANGED <<actorVars, target, disk, ack, loopVars, timeVars, removed>>

\* Mutant: the older snapshot stays pending and is written after the new one.
DropPendingNever == debounced

\* SaveAndFlush forgets the pending snapshot, which is older.
DropPending == {}

\* write_json: the file afterwards.  A failure is logged and the snapshot lost.
Written(snap) == {snap, disk}

\* write_json_durable: the file and the result.  An error may come before or
\* after the rename.
DurablyWritten(snap) == {<<snap, "ok">>, <<snap, "err">>, <<disk, "err">>}

\* The writer writes a snapshot durably and acknowledges the result, if the
\* actor still waits.
Flush ==
    /\ chan # <<>> /\ Head(chan).flush
    /\ chan' = Tail(chan) /\ debounced' = DropPending
    /\ \E w \in DurablyWritten(Head(chan).snap) :
         disk' = w[1] /\ ack' = IF Head(chan).reply THEN w[2] ELSE ack
    /\ UNCHANGED <<actorVars, target, loopVars, timeVars, removed>>

\* The debounce timer, an explicit flush or the end of the channel writes the
\* pending snapshot.
Debounce ==
    /\ debounced # {}
    /\ debounced' = {}
    /\ \E snap \in debounced : disk' \in Written(snap)
    /\ UNCHANGED <<actorVars, target, chan, ack, loopVars, timeVars, removed>>

\* The actor queues a flush of the given tasks and waits for it.
EnqueueFlush(tasks) ==
    /\ Len(chan) < MaxQueue
    /\ chan' = Append(chan, Command(TRUE, tasks, TRUE))
    /\ ack' = "none"

\* The actor no longer waits: what is queued is still written.
Unawaited == [k \in DOMAIN chan |-> Command(chan[k].flush, chan[k].snap, FALSE)]

-----------------------------------------------------------------------------
(***************************************************************************)
(* Commands.  The actor handles one at a time, when it is idle.            *)
(***************************************************************************)
\* No command but the delete that is pending changes a task meanwhile.
Accepts == pc = "idle" /\ removal = NoRemoval

\* Create.  The tool creates recurring tasks only.
Create(t, kind, p) ==
    /\ Accepts /\ t \notin born /\ Cardinality(DOMAIN mem) < MaxTasks
    /\ mem' = With(mem, t, NewTask(kind, p)) /\ clock' = Commit(1)
    /\ born' = born \cup {t}
    /\ UNCHANGED <<blocked, removal, pc, cur, target, writerVars, loopVars, due, expired, removed>>

\* Mutant: a new prompt forgets the running iteration.
PatchedUnanchored(rec, p) ==
    IF p = rec.prompt THEN rec ELSE Task(rec.kind, p, NoIter, 0, TRUE)

\* Mutant: a new prompt goes on with the transcript of the old one.
PatchedChained(rec, p) == Task(rec.kind, p, rec.anchor, rec.age, rec.reset)

\* A new prompt starts a new transcript with the next fire.  The anchor stays,
\* so that the next fire still sees a running iteration.
Patched(rec, p) ==
    IF p = rec.prompt THEN rec ELSE Task(rec.kind, p, rec.anchor, 0, TRUE)

\* Update, of the prompt or the interval or both: with a new interval a task that
\* would be due is taken as fired now.
Update(t, p, interval) ==
    /\ Accepts /\ t \in DOMAIN mem
    /\ mem' = With(mem, t, Patched(mem[t], p)) /\ clock' = Commit(1)
    /\ due' = IF interval THEN due \ {t} ELSE due
    /\ UNCHANGED <<blocked, removal, pc, cur, target, writerVars, loopVars, born, expired, removed>>

\* Delete: the task leaves the memory and its removal is pending.
Delete(t) ==
    /\ Accepts /\ t \in DOMAIN mem /\ target
    /\ mem' = Without(mem, t) /\ due' = due \ {t}
    /\ removal' = [task |-> t, source |-> clock]
    /\ pc' = "complete" /\ cur' = At(t, "delete", NoRec, clock, FALSE, NoIter)
    /\ UNCHANGED <<blocked, clock, target, writerVars, loopVars, born, expired, removed>>

\* The same delete again.
RetryDelete ==
    /\ pc = "idle" /\ removal # NoRemoval
    /\ pc' = "complete" /\ cur' = At(removal.task, "delete", NoRec, removal.source, FALSE, NoIter)
    /\ UNCHANGED <<mem, blocked, clock, removal, target, writerVars, loopVars, timeVars, removed>>

\* complete_pending_removal gives up for good without a durable target.
AbandonRemoval ==
    /\ pc = "complete" /\ ~target
    /\ removal' = NoRemoval /\ pc' = "idle" /\ cur' = Idle
    /\ UNCHANGED <<mem, blocked, clock, target, writerVars, loopVars, timeVars, removed>>

\* Otherwise it first persists the absence of the task.
PersistRemoval ==
    /\ pc = "complete" /\ target
    /\ EnqueueFlush(mem) /\ pc' = "persist"
    /\ UNCHANGED <<mem, blocked, clock, removal, cur, target, disk, debounced, loopVars, timeVars, removed>>

-----------------------------------------------------------------------------
(***************************************************************************)
(* Expiry.                                                                 *)
(***************************************************************************)
\* Mutant: the timer also runs while a removal is pending.
SelectableAlways(t) == pc = "idle" /\ t \in DOMAIN mem \ blocked

\* The timer branch, which is disabled while a removal is pending, passes over
\* expiries that were blocked.
Selectable(t) == Accepts /\ t \in DOMAIN mem \ blocked

\* A durable expiry without a durable target waits for the next process.
BlockExpiry(t) ==
    /\ Selectable(t) /\ t \in expired /\ mem[t].kind = "durable" /\ ~target
    /\ blocked' = blocked \cup {t}
    /\ UNCHANGED <<mem, clock, removal, pc, cur, target, writerVars, loopVars, timeVars, removed>>

\* Otherwise it is removed without firing, and its absence is flushed.
ExpireDurable(t) ==
    /\ Selectable(t) /\ t \in expired /\ mem[t].kind = "durable" /\ target
    /\ mem' = Without(mem, t) /\ due' = due \ {t}
    /\ EnqueueFlush(Without(mem, t)) /\ pc' = "persist"
    /\ cur' = At(t, "expire", mem[t], clock, FALSE, NoIter)
    /\ UNCHANGED <<blocked, clock, removal, target, disk, debounced, loopVars, born, expired, removed>>

\* So is a plain one, but nothing depends on the outcome.
ExpirePlain(t) ==
    /\ Selectable(t) /\ t \in expired /\ mem[t].kind # "durable"
    /\ mem' = Without(mem, t) /\ due' = due \ {t}
    /\ EnqueueFlush(Without(mem, t)) /\ pc' = "announce"
    /\ cur' = At(t, "expire", mem[t], clock, FALSE, NoIter)
    /\ UNCHANGED <<blocked, clock, removal, target, disk, debounced, loopVars, born, expired, removed>>

\* Its removal is announced, after the flush or a warning that it failed or
\* took too long.
AnnounceExpiry ==
    /\ pc = "announce"
    /\ chan' = Unawaited /\ ack' = "none"
    /\ clock' = Commit(1) /\ pc' = "idle" /\ cur' = Idle
    /\ removed' = IF ack = "ok" THEN removed \cup {cur.task} ELSE removed
    /\ UNCHANGED <<mem, blocked, removal, target, disk, debounced, loopVars, timeVars>>

(***************************************************************************)
(* The stages of a delete or a durable expiry.                             *)
(***************************************************************************)
\* The absence is on disk: the tombstone is published.
Persisted ==
    /\ pc = "persist" /\ ack = "ok"
    /\ ack' = "none" /\ pc' = "publish"
    /\ UNCHANGED <<mem, blocked, clock, removal, cur, target, disk, chan, debounced, loopVars, timeVars, removed>>

\* It is not, or an error hides that it is: an expiry is undone and blocked, a
\* delete stays pending.
PersistFailed ==
    /\ pc = "persist" /\ ack = "err"
    /\ ack' = "none" /\ pc' = "idle" /\ cur' = Idle
    /\ IF cur.why = "expire"
       THEN mem' = With(mem, cur.task, cur.rec) /\ blocked' = blocked \cup {cur.task}
       ELSE UNCHANGED <<mem, blocked>>
    /\ UNCHANGED <<clock, removal, target, disk, chan, debounced, loopVars, timeVars, removed>>

\* The timeout or a shutdown ends the wait.  The outcome is unknown: an expiry is
\* not undone.
PersistUnknown ==
    /\ pc = "persist"
    /\ chan' = Unawaited /\ ack' = "none" /\ pc' = "idle" /\ cur' = Idle
    /\ UNCHANGED <<mem, blocked, clock, removal, target, disk, debounced, loopVars, timeVars, removed>>

\* The tombstone is in the log and acknowledged: the version is committed.
Published ==
    /\ pc = "publish" /\ target
    /\ removed' = removed \cup {cur.task}
    /\ clock' = Commit(1) /\ pc' = "idle" /\ cur' = Idle
    /\ removal' = IF cur.why = "delete" THEN NoRemoval ELSE removal
    /\ UNCHANGED <<mem, blocked, target, writerVars, loopVars, timeVars>>

\* The acknowledgement failed, was lost or is late, so the tombstone may be in
\* the log or not.  A delete can be retried; nobody retries an expiry.
PublishFailed ==
    /\ pc = "publish"
    /\ removed' \in {removed, removed \cup {cur.task}}
    /\ pc' = "idle" /\ cur' = Idle
    /\ UNCHANGED <<mem, blocked, clock, removal, target, writerVars, loopVars, timeVars>>

-----------------------------------------------------------------------------
(***************************************************************************)
(* Firing.                                                                 *)
(***************************************************************************)
\* A due task advances its cadence.  A one-shot, a foreground task, or a loop
\* without a coordinator injects its prompt into the session.
FireForeground(t) ==
    /\ Selectable(t) /\ t \in due \ expired
    /\ mem[t].kind \in {"once", "foreground"} \/ coord = "unwired"
    /\ due' = due \ {t}
    /\ IF mem[t].kind = "once" THEN mem' = Without(mem, t) /\ clock' = Commit(2)
                         ELSE mem' = mem /\ clock' = Commit(1)
    /\ UNCHANGED <<blocked, removal, pc, cur, target, writerVars, loopVars, born, expired, removed>>

\* A background loop first asks for its last iteration, if it has one.
FireLoop(t) ==
    /\ Selectable(t) /\ t \in due \ expired
    /\ mem[t].kind \notin {"once", "foreground"} /\ coord # "unwired"
    /\ due' = due \ {t}
    /\ cur' = At(t, "fire", mem[t], clock, FALSE, NoIter)
    /\ pc' = IF mem[t].anchor = NoIter THEN "spawn" ELSE "query"
    /\ UNCHANGED <<mem, blocked, clock, removal, target, writerVars, loopVars, born, expired, removed>>

\* A fire is skipped when a question is not answered, whatever the reason.
Skip ==
    /\ pc \in {"query", "units"}
    /\ pc' = "idle" /\ cur' = Idle
    /\ UNCHANGED <<mem, blocked, clock, removal, target, writerVars, loopVars, timeVars, removed>>

\* The coordinator answers: a running iteration skips the fire (as Skip does),
\* otherwise it counts as completed, unless it failed or its record is gone.
AskIteration ==
    /\ pc = "query" /\ coord = "open" /\ iter[cur.rec.anchor].state # "live"
    /\ pc' = "units"
    /\ \E completed \in {FALSE, iter[cur.rec.anchor].state = "done"} :
         cur' = At(cur.task, "fire", cur.rec, cur.source, completed, NoIter)
    /\ UNCHANGED <<mem, blocked, clock, removal, target, writerVars, loopVars, timeVars, removed>>

\* A child that works for a loop: an iteration, or a descendant of one.
Working(i) == iter[i].state = "live" \/ i \in unit

\* LoopUnitActive.
LoopUnitActive(t) == \E i \in Iterations : iter[i].task = t /\ Working(i)

\* No descendant works for the loop either.
AskUnits ==
    /\ pc = "units" /\ coord = "open" /\ ~LoopUnitActive(cur.task)
    /\ pc' = "spawn"
    /\ UNCHANGED <<mem, blocked, clock, removal, cur, target, writerVars, loopVars, timeVars, removed>>

\* Does the next iteration resume the transcript of the last one.
Resumes(rec, completed) == ~rec.reset /\ rec.age < FreshEvery /\ completed

\* An iteration changes its state.
Becomes(i, state) == [iter EXCEPT ![i] = Iteration(state, iter[i].task, iter[i].prompt, iter[i].resumes)]

\* The task is anchored at the iteration that is about to be spawned, under an
\* id that nobody has used.
Anchor(i) ==
    /\ pc = "spawn" /\ iter[i].state = "new"
    /\ iter' = Becomes(i, "named")
    /\ mem' = With(mem, cur.task,
                   Task(cur.rec.kind, mem[cur.task].prompt, i,
                        IF Resumes(cur.rec, cur.completed) THEN cur.rec.age + 1 ELSE 1, FALSE))
    /\ cur' = At(cur.task, "fire", cur.rec, cur.source, cur.completed, i)
    /\ pc' = "send"
    /\ UNCHANGED <<blocked, clock, removal, target, writerVars, coord, unit, watch, timeVars, removed>>

\* The spawn is sent, with a task that watches for its failure.
SendSpawn ==
    /\ pc = "send" /\ coord = "open"
    /\ iter' = [iter EXCEPT ![cur.sub] =
         Iteration("live", cur.task, cur.rec.prompt,
                   IF Resumes(cur.rec, cur.completed) THEN cur.rec.anchor ELSE NoIter)]
    /\ clock' = Commit(1) /\ pc' = "idle" /\ cur' = Idle
    /\ UNCHANGED <<mem, blocked, removal, target, writerVars, coord, unit, watch, timeVars, removed>>

\* What the spawn had changed is restored, the pending chain reset too.
RolledBack(now, before) == Task(now.kind, now.prompt, before.anchor, before.age, before.reset)

\* The coordinator is gone: the fire falls back to the foreground.
SendFails ==
    /\ pc = "send" /\ coord = "closed"
    /\ mem' = With(mem, cur.task, RolledBack(mem[cur.task], cur.rec))
    /\ clock' = Commit(1) /\ pc' = "idle" /\ cur' = Idle
    /\ UNCHANGED <<blocked, removal, target, writerVars, loopVars, timeVars, removed>>

\* The guard task clears the anchor of an iteration that ended with an error.
GuardClears(i) ==
    /\ i \in watch
    /\ watch' = watch \ {i}
    /\ mem' = [t \in DOMAIN mem |->
                 IF mem[t].anchor = i THEN Task(mem[t].kind, mem[t].prompt, NoIter, 0, mem[t].reset) ELSE mem[t]]
    /\ UNCHANGED <<blocked, clock, removal, pc, cur, target, writerVars, coord, iter, unit, timeVars, removed>>

-----------------------------------------------------------------------------
(***************************************************************************)
(* The environment: the coordinator and its children, time, the consumer   *)
(* of notifications, the end of the process.                               *)
(***************************************************************************)
\* The coordinator is wired after the toolset is built.
Wire ==
    /\ coord = "unwired" /\ coord' = "open"
    /\ UNCHANGED <<actorVars, target, writerVars, iter, unit, watch, timeVars, removed>>

\* An iteration ends, with or without an error.
IterationEnds(i) ==
    /\ iter[i].state = "live"
    /\ \/ iter' = Becomes(i, "done") /\ watch' = watch
       \/ iter' = Becomes(i, "failed") /\ watch' = watch \cup {i}
    /\ UNCHANGED <<actorVars, target, writerVars, coord, unit, timeVars, removed>>

\* A running iteration spawns a child in the background, which may outlive it.
Descend(i) ==
    /\ iter[i].state = "live" /\ unit' = unit \cup {i}
    /\ UNCHANGED <<actorVars, target, writerVars, coord, iter, watch, timeVars, removed>>

\* The last descendant of an iteration ends.
DescendantsEnd(i) ==
    /\ i \in unit /\ unit' = unit \ {i}
    /\ UNCHANGED <<actorVars, target, writerVars, coord, iter, watch, timeVars, removed>>

\* The coordinator dies with its children and its records.
Orphaned ==
    [i \in Iterations |->
       IF iter[i].state = "new" THEN iter[i]
       ELSE Iteration("lost", iter[i].task, iter[i].prompt, iter[i].resumes)]

\* The coordinator's loop ends, and with it every child and every reply.
CloseCoordinator ==
    /\ coord = "open" /\ coord' = "closed"
    /\ iter' = Orphaned /\ unit' = {}
    /\ UNCHANGED <<actorVars, target, writerVars, watch, timeVars, removed>>

\* The consumer of durable notifications goes away.
CloseTarget ==
    /\ target /\ target' = FALSE
    /\ UNCHANGED <<actorVars, writerVars, loopVars, timeVars, removed>>

\* A task becomes due, or reaches its expiry.
Tick(t) ==
    /\ t \in DOMAIN mem
    /\ \/ t \notin due /\ due' = due \cup {t} /\ expired' = expired
       \/ t \notin expired /\ mem[t].kind # "once" /\ expired' = expired \cup {t} /\ due' = due
    /\ UNCHANGED <<actorVars, target, writerVars, loopVars, born, removed>>

\* The cancel token: what remains is announced as removed by the shutdown, and
\* stays on disk.
Shutdown ==
    /\ pc = "idle" /\ pc' = "stopped"
    /\ clock' = IF DOMAIN mem = {} THEN clock ELSE Commit(Cardinality(DOMAIN mem))
    /\ UNCHANGED <<mem, blocked, removal, cur, target, writerVars, loopVars, timeVars, removed>>

\* The process ends, at any point, and another one loads the file, with a new
\* generation, and announces what it finds.
Restart ==
    /\ mem' = disk /\ blocked' = {} /\ removal' = NoRemoval
    /\ clock' = Version(1 - clock.generation, 0)
    /\ pc' = "idle" /\ cur' = Idle /\ target' = TRUE
    /\ chan' = <<>> /\ debounced' = {} /\ ack' = "none"
    /\ coord' = "unwired" /\ iter' = Orphaned /\ unit' = {} /\ watch' = {}
    /\ due' = {}
    /\ UNCHANGED <<disk, born, expired, removed>>

-----------------------------------------------------------------------------
Init ==
    /\ born \in SUBSET Legacy /\ disk \in [born -> {NewTask("once", p) : p \in Prompts}]
    /\ mem = disk /\ blocked = {} /\ clock = Zero /\ removal = NoRemoval
    /\ pc = "idle" /\ cur = Idle /\ target = TRUE
    /\ chan = <<>> /\ debounced = {} /\ ack = "none"
    /\ coord = "unwired" /\ unit = {} /\ watch = {}
    /\ iter = [i \in Iterations |-> Iteration("new", NoTask, "none", NoIter)]
    /\ due = {} /\ expired = {} /\ removed = {}

Writer == Save \/ TakeSave \/ Flush \/ Debounce

Commands ==
    \/ \E t \in Tasks, p \in Prompts, kind \in Kinds : Create(t, kind, p)
    \/ \E t \in Tasks, p \in Prompts, interval \in BOOLEAN : Update(t, p, interval)
    \/ \E t \in Tasks : Delete(t)
    \/ RetryDelete \/ AbandonRemoval \/ PersistRemoval

Timer ==
    \/ \E t \in Tasks : BlockExpiry(t) \/ ExpireDurable(t) \/ ExpirePlain(t) \/ FireForeground(t) \/ FireLoop(t)
    \/ AnnounceExpiry \/ Persisted \/ PersistFailed \/ PersistUnknown \/ Published \/ PublishFailed
    \/ Skip \/ AskIteration \/ AskUnits \/ (\E i \in Iterations : Anchor(i))
    \/ SendSpawn \/ SendFails

Environment ==
    \/ Wire \/ CloseCoordinator \/ CloseTarget \/ Shutdown \/ Restart
    \/ \E i \in Iterations : GuardClears(i) \/ IterationEnds(i) \/ Descend(i) \/ DescendantsEnd(i)
    \/ \E t \in Tasks : Tick(t)

Next == Writer \/ Commands \/ Timer \/ Environment

Spec == Init /\ [][Next]_vars

-----------------------------------------------------------------------------
(***************************************************************************)
(* Properties.                                                             *)
(***************************************************************************)
Records == [kind : Kinds \cup {"once"}, prompt : Prompts, anchor : Iterations \cup {NoIter}, age : 0..FreshEvery, reset : BOOLEAN]
Snapshots == UNION {[ts -> Records] : ts \in SUBSET Tasks}
Versions == [generation : {0, 1}, revision : 0..MaxRevision]
Places == {"idle", "complete", "announce", "persist", "publish", "query", "units", "spawn", "send", "stopped"}

\* The state has its type; in particular a revision never runs over.
TypeOK ==
    /\ mem \in Snapshots /\ disk \in Snapshots /\ blocked \subseteq Tasks
    /\ clock \in Versions /\ removal \in [task : Tasks \cup {NoTask}, source : Versions]
    /\ pc \in Places /\ target \in BOOLEAN
    /\ chan \in Seq([flush : BOOLEAN, snap : Snapshots, reply : BOOLEAN]) /\ Len(chan) <= MaxQueue
    /\ debounced \subseteq Snapshots /\ Cardinality(debounced) <= 1 /\ ack \in {"none", "ok", "err"}
    /\ coord \in {"unwired", "open", "closed"}
    /\ iter \in [Iterations -> [state : {"new", "named", "live", "done", "failed", "lost"}, task : Tasks \cup {NoTask},
                              prompt : Prompts \cup {"none"}, resumes : Iterations \cup {NoIter}]]
    /\ unit \subseteq Iterations /\ watch \subseteq Iterations
    /\ due \subseteq Tasks /\ expired \subseteq Tasks /\ removed \subseteq born /\ born \subseteq Tasks

\* A task is nowhere, and no snapshot under way can bring it back.
Gone(t) ==
    /\ t \notin DOMAIN mem /\ t \notin DOMAIN disk
    /\ \A snap \in debounced : t \notin DOMAIN snap
    /\ \A k \in DOMAIN chan : t \notin DOMAIN chan[k].snap

\* A task whose tombstone is in the log, or whose expiry was announced after
\* its absence was written, never comes back, though older snapshots of it were
\* queued, debounced or abandoned by a timeout, and wherever the process dies.
RemovalIsFinal == \A t \in removed : Gone(t)

\* The versions a transition has reserved are the next ones when it commits:
\* the assertion of commit_next.  A pending removal keeps its reservation from
\* one command to the next, until the actor stops.
ReservationFresh ==
    /\ removal # NoRemoval /\ pc # "stopped" => removal.source = clock
    /\ cur # Idle => cur.source = clock

\* An iteration resumes a transcript of its own prompt only: a prompt patched
\* once, twice or back, with a spawn that fails in between, never runs on the
\* transcript of another job.
ResumesOwnJob ==
    \A i \in Iterations :
      iter[i].resumes # NoIter => iter[iter[i].resumes].prompt = iter[i].prompt

\* Iterations of a loop do not overlap, with the descendants of an earlier one
\* either, unless that one failed.
OverlapsFailedOnly ==
    \A i, j \in Iterations :
      i # j /\ iter[i].task = iter[j].task /\ iter[i].state = "live" /\ Working(j)
        => iter[j].state = "failed"

\* The changelog: background loop iterations do not overlap when descendants
\* are still running.
NoOverlap ==
    \A i, j \in Iterations :
      i # j /\ iter[i].task = iter[j].task /\ iter[i].state = "live" => ~Working(j)
====

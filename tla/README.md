# TLA+ verification of the agent's coordination core

This directory holds TLA+ models of the parts of the agent that coordinate
concurrent work, TLC configurations that check them on small instances, and
TLAPS proofs of their most important invariants for every value of the
constants. Source paths below are relative to `src/packages/` unless they start
with `src/`; `task/` abbreviates
`tools/xai-grok-tools/src/implementations/grok_build/task/`.

## 1. Inventory

The repository is a coding agent: a terminal front end, a desktop front end, a
shell that runs sessions against a model, a tool set, and supporting libraries.
The parts that keep protocol state are these.

| Component | State | Operations | What is hard | What makes it correct |
|---|---|---|---|---|
| Subagent coordinator (`task/coordinator.rs`, `task/coordinator/*.rs`, `coordinator_state.rs`, `admission.rs`) | queued / pending / active / completed tables, run futures, waiters of four kinds, blocked sessions, teardown drains, buffered completions | spawn, cancel (id, prompt, session, workflow), teardown, query, drain wait, completions; started / finalizing / finished events of a run; timers | a select loop with six event sources; callers and tokens that go away between turns; sweeps that recurse through `finish_child` | limit never exceeded, no parked spawn next to a free slot, nobody waits for what cannot happen, a completion reaches the parent once, Stop and delete hold |
| Active messages (`task/active_message.rs`, `task/coordinator/active_message.rs`, `task/backend.rs`) | ingress permits, parked sends, per-child in-flight counter and phase, an atomic lease per message | send, admit, park, settle, finalize | the host commits in its own task while the actor's deadline, cancel or drop revokes | a definite answer stays true; a child is not finished under its messages; permits are conserved |
| Session turn scheduling (`coding-agent/xai-grok-shell/src/session/acp_session_impl/`: `run_loop.rs`, `prompt_queue.rs`, `turn_task.rs`, `turn_end.rs`, `tasks_cancel.rs`, `interjection.rs`, `parent_message.rs`, `turn_report_slot.rs`) | queue of inputs with holds, running turn, finalization gate, pin, turn report, interjection buffer, message slots | prompt, send now, interject, queue edits, wakes, messages of the parent, cancels, completions, shutdown | the loop awaits inside a handler, and the turn's task, aborted futures and background kicks run there | each input is shown once or withdrawn with an answer; front, pin, claim and slots belong to the running turn; the gate is opened again |
| Message delivery core (`coding-agent/xai-message-delivery-core/src/lifecycle.rs`) | deque of pending / projecting / delivered slots, each bound to a turn | admit, begin and finish delivery, terminal transition | a turn that ends by five causes between begin and finish | each admitted message ends as exactly one completion or one fallback |
| Prompt combining (`agent/xai-prompt-queue/src/combine.rs`) | none | which prefix of the queue is joined | grouping rules | order kept, nothing lost or doubled |
| Scheduler (`.../grok_build/scheduler/actor.rs`, `types.rs`) | tasks, versions, pending removal, blocked expiries, anchor of a loop's last iteration | create, update, delete, fire, expire, shut down, restart | persistence, acknowledgement and the log fail separately; a guard task beside the actor; a crash anywhere | an announced removal is final, a reserved version is not stale, loops neither overlap nor resume another job |
| Resources persistence (`tools/xai-grok-tools/src/persistence.rs`) | state file, channel of snapshots, one debounced snapshot | save, durable flush | older snapshots under way when a newer one is written | what was flushed is not overwritten by something older |
| Occurrence journal (`.../scheduler/occurrence_journal.rs`) | journal records | prepare, fire, acknowledge | crash between two records | not used by the actor yet, not modelled |
| Circuit breaker (`platform/xai-circuit-breaker/src/breaker.rs`, `window.rs`) | atomic state, window, probe counters | check, record, error_rate, is_open | atomics loaded outside the lock, several stores per transition, abandoned probes | bounded probes while half-open; lost probes do not shed traffic for ever; the mirror and the window counter agree with what they mirror |
| Subagent attempt store (`coding-agent/xai-grok-shell/src/agent/subagent/attempt_store/`) | attempt, intent and completion records | write, recover, rewind | crash between two writes | recovery yields a state before or after, never between |
| Single-flight login and token refresh (`coding-agent/xai-grok-shell/src/auth/`) | active attempt, generation, token, file lock | begin, end, cancel, submit, refresh | a late finisher of a replaced attempt; two processes | a stale finisher never clears its successor; one refresh at a time |
| Leader election (`coding-agent/xai-grok-shell/src/leader/`) | lock file, socket, clients | acquire, serve, hand over | crash of the leader, version skew | at most one leader, clients reconnect |
| Workflow engine and journal (`agent/xai-workflow/src/engine.rs`, `journal.rs`) | run journal, units | run, resume | replay after a crash | a resumed run does not repeat what it finished |
| Upload queue (`platform/xai-file-utils/src/queue.rs`) | bounded queue, retries | enqueue, upload, retry | failure and back-off | bounded, no item lost silently |
| Sampler, chat state, the conversation inside a turn (`coding-agent/xai-grok-shell/src/session/`, `ai/`) | messages, tool calls | sample, call tools, compact | I/O against a model service | for SessionTurns it is one running task |
| Tools, front ends, vendored code | - | - | - | no protocol state of their own |

How they interact: a session's Task tool sends `SubagentEvent`s over a channel
to the coordinator actor of the host and waits on oneshot channels; the
coordinator asks a host-supplied runner for each child's run future, and polls
it together with the channel, its internal events, progress polls and message
futures; a child's own session sends spawns to the same actor; messages to
running children pass a semaphore on the sender's side, the actor, and the
child's host, which inserts them under a lease into the child's session, where
they become slots of the running turn or rows of its queue; workflow runs and
the loops of the scheduler are clients of the same actor. The scheduler injects
foreground prompts into the session's queue and writes through the session's
resources writer.

`PROJECT.json` lists the hazards found, each at the line where it bites.

## 2. Plan

Done:

1. **SubagentCoordinator** with active messages, and its proofs in three modules,
   each on top of the one before: **SubagentCoordinatorProofs** (registry, queue
   order, Stop latch), **SubagentRecordProofs** (completions, waiters, the delete
   path, the exit of the loop), **SubagentMessageProofs** (messages, leases,
   permits, finalization, types).
2. **CircuitBreaker** and **CircuitBreakerProofs**.
3. **MessageDelivery**, **SessionTurns**, which composes it with the queue, the
   turn's task and the command loop, **InputLedger**, the abstract specification
   that SessionTurns implements, and its proofs, again one on top of the other:
   **SessionTurnsProofs** (report, slots, pin), **SessionQueueProofs** (types, the
   front of the queue, cancels, leases) and **SessionLedgerProofs** (the place of
   each row, the refinement of InputLedger).
4. **Scheduler** with the writer of the state file, and **SchedulerProofs**
   (finality of removals, freshness of reservations, types, overlap of iterations,
   transcripts).

Next, in this order:

5. An abstract specification of admission (a counting semaphore with a fair
   queue per session) that SubagentCoordinator implements.
6. **SingleFlight** (login attempts and generations), **AttemptStore** (crash
   between writes), **Leader**.

## 3. SubagentCoordinator

### What a step is

The code is one task that owns every table and runs a biased select loop
(`SubagentCoordinator::run`). One step of the module is one turn of that loop,
with every table update, reply, sweep and epilogue of the handler; or one step
of something that runs beside the actor: a caller or requester dropping its
receiver (`CallerDrops`, `AskerDrops`), another holder of a token cancelling it
(`CancelToken`), a sender taking a permit (`SendActiveMessage`), the child's
host claiming and committing a lease (`HostClaims`, `HostCommits`), the senders
going away (`CloseChannels`), the host dropping the actor (`ActorDropped`).

| Module | Code |
|---|---|
| `queued`, `arrival` | `queued: VecDeque`, as a set and the strict order of its positions |
| `pending`, `active`, `completed`, `runs`, `terminalOutputs` | the tables of the same names and the `FuturesUnordered` of runs |
| `buffered`, `finished` | pending completions, and the order in which records and summaries were appended (what the caps evict first) |
| `req`, `surfacing`, `handleOnly`, `defBackground`, `killed`, `cancelled` | fields of the child's record and its cancellation token |
| `caller` | the spawn's result oneshot: `none`, `waiting`, `gone` (receiver dropped, not yet noticed), `answered`, `handed` (interim backgrounded result), `dropped` |
| `delivery`, `result` | what `finish_child` decided about a completion |
| `blocked`, `teardownDrains`, `waiters`, `drainWaiters`, `wfWaiters`, `progress`, `closed` | the admission latch, the parked reply channels of each kind and whether their receivers are gone |
| `phase`, `inFlight`, `clean`, `fin` | `ActiveMessageLifecycle` and the runner's `finalizing()` |
| `msg*`, `lease`, `permits` | one element per send: where it is, what its sender was told, its admission lease, the ingress semaphore |

`SpawnStarts` / `SpawnEnqueues` / `SpawnFails` are the three decisions of
`handle_spawn`; `CancelOne`, `CancelParentPrompt`, `CancelParentSession`,
`CancelWorkflow` are the targets of the cancel command; `FinishChild` is
`finish_child` together with the queue sweep that ends it; `Reap` is
`reap_abandoned_callers`. `PROJECT.json` maps each definition to its lines.

### Abstractions

* Time: a timer may fire whenever it is armed. Deadlines are not compared.
* `reap_abandoned_callers` is the prologue of every command and timer turn. It
  is idempotent, so it is an action of its own, and those turns are enabled only
  where it has nothing to do (`Reaped`).
* A handler that only answers a request (an immediate query answer, type
  description, listing) changes no state and is a stuttering step.
* The sweep starts queued entries one at a time, in arrival order, recounting
  after each; `Startable` states in one set which entries that starts. In
  arrival order an entry starts iff its session has room for it and all its
  predecessors of the same session.
* Results are `done` or `cancelled`: the actor does not look further. Message
  text, prompts, descriptions and usage figures are dropped.
* The ids are fresh UUIDs in the program. The model offers an id again only when
  no table has it, so runs with small sets of ids still go round.
* A child's own session sends spawns only once the child was promoted
  (`SessionStarted`): before that no runner drives it.

### Properties and what they are for

* `SlotLimit`, `QueuedImpliesFull`, `RegistryConsistent`, `FifoPerSession`:
  admission. The second is the comment in `run()` that lets the loop leave
  without looking at the queue.
* `StopHolds`: Stop keeps the session's children from starting, from the queue
  as well, and those that a child of it spawns, which belong to the root session.
* `CompletionReachesParent`: delivery of results, at the caps too.
* `NoStrandedWaiter`, `TeardownHolds`, `TeardownWaitsForChildren`,
  `ExitIsQuiet`: waiters, the delete path and the exit of the loop.
* `NoLostCompletion`, `DefiniteAnswer`, `FinalizedIsSettled`,
  `PermitsAccounted`, and the type invariant, which ties the in-flight counter of
  a child to its messages: messages.
* `ForegroundCallerAnswered`, `MessageAnswered`, `ChildFinishes`: liveness.

## 4. CircuitBreaker

Storage clients on several threads share one breaker. `CircuitBreaker` models
each caller as a process with a program counter: `Check` loads the state,
`LoadOpened` / `CompareOpened` / `CasHalfOpen` / `StoreMirror` / `Reload` are
`check_open`, `Probe` is `try_half_open_probe`, `Record` / `LoadPrevState` /
`Sample` are `record`, `Trip` / `PublishOpen` / `LatchOpen` are `trip`, `Close` /
`ResetClosed` / `ClearWindow` are `close`, `ReadClock` / `ErrorRate` are
`error_rate`. The steps are cut where another caller can interfere: at every
load of an atomic outside the lock, at every lock acquisition, and between
stores that can be loaded without the lock (`opened_at_millis`, `state`,
`is_open_fast`). What only the lock holder touches (the probe counter and claim
time) changes in one step with its neighbours; so does the window, whose every
use is one critical section. An admitted caller may vanish without recording
(`Abandon`): a dropped future. The atomics use acquire and release orderings and
every write is under the mutex, so interleaving is the right granularity;
`is_open()` is a relaxed load of the mirror and only reads.

`claims` (admission times of the current half-open generation) is a history
variable: nothing reads it but the properties.

Properties: `MirrorMatches`, `ProbesBounded`, `RefusedForFreshClaim` (the promise
of the `probe_claimed_at_millis` comment, as safety: no refusal unless some probe
is younger than a lease) and `TypeOK`, which says among other things that the
failure counter of the window is the number of failures in it. That an Open
breaker holds no probe slot (the comment in `check_open` that justifies not
resetting the counter) is proved.

Behaviours of the model that a reader of the comments might not expect, and that
no property forbids:

* `check_open` judges the cool-down on an opening time it loaded before it takes
  the lock. If another caller meanwhile moves the breaker to HalfOpen, fails its
  probe and trips it again, the first caller's swap ends the fresh Open
  generation at once.
* A caller that reaches the lock after the generation has ended is reported as
  `on_probe_admission(false)` with all slots free.
* Timestamps are read before the window mutex is taken, so samples may be out of
  time order and an expired one can hide behind a live one.
* `record` acts on the state it loaded, so a success that loaded HalfOpen may
  close a breaker that has tripped since.

## 5. SessionTurns, MessageDelivery, InputLedger

### What a step is

`run_session` handles one command or completion at a time, but its handlers
await. `SessionTurns` cuts a handler at those awaits: each step is a stretch
without one, `pc` is the loop's place and `op` the cancel or completion it
carries. Between two steps of a handler the turn's task moves on, aborted
futures are dropped (`DropAborted`, with what their guards do), and spawned
tasks push rows or call `maybe_start_running_task` (`ResumePushes`, `Kick`).

| Module | Code |
|---|---|
| `pending`, `holds`, `hooked` | `pending_inputs` with the running turn's row first, `edit_holds`, `hook_block_hold` |
| `running`, `pin`, `rewindable`, `committed`, `gate` | `running_task`, `current_prompt_id`, the rewind eligibility, `front_message_committed`, `finalization_gate` |
| `report` | `TurnReportSlot`: epoch and `free` / `gate` / `reported` |
| `task`, `dying`, `completions` | the turn's future with the interjections it is about to submit, aborted futures, the completion channel |
| `slots`, `buffer` | `MessageDeliveryLifecycle`, `pending_interjections` |
| `answer`, `seen` | history: what became of each row's sender, how often the model was shown the row |

`StartTurn` is `maybe_start_running_task`; `Prompt`, `Wake`, `ParentMessage`,
`Interject` are the arrivals; `RemoveQueued` to `InterjectQueued` the queue
edits; `CancelKeep`, `CancelNamed`, `CancelLegacy`, `Replace`, `Shutdown` begin a
cancel, `Teardown`, `Settle`, `LoseLease` carry it out; `Complete`,
`FinishCompletion`, `FlushStranded` handle a completion;
`CommitMessage` to `SendCompletion` are the turn's task; `CloseChannel`,
`SettleAll`, `DropActor` end the session. `MessageDelivery` holds the operators
of the delivery core on a set of slots ordered by admission.

### Abstractions

* A row is its identity; text, attachments, owners and tool overrides are left
  out. How many rows `combine` joins is chosen among the admissible prefixes,
  and whether a prompt is a shell command or part of a goal is a choice.
* A session with `Messages` is a subagent's: only a parent sends them, and there
  an interrupt is not reported.
* The flush of several interjections is one step. A row, once answered, does not
  arrive again.
* The hold of an edit ends when its client releases it or at an expiry that
  nobody times: the code looks at it only when something kicks the queue.
* Epochs are those of the report slot. The second identity check of a named
  cancel, at its teardown, always succeeds in the model.

### What the model shows of the code, without a property

* A failed persistence barrier leaves a message projecting. A later drain of the
  same turn takes it up again; if there is none the parent gets the turn's
  result though the model never saw the message.
* A named rewind of a prompt in preparation leaves the pin, so an interjection
  is buffered while no turn runs. An interjection batch in flight at a user's
  stop is restored after the buffer was cleared and waits for the next turn. Its
  client was told that it is merged, so `EveryInputAnswered` does not speak of it.

### Properties

`FrontIsRunning`, `OnePlace`, `PinNamesRunning`, `SendNowSparesUnseen`,
`RewindTakesItsTurn`, `ClaimBelongsToTurn`, `StoppedTurnReported`,
`SlotsBoundToRunning`: what the loop, the task and the aborted futures all write
stays bound to the right turn. `LeaseFinished`: a claimed gate has a handler that
opens it. `EveryInputAnswered`: liveness.

`LedgerRefined` is the refinement: SessionTurns implements `InputLedger`, in
which an input waits, is then shown once or withdrawn, and whoever waits for a
withdrawn input has an answer. `Stage` maps a row to its stage from the seven
places it can be in; a row shown twice maps to a stage the ledger does not have.

### Finding

`LeaseFinished` holds without plan resumes (`session_queue`) and fails with them
(`session_lease`): an idle cancel claims the gate, a spawned resume queues its
row before the teardown, the cancel finds that its binding is no longer current
and returns without finishing its lease, and the gate stays claimed. The lease
is `#[must_use]`, and its drop only logs.

## 6. Scheduler

The actor of a session's scheduled tasks and loops, the writer of the state file
and, as environment, the coordinator, the durable log and time. A step is one
stretch of the actor between two awaits (`pc`: persisting, publishing, asking the
coordinator, spawning), one turn of the writer (`TakeSave`, `Flush`,
`Debounce`), or the guard task of an iteration (`GuardClears`).

| Module | Code |
|---|---|
| `mem`, `blocked`, `clock`, `removal` | the tasks in the resources, `blocked_expiries`, `SchedulerClock`, `pending_removal` |
| `pc`, `cur` | where the actor awaits, and the transition it carries with its reserved version |
| `disk`, `chan`, `debounced`, `ack` | the state file, the writer's channel and pending snapshot, the oneshot of the awaited flush |
| `target`, `coord` | is the durable notification target, the coordinator there |
| `iter`, `unit`, `watch` | iterations (an id is `named` from the anchor on, `live` once its spawn was sent), those with a live descendant, those whose guard has not acted yet |
| `removed` | history: tasks whose tombstone or durable absence was announced |

Failures: a write fails before or after its rename; a flush is answered late or
never (`PersistUnknown`, what is queued is still written); an acknowledgement
fails or is lost with the tombstone in the log or not (`PublishFailed`); the
coordinator or the target goes away; the process dies at any point (`Restart`
loads the file with a new generation, iterations of the old process are lost).
Not modelled: a power failure, an agent rebuilt inside its process, a session
without a state file, a writer that stopped, more than one target. A session with
background loops disabled is one whose coordinator is never wired.

What the model shows of the code, without a property: a failed tombstone of an
expiry is retried by nobody and its version is used again; an expiry whose
persistence has an unknown outcome vanishes without a tombstone; a legacy
one-shot is not flushed when it fires, so a restart may fire it again.

Properties: `RemovalIsFinal` (no older snapshot, queued, debounced or abandoned,
brings an announced removal back), `ReservationFresh` (the assertion in
`commit_next`, across the commands for which a removal stays pending), `TypeOK`
(the revision does not overflow), `ResumesOwnJob`, `OverlapsFailedOnly`.

Finding: `NoOverlap`, the changelog's "iterations no longer overlap when
descendant subagents are still running", fails after an iteration that ended with
an error (`scheduler_overlap`); `OverlapsFailedOnly` says that this is the only
case.

## 7. Runs

Each run takes the constants that make its question interesting and switches the
rest off (an empty set of messages, requesters, iterations or kinds removes the
corresponding actions), which keeps the state space within reach; between them
they take every action.

| Run | Instance | States | Shows |
|---|---|---|---|
| `admission` | 3 children, 1 session, limit 1 | 327k | two spawns queue behind one; every order of cancel, budget, drop, token, run end |
| `nested` | 2 children, requests from the session and from child `c1`, a workflow unit, limit behaviour Fail, one completed record, one buffered summary | 251k | re-keying, Stop against spawns of a child, late spawns of a finished child, rejection, eviction, reuse of ids, which channel a completion takes |
| `teardown` | a foreground task, which may be handed off, and a workflow unit, 1 requester, 2 summaries | 677k | Stop, delete, workflow cancel, queries, drain waits, exit |
| `messages` | 1 child, 2 messages, 2 permits, 1 in flight, fair | 75k | lease races, finalization, buffered output, saturation; every send is answered |
| `callers` | 2 children, limit 1, fair | 26k | liveness of foreground callers, queued or running, and of the queue |
| `breaker` | 2 callers, 2 slots, lease 2, window 1 with 2 entries, clock to 6 | 2.7M | overlapping transitions; two slots abandoned one after the other, reclaimed and raced for, over several generations; the window at its cap |
| `session_queue` | 2 prompts that may also be interjections, 1 wake, all edits, 4 kinds of cancel, hooks, goal, combining, steering, outage | 1.4M | the queue and the ends of a turn in every order |
| `session_delivery` | 2 messages for 1 slot, 1 plan resume, cancel, shutdown, closed channel, outage, fair | 301k | messages bound to turns; everybody is answered |
| `session_lease` | 1 prompt, 1 resume, one kind of cancel | - | the violation of section 5 |
| `scheduler_removal` | 2 tasks, durable, plain or legacy, 2 commands in the channel, revisions up to 2 | 2.4M | removals against snapshots, failures, time-outs and crashes; the version clock at its last revision |
| `scheduler_loops` | 1 task, 2 prompts, 3 iterations, fresh chain every 2 | 284k | chains of transcripts, patched prompts, failing spawns, the guard |
| `scheduler_overlap` | 1 task, 1 prompt, 2 iterations | - | the violation of section 6 |

Why these bounds are enough to be interesting: a limit of one with three
children gives a queue with an order; two children are the least with which a
child can end while another of its session runs, waits or is queued; two
messages at a per-child bound of one meet saturation, re-acquisition at start
and a last-message finish. Ids of children are reused, so histories are not
bounded by the number of ids. A probe comes no earlier than one lease after the
first trip and is reclaimed a lease later, so a clock of three leases reaches
reclaims and a re-trip; two callers suffice for more than two probes because an
abandoned probe keeps its slot while its caller comes back. Two prompts and a
wake give a running row, one behind it and one that may be dropped; each prompt
can come back as an interjection, which makes a third generation of rows. Two
messages at one slot meet a slot in use. Two commands in the writer's channel are
an older snapshot and the flush that must win over it; with the debounced one
there are three snapshots under way. Three iterations with a fresh chain every
second one reach the end of a chain, a resumed one and a failed one. The loops
runs leave the writer out (a channel of length 0), the removal run has no
iterations: neither property depends on the other half.

Symmetry is used only in runs without liveness and where no request names a
child. Deadlock is checked for the breaker only: actors may stop, and idle
actors with nothing to do are legal.

Each property has a mutant in the module (marked "Mutant:"), a plausible bug
that makes it fail.

## 8. Fairness

`FairSpec` of SubagentCoordinator assumes only what the runtime gives the actor:
it keeps taking turns
(`WF` on `Reap`, on progress polls, on message turns and on the message futures,
which have a deadline of their own) and its timers fire. A timer turn begins
with the reap that the model separates, so a timer can be disabled and enabled
again for ever by callers that keep leaving; the code's turn does both, hence
`SF` on the timer actions. Nothing is assumed of callers, hosts or child runs;
`ChildFinishes` alone has the premise `RunsEnd`, that each run ends. The select
is biased: a never-ending stream of ready internal events could postpone the
timers for ever. The fairness assumes it does not; this is a hazard without a
property.

`FairSpec` of SessionTurns assumes that the loop carries a handler through, that
the runtime drops aborted futures and polls the tasks that can run (`WF`), that a
turn ends (`SF` on `EndTurn`: it may go round its inner states, but not for
ever), and `SF` on completions: the select prefers commands, so a completion is
handled only if clients pause now and then. Nothing else is assumed of clients.

## 9. Proofs

`SubagentCoordinatorProofs` proves, for any finite, non-empty set of children, any
sessions, runs, messages and any positive limit (the named assumptions of
`SubagentCoordinator`):

* `RegistryInvariant`: `Spec => []RegistryInv`, the inductive invariant;
* `SlotLimitHolds`, `QueuedImpliesFullHolds`, `RegistryConsistentHolds`: its
  consequences that the run `admission` checks on three children;
* `FifoPerSessionHolds` and `StopLatchHolds`: the action properties
  `FifoPerSession` and `StopHolds`, from the same invariant.

Neither the limit nor the absence of a lost wake-up is inductive alone. A sweep
after a child ends must know that the queue is totally ordered by arrival
(`ArrivalOrder`), holds no workflow child, which would not be counted
(`QueuedAreTasks`), and shares no id with the running tables
(`RegistryConsistent`). The argument is one lemma, `SweepExact`: take the last
started entry of the session in arrival order; all the started ones are up to
it, so they fit. Take the first entry left behind; everything before it was
started and it did not fit, so the session is exactly full. That needs maximal
and minimal elements of a finite strict order (`MaximalExists`,
`MinimalExists`, from the well-foundedness of strict inclusion on finite sets).
Every step is one of six kinds (`RegistryTurn`, lemma `Turns`): it leaves the
registry alone; it finishes live children (all cancels, run ends, message ends
and the reap); it is a spawn, a promotion, a buffered output, or the drop of the
actor. Each theorem then needs one case per kind instead of one per action.
First-in first-out follows because the entries up to an earlier one are among
those up to a later one (`SweepIsFifo`); the Stop latch because `finish_child`
launches only what was parked, and a spawn passed the admission test with the
session it was re-keyed to.

`SubagentRecordProofs` proves what the coordinator owes to those who wait:
`RecordInvariant` with `CompletionReachesParentHolds`, `ParkedInvariant` with
`NoStrandedWaiterHolds` and `TeardownHoldsAlways`, and the action properties
`DeleteWaitsForChildren` and `ExitsQuietly`. Eight kinds of turn call
`finish_child`; what it does to each table is stated once (`FinishTables` and the
lemmas after it), and `FinishStep` collects those turns with what they agree on.
`CompletionReachesParent` becomes inductive with two facts: an id in the completed
table is not live (`FreshIds`), and the actor holds the sender of a result only
together with a live record (`ReplyHeldLive`), so the caller that `finish_child`
finds is the one of this child. That nobody is stranded (`ParkedInv`) is inductive
together with `TeardownHolds`: a drain is cleared in the very turn that takes the
last child of its session, and no child can join a session that is drained. The
proof sorts the turns into those that take nothing away (`Calm`), those that
finish children (`Takes`, with `ClearsDrained`), a spawn, a delete and the drop of
the actor. That a session with a live child has a running one, so a drain never
waits on a queue alone, is `QueuedImpliesFull` at work (`SessionRuns`).

`SubagentMessageProofs` proves the message half: `MessageInvariant` with
`DefiniteAnswerHolds`, `NoLostCompletionHolds` and `PermitsAccountedHolds`,
`LaneInvariant`, `CoordinatorTypeOK`, and `FinalizedIsSettledHolds`. A definite
answer stays true because a lease is open only while its future runs
(`LeaseFollowsFuture`): every turn that answers has claimed or revoked the lease
first. The in-flight counter is the number of futures of the child
(`InFlightCounted`), so a child whose counter is positive cannot leave the active
table. `LaneInv` says that a runner is told "settled" only with the admission
closed and the counter at zero. `FinalizedIsSettled` then needs to remember leases
that were claimed but never answered, on a child whose flag is no longer clean
(`ClaimsRemembered`), and that is true only while an id names one child. In the
program ids are fresh UUIDs; the model lets a forgotten id come round again. The
theorem therefore has the hypothesis `FreshSpawns` (no id is spawned again after a
message was admitted for it), and `RetentionKeepsIdsFresh` proves that hypothesis
from the specification wherever the coordinator remembers every completed child
(`Cardinality(Children) <= MaxCompleted`), as in the run `messages`.

`CircuitBreakerProofs` proves, for any callers, any positive number of slots and
any durations, `MirrorMatchesHolds`, `OpenHasNoProbesHolds`,
`ProbesBoundedHolds` and `RefusedForFreshClaimHolds`. The invariant has two
halves. `Transitions`: the lock's holder is exactly the caller at a step that
holds it, and the state it stored on the way is still the state, which makes the
mirror right when it unlocks. `ProbeLedger`: up to the limit the counter is the
number of admissions of the generation; beyond it, each further admission took
over the youngest lease after it expired, so all but the last admission are a
lease older than the last. Hence the unexpired ones are at most the counter in
the first case and at most one in the second (`LedgerBoundsProbes`), and a
refusal means that the last claim is young.
`BreakerTypeOK` proves the type invariant, of which the part that could be wrong is
the failure counter of the sliding window: `push` and `evict` adjust it entry by
entry (`WindowOK`). A window cut after n entries has the failures in front and
those behind, whose indices are shifted by n, so subtracting the former leaves the
number of the latter (`DroppedCounts`); `evict` drops the longest old prefix, which
exists because a bounded non-empty set of numbers has a maximum (`LargestExists`).

`SessionTurnsProofs` proves, for any rows, features, cancels and slots,
`TurnInvariant` and from it `ClaimBelongsHolds`, `SlotsBoundHolds` and
`StoppedReportedHolds`; and `PinHolds`. The invariant `TurnInv` ties everything
to the epoch of the turn that runs. `ClaimBelongsToTurn` alone is not inductive:
that a new turn starts without the claim of an aborted one needs that epochs
match (`EpochOfRunning`), that a task belongs to a turn (`TaskOfRunning`), that a
completion under way is of a task that is over (`Sent`), and that between the
step that takes a turn apart and the one that finishes its lease nothing of it is
left (`Closing`); that the end of a stopped turn is reported needs that it has no
task any more (`TornIsOver`). Every action is one of a few kinds: beside the turn
(`Aside`), a start, a move of the task, an abort, or one of the endings; each
kind has one lemma, and `Sorts` puts the actions into kinds. The pin follows
because it is set only where no turn runs or by the turn itself and cleared
everywhere else (`Pinned`, `Unpins`).

`SessionQueueProofs` goes on from there to what depends on the contents of the
queue. A filtered queue (`Kept`) and the order of the slots (`InOrder`) are read off
by rank, the n-th element being the one with n elements up to it, because the
provers know nothing of a recursive filter; the first section proves that every
rank occurs once (`RankExists`, `RankInjective`), which gives what `Without`,
`InOrder` and `Promoted` return. `Follows(q, p)` says that a queue made from another
keeps the running turn first; each operation on the queue has a lemma of that form.
`QueueInvariant` is `Typed` with `RunningLeads`: the running turn is first unless
its end was handled. `TypeOK` needs besides that the positions of the slots differ
(`Ordered`) and that a running turn's prompt is a row. It gives `SessionTypeOK` and,
with the closed gate of `TurnInv`, `FrontIsRunningHolds`. `CancelInvariant` adds what
the two cancels rely on over their awaits: a send-now found its turn committed and
nobody else ends it (`ReplacesCommitted`), a committed message was shown
(`CommittedSeen`), and an open rewind window is that of the running turn or of the
one whose cancel is being announced (`WindowOfTurn`); from it `SendNowSparesHolds` and
`RewindTakesHolds`. `LeaseFinishedHolds` has the hypothesis `Resumes = {}`: with plan
approvals the property is false (`session_lease`), and the theorem says that nothing
else wedges the gate.

`SessionLedgerProofs` proves that a row is in one place (`OnePlaceHolds`) and that
the session implements the ledger (`LedgerRefinement`), both from `PlaceInvariant`.
A row moves between `pending`, the interjection buffer, the batch that the task
drained, the slots, the cancel under way and the aborted futures, and most moves
are made by a different actor from the last one. That the places are disjoint
(`Separate`) and hold a row once (`Distinct`) is not inductive: a step could take in a
row a second time, put back the prompt of the turn that is running, or answer and
drop what nobody has seen. `PlaceInv` therefore also says that what is somewhere
was accepted (`PlacedAccepted`), so that an arrival is new to every place; that the
row of the running turn is nowhere but in the queue, and no longer there when only
its lease is left to finish (`TurnRow`), so that a drained batch never holds it and
a fallback never doubles it; that the author of a note has heard of it before it
can move (`Spoken`); that the rows a cancel carries are still in the queue or
answered until it decides (`HandlerRows`); and that what waits has not been shown
(`Unseen`), except the queued row of the running turn once it is committed. It rests
on `TurnInv` and `QueueInv`: who is running, and what is at the front.

The argument has three layers. Lemmas about sequences say what filtering, sorting,
appending and promoting do to the rows of a queue and keep them apart. All actions
but those that show rows to the model or start a turn are `Passes(N)`: rows move, the
rows N come in, nothing is shown, a turn may end but none starts; one lemma
(`PassesKeeps`) shows that such a step keeps `PlaceInv` and is a step of the ledger
(`LedgerStep`), and each action has a lemma saying that it passes. The commit of a
message, the submission of notes, the delivery of messages and the start of a turn
with its batch have lemmas of their own (`CommitKeeps`, `SubmitKeeps`, `DeliverKeeps`,
`StartTurnKeeps`). `StepKeeps` puts them together. For the refinement, `StageIs` reads
the stage of a row off its history and its places, and `LedgerNext` shows that
`LedgerStep` is a Take, Show or Withdraw of every row whose stage changes: an
accepted row that leaves every place without being shown was withdrawn, and if it
is a prompt or a message its sender has an answer; a row shown once stays shown.

`SchedulerProofs` proves `ReservationFreshHolds` and `RemovalFinalHolds`, for any
tasks, kinds, iterations, limits and any length of the writer's channel. The
first needs only that a fire or an expiry is under way while no removal is
pending (`Reasons`): then every commit either ends the one reservation there is
or finds none. The second needs to know where an announced task could still be.
`Sealed`: in the channel neither the flush that the actor awaits nor anything
behind it holds the task, because the task left the memory first; so when the
writer answers that flush, having dropped the debounced snapshot, the task is
nowhere, and it stays so until the tombstone is published. `Awaited`: at most one
flush is awaited, so an answer belongs to it. `Known` and `Undoable`: a task comes
into memory only if it is new or its expiry is undone, and neither was announced.
Each kind of step has a lemma (`AsideKeeps` to `RestartKeeps`).

Its second half proves `SchedulerTypeOK`, `OverlapsFailedOnlyHolds` and
`ResumesOwnJobHolds`. That iterations do not overlap is a fact about anchors: an
iteration that works and has not failed is the anchor of its task, also in the
record an expiry may write back (`Latest`); between the two questions and the spawn
nothing but a failed iteration's descendants works for the loop (`Alone`); the
iteration about to be sent is the anchor of its task and of no other (`Named`); and
every anchor in memory, in the channel, debounced or on disk is an id in use
(`UsedSnaps`), so a restart cannot bring a new iteration's id back. That a resumed
transcript is of the same job needs that, unless a reset is due, the anchor ran the
prompt of the record (`OwnChain`), in memory and in the record under way, and that
an iteration found completed stays what it was (`CompletedKept`).

Only model-checked: the liveness properties (`MessageAnswered`,
`ForegroundCallerAnswered`, `ChildFinishes`, `EveryInputAnswered`), because temporal
reasoning under fairness is beyond the prover. Everything else that a passing run
checks is proved.

## 10. Not modelled

Of the coordinator: `usage_not_applied_prompts`; list requests that fan one poll
out to several children; type validation and description; deadlines as instants
and the order in which the biased select polls its sources; what a child does
while it runs.

Of the breaker: `enabled = false`, the `retry_after` values, the registry, the
configuration parsing and the test-only `force_half_open`.

Of the session: the commands of the loop that do not touch turns (models, modes,
compaction, MCP, recaps), notifications and their suppression, the announcements
of aborts, the kick at startup, what a turn does against the model and its tools,
persistence of the conversation.

Of the scheduler: listing, instants and intervals, which of several due tasks is
first, and the faults named in section 6. The occurrence journal has no caller
but its tests.

The other components of the inventory are planned or left out as section 1 and
`PROJECT.json` say.

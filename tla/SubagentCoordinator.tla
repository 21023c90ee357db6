------------------------ MODULE SubagentCoordinator ------------------------
(***************************************************************************)
(* The subagent coordinator actor of the Task tool: admission of spawns    *)
(* under a per-session limit, the queue of parked spawns, the              *)
(* pending/active/completed registry, the callers and requesters waiting   *)
(* on it, Stop and session teardown, and the admission and finalization of *)
(* messages to active children.                                            *)
(*                                                                         *)
(* The code is one task that owns every table; a step of this module is    *)
(* one turn of its select loop, or one step of something that runs beside  *)
(* it (a caller dropping its receiver, a cancellation token, the host that *)
(* inserts a message under its lease).  Instants are abstracted: a timer   *)
(* of the actor may fire whenever it is armed.  A handler that only sends  *)
(* a reply is a stuttering step and has no action of its own.              *)
(***************************************************************************)
EXTENDS Integers, FiniteSets

CONSTANTS
  Children,       \* subagent ids; also stands for the session a child runs
  Sessions,       \* root parent sessions
  Prompts,        \* parent prompt ids
  RunIds,         \* workflow run ids
  Messages,       \* sends of active messages, one element per send
  Askers,         \* requesters that may park a reply channel in the actor
  Requests,       \* the spawn requests that may arrive
  HostSessions,   \* the sessions hosts stop, delete and send from
  MaxConcurrent,  \* SubagentLimits::max_concurrent after Admission::new
  FailAtLimit,    \* SubagentLimits::behavior = Fail
  MaxCompleted,   \* MAX_COMPLETED_ENTRIES
  MaxBuffered,    \* MAX_PENDING_COMPLETIONS; 0 when buffer_completions is off
  MaxInFlight,    \* MAX_ACTIVE_MESSAGE_ADMISSIONS_PER_CHILD
  MaxPermits,     \* capacity of the active-message ingress semaphore
  NoRun,          \* owner of a spawn that no workflow run owns
  AnySession      \* the absent parent_session_id of an unbound command

\* A parent_session_id: a root session, or the session of a child.
Owners == Sessions \cup Children

Scopes == Owners \X Prompts

Modes == {"background", "foreground", "completion"}

\* The fields of SubagentRequest the actor decides on.  "background" is
\* run_in_background, "completion" is await_to_completion.
Request == [session : Owners, prompt : Prompts, run : RunIds \cup {NoRun},
            mode : Modes, surface : BOOLEAN]

\* SubagentResult, as far as the actor looks: cancelled, or success or failure.
Outcomes == {"done", "cancelled"}

ASSUME ChildrenAssumption == IsFiniteSet(Children) /\ Children # {}
ASSUME LimitAssumption == MaxConcurrent \in Nat \ {0}
ASSUME BoundsAssumption ==
  /\ FailAtLimit \in BOOLEAN
  /\ MaxCompleted \in Nat
  /\ MaxBuffered \in Nat
  /\ MaxInFlight \in Nat \ {0}
  /\ MaxPermits \in Nat \ {0}
ASSUME RequestsAssumption == Requests \subseteq Request /\ Requests # {}
ASSUME HostSessionsAssumption == HostSessions \subseteq Owners
ASSUME NamesAssumption == NoRun \notin RunIds /\ AnySession \notin Owners
ASSUME MessagesAssumption == IsFiniteSet(Messages)

VARIABLES
  queued,          \* ids parked at the limit
  arrival,         \* strict order of queued: the VecDeque's positions
  pending, active, \* ids launched and not yet / already promoted
  completed,       \* ids with a completed record
  buffered,        \* ids whose completion summary awaits Completions
  finished,        \* order in which completed and buffered were appended to
  runs,            \* ids whose run future is not ready yet
  terminalOutputs, \* active ids whose output waits for in-flight messages
  req,             \* request of each recorded id, after reparenting
  surfacing,       \* ids with request.surface_completion still set
  caller,          \* what became of each spawn's result channel
  handleOnly,      \* ids whose caller no longer gates the turn
  defBackground,   \* active ids with definition_background
  killed,          \* ids with explicitly_killed
  cancelled,       \* ids whose cancellation token is cancelled
  result,          \* outcome recorded or buffered for an id
  delivery,        \* how the parent learned of a completion
  blocked,         \* spawn_blocked_sessions
  teardownDrains,  \* session -> responders of its teardown drain
  waiters,         \* id -> blocking queries
  drainWaiters,    \* prompt scope -> parked WaitPromptDrained
  wfWaiters,       \* run -> parked workflow cancels
  progress,        \* <<asker, id>> pairs with a progress future
  closed,          \* askers that dropped their receiver
  phase,           \* ActiveMessageLifecycle of an active id
  inFlight,        \* its in_flight counter
  clean,           \* its TerminalDrainDisposition is Clean
  fin,             \* the runner's finalizing() request and its answer
  msgState, msgTo, msgFrom, msgReply,
  lease,           \* ActiveMessageAdmissionLease of a message
  permits,         \* free ingress permits
  closing,         \* every sender of both channels is gone
  actor            \* "running", "exited" (loop left), "dropped"

registry == <<queued, arrival, pending, active, completed, buffered, finished>>
records  == <<req, surfacing, caller, handleOnly, defBackground, killed,
              cancelled, result, delivery>>
waits    == <<teardownDrains, waiters, wfWaiters, progress, closed>>
lanes    == <<phase, inFlight, clean, fin>>
msgs     == <<msgState, msgTo, msgFrom, msgReply, lease, permits>>
ends     == <<closing, actor>>
vars == <<registry, runs, terminalOutputs, records, blocked, waits,
          drainWaiters, lanes, msgs, ends>>

-----------------------------------------------------------------------------
(***************************************************************************)
(* State functions.                                                        *)
(***************************************************************************)
Live == queued \cup pending \cup active

IsWorkflow(c) == req[c].run # NoRun

\* belongs_to_session
BelongsTo(c, s) == s = AnySession \/ req[c].session = s

\* The sender half of the spawn's oneshot is still held by the actor.
HoldsReply(c) == caller[c] \in {"waiting", "gone"}

AwaitsInForeground(c) == req[c].mode = "foreground"

\* session_running_count counts these.
RunningOf(s, among) ==
  {c \in among : req[c].session = s /\ ~IsWorkflow(c)}

\* workflow_outstanding
OutstandingOf(r) == {c \in pending \cup active : req[c].run = r}

\* live_turn_blocking_ids
LiveTurnBlocking(scope) ==
  {c \in Live :
     /\ req[c].session = scope[1]
     /\ req[c].prompt = scope[2]
     /\ ~IsWorkflow(c)
     /\ IF c \in queued
        THEN HoldsReply(c) /\ req[c].mode # "background"
        ELSE c \notin handleOnly /\ c \notin defBackground}

\* Mutant: the await budget of a queued spawn only starts with its child.
DeadlineOnlyWhenStarted(c) ==
  AwaitsInForeground(c) /\ c \notin queued /\ c \notin handleOnly

\* foreground_deadline of a running child, QueuedCaller::deadline of a queued one.
DeadlineArmed(c) ==
  /\ AwaitsInForeground(c)
  /\ IF c \in queued THEN HoldsReply(c) ELSE c \notin handleOnly

\* What reap_abandoned_callers has left to do.
Abandoned == {c \in pending \cup active : caller[c] = "gone" /\ c \notin handleOnly}
AbandonedQueued == {c \in queued : caller[c] = "gone"}
CancelledQueued == queued \cap cancelled

\* Every command and every timer turn runs reap_abandoned_callers first, which
\* is idempotent and is a turn of its own (Reap).  So a command or a timer is
\* taken only where that prologue has nothing left to do.
Reaped ==
  /\ actor = "running"
  /\ Abandoned = {} /\ AbandonedQueued = {} /\ CancelledQueued = {}

\* A command arrives: some sender is still alive.
CommandTurn == Reaped /\ ~closing

\* The messages parked on a child.
Parked(c) == {m \in Messages : msgState[m] = "parked" /\ msgTo[m] = c}

IdleAsker(a) ==
  /\ \A c \in Children : a \notin waiters[c] /\ <<a, c>> \notin progress
  /\ \A scope \in Scopes : a \notin drainWaiters[scope]
  /\ \A r \in RunIds : a \notin wfWaiters[r]
  /\ \A s \in Owners : a \notin teardownDrains[s]

Least(i, j) == IF i <= j THEN i ELSE j

\* The n newest elements of S in the order ord.
Newest(S, ord, n) ==
  {c \in S : Cardinality({d \in S : <<c, d>> \in ord}) < n}

\* Mutants of the sweep: an off-by-one, the last entry first, no sweep.
StartableOffByOne(q, left) ==
  {c \in q : Cardinality(RunningOf(req[c].session, left)) + 1 < MaxConcurrent}

StartableLastFirst(q, left) ==
  {c \in q :
     Cardinality(RunningOf(req[c].session, left))
       + Cardinality({d \in q : /\ req[d].session = req[c].session
                                /\ d = c \/ <<c, d>> \in arrival})
     <= MaxConcurrent}

StartableNever(q, left) == {}

\* start_queued_within_capacity: the entries of the queue q that start when
\* the children of left keep running.  The sweep goes in arrival order, so an
\* entry starts iff its session has room for it and all its predecessors there.
Startable(q, left) ==
  {c \in q :
     Cardinality(RunningOf(req[c].session, left))
       + Cardinality({d \in q : /\ req[d].session = req[c].session
                                /\ d = c \/ <<d, c>> \in arrival})
     <= MaxConcurrent}

-----------------------------------------------------------------------------
Init ==
  /\ queued = {} /\ arrival = {} /\ pending = {} /\ active = {}
  /\ completed = {} /\ buffered = {} /\ finished = {}
  /\ runs = {} /\ terminalOutputs = {}
  /\ req \in [Children -> {CHOOSE r \in Requests : TRUE}]
  /\ surfacing = {} /\ handleOnly = {} /\ defBackground = {}
  /\ killed = {} /\ cancelled = {}
  /\ caller = [c \in Children |-> "none"]
  /\ result = [c \in Children |-> "done"]
  /\ delivery = [c \in Children |-> {}]
  /\ blocked = {}
  /\ teardownDrains = [s \in Owners |-> {}]
  /\ waiters = [c \in Children |-> {}]
  /\ drainWaiters = [scope \in Scopes |-> {}]
  /\ wfWaiters = [r \in RunIds |-> {}]
  /\ progress = {} /\ closed = {}
  /\ phase = [c \in Children |-> "open"]
  /\ inFlight = [c \in Children |-> 0]
  /\ clean = [c \in Children |-> TRUE]
  /\ fin = [c \in Children |-> "none"]
  /\ msgState = [m \in Messages |-> "idle"]
  /\ msgTo \in [Messages -> {CHOOSE c \in Children : TRUE}]
  /\ msgFrom \in [Messages -> {CHOOSE s \in Owners : TRUE}]
  /\ msgReply = [m \in Messages |-> "none"]
  /\ lease = [m \in Messages |-> "none"]
  /\ permits = MaxPermits
  /\ closing = FALSE /\ actor = "running"

-----------------------------------------------------------------------------
(***************************************************************************)
(* Effects shared by the turns.                                            *)
(***************************************************************************)

\* resolve_drain_waiters, the epilogue of every turn: a scope whose last
\* turn-blocking child is gone answers; the others prune closed receivers.
ResolveDrainWaiters(parked) ==
  drainWaiters' = [scope \in Scopes |->
                     IF LiveTurnBlocking(scope)' = {} THEN {}
                     ELSE parked[scope] \ closed']

\* The tables finish_child reads from a child's record.
Now == [req |-> req, caller |-> caller, handleOnly |-> handleOnly,
        surfacing |-> surfacing, buffered |-> buffered]

AllCancelled == [d \in Children |-> "cancelled"]

\* Mutant: a send to a caller that went away counts as delivered.
ForegroundDeliveredUnchecked(background, callerState) ==
  ~background /\ callerState \in {"waiting", "gone"}

\* The spawn's own caller takes the result in place of a later surfacing.
ForegroundDelivered(background, callerState) ==
  ~background /\ callerState = "waiting"

\* finish_child of the children of first, then of second, each in arrival
\* order, including the queued sweep that ends it.  A queued child never ran:
\* finish_never_started gives it a fresh record, backgrounded iff requested so.
FinishChild(first, second, out, t) ==
  LET gone  == first \cup second
      left  == (pending \cup active) \ gone
      q     == queued \ gone
      start == IF gone = {} THEN {} ELSE Startable(q, left)
      order == finished \cup ((completed \cup t.buffered) \X gone)
                 \cup (first \X second)
                 \cup {p \in arrival : p[1] \in gone /\ p[2] \in gone}
      kept  == Newest(completed \cup gone, order, MaxCompleted)
      unread == Newest(t.buffered \cup {d \in gone \cap t.surfacing : t.req[d].run = NoRun},
                       order, MaxBuffered)
      background(d) == IF d \in pending \cup active THEN d \in t.handleOnly
                       ELSE t.req[d].mode = "background"
      foreground(d) == ForegroundDelivered(background(d), t.caller[d])
      waited(d)     == waiters[d] \ closed # {}
      surfaced(d)   == /\ d \in t.surfacing /\ ~foreground(d) /\ ~waited(d)
                       /\ out[d] # "cancelled" /\ d \notin killed \cap (pending \cup active)
  IN
  /\ queued' = q \ start
  /\ arrival' = {p \in arrival : p[1] \in q \ start /\ p[2] \in q \ start}
  /\ pending' = (pending \ gone) \cup start
  /\ active' = active \ gone
  /\ runs' = (runs \ gone) \cup start
  /\ terminalOutputs' = terminalOutputs \ gone
  /\ completed' = kept
  /\ buffered' = unread
  /\ finished' = {p \in order : p[1] \in kept \cup unread /\ p[2] \in kept \cup unread}
  /\ caller' = [d \in Children |->
                  IF d \notin gone THEN t.caller[d]
                  ELSE CASE t.caller[d] = "waiting" -> "answered"
                         [] t.caller[d] = "gone"    -> "dropped"
                         [] OTHER                   -> t.caller[d]]
  /\ handleOnly' = (t.handleOnly \ gone)
                     \cup {d \in start : \/ t.req[d].mode = "background"
                                         \/ t.caller[d] \notin {"waiting", "gone"}}
  /\ defBackground' = defBackground \ gone
  /\ result' = [d \in Children |-> IF d \in gone THEN out[d] ELSE result[d]]
  /\ delivery' = [d \in Children |->
                    IF d \notin gone THEN delivery[d]
                    ELSE {w \in {"foreground", "waiter", "surfaced"} :
                            \/ w = "foreground" /\ foreground(d)
                            \/ w = "waiter" /\ waited(d)
                            \/ w = "surfaced" /\ surfaced(d)}]
  /\ waiters' = [d \in Children |-> IF d \in gone THEN {} ELSE waiters[d]]
  /\ wfWaiters' = [r \in RunIds |->
                     IF /\ \E d \in gone : t.req[d].run = r
                        /\ \A d \in left : t.req[d].run # r
                     THEN {} ELSE wfWaiters[r]]

\* Mutants: responders are never resolved; children still starting are missed.
DrainedNever(gone) == {}

DrainedWhenNoneActive(gone) ==
  {s \in Owners : /\ teardownDrains[s] # {}
                  /\ \E d \in gone : req[d].session = s
                  /\ \A d \in active \ gone : req[d].session # s}

\* resolve_teardown_drain_waiters for the sessions of the finished children.
Drained(gone) ==
  {s \in Owners : /\ teardownDrains[s] # {}
                  /\ \E d \in gone : req[d].session = s
                  /\ \A d \in Live \ gone : req[d].session # s}

\* clear_teardown_drain: the responders are answered and admission reopens.
ClearTeardownDrains(ss) ==
  /\ teardownDrains' = [s \in Owners |-> IF s \in ss THEN {} ELSE teardownDrains[s]]
  /\ blocked' = blocked \ ss

\* Reply to the parked messages of ids; the futures of a child that leaves
\* the active table keep a generation no active child will have again.
RejectSpawnReady(ids, leaving) ==
  LET hit == {m \in Messages : msgState[m] = "parked" /\ msgTo[m] \in ids}
      lost == {m \in Messages : msgState[m] = "inflight" /\ msgTo[m] \in leaving}
  IN
  /\ msgState' = [m \in Messages |-> IF m \in hit THEN "replied"
                                     ELSE IF m \in lost THEN "lost" ELSE msgState[m]]
  /\ msgReply' = [m \in Messages |-> IF m \in hit THEN "not_active" ELSE msgReply[m]]

\* The lifecycles of children that leave the active table.  Dropping one
\* answers a finalizing() that still waits, but its runner is gone by then.
DropLifecycles(leaving) ==
  /\ phase' = [c \in Children |-> IF c \in leaving THEN "open" ELSE phase[c]]
  /\ clean' = [c \in Children |-> c \in leaving \/ clean[c]]
  /\ fin' = [c \in Children |-> IF c \in leaving THEN "none" ELSE fin[c]]

-----------------------------------------------------------------------------
(***************************************************************************)
(* Spawn admission.                                                        *)
(***************************************************************************)

\* reparent_nested_spawn: a spawn sent from the session of an active child is
\* re-keyed to that child's parent and keeps its workflow lineage.
Reparented(r) ==
  IF r.session \in active
  THEN [r EXCEPT !.session = req[r.session].session,
                 !.surface = FALSE,
                 !.run = IF @ = NoRun THEN req[r.session].run ELSE @]
  ELSE r

\* A child's session sends spawns only once the child has been promoted: no
\* runner drives it before, and an id that never was has no session.
SessionStarted(s) == s \in Children => s \in active \cup completed

\* Mutants: only the spawner's own token is checked, not its session's latch;
\* a live id is taken again.
SpawnAcceptedUnlatched(c, r) ==
  /\ r.session # c /\ SessionStarted(r.session)
  /\ r.session \notin active \cap cancelled
  /\ c \notin Live \cup completed \cup buffered

SpawnAcceptedTwice(c, r) ==
  /\ r.session # c /\ SessionStarted(r.session)
  /\ r.session \notin active \cap cancelled
  /\ Reparented(r).run # NoRun \/ Reparented(r).session \notin blocked
  /\ c \notin completed \cup buffered

\* The early returns of handle_spawn.  Ids are fresh UUIDs, so an id is not
\* offered again while its last completion summary is still buffered.
SpawnAccepted(c, r) ==
  /\ r.session # c /\ SessionStarted(r.session)
  /\ r.session \notin active \cap cancelled
  /\ Reparented(r).run # NoRun \/ Reparented(r).session \notin blocked
  /\ c \notin Live \cup completed \cup buffered

\* The record a spawn starts from: a fresh token and a caller that waits.
Register(c, r) ==
  /\ req' = [req EXCEPT ![c] = r]
  /\ surfacing' = IF r.surface THEN surfacing \cup {c} ELSE surfacing \ {c}
  /\ killed' = killed \ {c}
  /\ cancelled' = cancelled \ {c}

\* Mutant: an off-by-one at the limit.
HasCapacityOffByOne(r) ==
  r.run # NoRun \/ Cardinality(RunningOf(r.session, pending \cup active)) <= MaxConcurrent

\* Admission::admit: workflow children draw on their run's pool.
HasCapacity(r) ==
  r.run # NoRun \/ Cardinality(RunningOf(r.session, pending \cup active)) < MaxConcurrent

\* handle_spawn, AdmissionDecision::Start (start_child, StartOrigin::Direct)
SpawnStarts(c, r) ==
  LET r1 == Reparented(r) IN
  /\ CommandTurn
  /\ SpawnAccepted(c, r)
  /\ HasCapacity(r1)
  /\ pending' = pending \cup {c}
  /\ runs' = runs \cup {c}
  /\ Register(c, r1)
  /\ caller' = [caller EXCEPT ![c] = "waiting"]
  /\ handleOnly' = IF r1.mode = "background" THEN handleOnly \cup {c} ELSE handleOnly \ {c}
  /\ UNCHANGED <<queued, arrival, active, completed, buffered, finished,
                 terminalOutputs, defBackground, result, delivery, blocked,
                 waits, lanes, msgs, ends>>
  /\ ResolveDrainWaiters(drainWaiters)

\* handle_spawn, AdmissionDecision::Enqueue
SpawnEnqueues(c, r) ==
  LET r1 == Reparented(r) IN
  /\ CommandTurn
  /\ SpawnAccepted(c, r)
  /\ ~HasCapacity(r1) /\ ~FailAtLimit
  /\ queued' = queued \cup {c}
  /\ arrival' = arrival \cup (queued \X {c})
  /\ Register(c, r1)
  /\ caller' = [caller EXCEPT ![c] = "waiting"]
  /\ UNCHANGED <<pending, active, completed, buffered, finished, runs,
                 terminalOutputs, handleOnly, defBackground, result, delivery,
                 blocked, waits, lanes, msgs, ends>>
  /\ ResolveDrainWaiters(drainWaiters)

\* handle_spawn, AdmissionDecision::Reject: a record that never ran is finished.
\* Admission was open, so its session has no teardown drain to resolve.
SpawnFails(c, r) ==
  LET r1 == Reparented(r)
      t  == [Now EXCEPT !.req = [req EXCEPT ![c] = r1],
                        !.caller = [caller EXCEPT ![c] = "waiting"],
                        !.surfacing = IF r1.surface THEN surfacing \cup {c}
                                      ELSE surfacing \ {c}]
  IN
  /\ CommandTurn
  /\ SpawnAccepted(c, r)
  /\ ~HasCapacity(r1) /\ FailAtLimit
  /\ Register(c, r1)
  /\ FinishChild({}, {c}, [d \in Children |-> "done"], t)
  /\ UNCHANGED <<blocked, teardownDrains, progress, closed, lanes, msgs, ends>>
  /\ ResolveDrainWaiters(drainWaiters)

HandleSpawn(c, r) == SpawnStarts(c, r) \/ SpawnEnqueues(c, r) \/ SpawnFails(c, r)

-----------------------------------------------------------------------------
(***************************************************************************)
(* Cancellation, Stop and teardown.                                        *)
(***************************************************************************)

\* The common shape of the cancel commands: tokens of the running children of
\* sel are cancelled, the parked messages of the others are rejected, and the
\* queued ones are removed and finished as cancelled (remove_queued).
CancelChildren(sel, t) ==
  /\ cancelled' = cancelled \cup (sel \ queued)
  /\ RejectSpawnReady(sel \ active, {})
  /\ FinishChild({}, sel \cap queued, AllCancelled, t)
  /\ UNCHANGED <<req, progress, lanes, msgTo, msgFrom, lease, permits, ends>>

\* SubagentCancelTarget::SubagentId (cancel_one, explicit)
CancelOne(c, s) ==
  /\ CommandTurn
  /\ c \in Live /\ BelongsTo(c, s)
  /\ killed' = IF c \in queued THEN killed ELSE killed \cup {c}
  /\ CancelChildren({c}, Now)
  /\ ClearTeardownDrains(Drained({c} \cap queued))
  /\ UNCHANGED <<surfacing, closed>>
  /\ ResolveDrainWaiters(drainWaiters)

\* SubagentCancelTarget::ParentPromptId
CancelParentPrompt(p, s) ==
  LET sel == {c \in Live : req[c].prompt = p /\ BelongsTo(c, s)} IN
  /\ CommandTurn
  /\ sel # {}
  /\ CancelChildren(sel, Now)
  /\ ClearTeardownDrains(Drained(sel \cap queued))
  /\ UNCHANGED <<surfacing, killed, closed>>
  /\ ResolveDrainWaiters(drainWaiters)

\* SubagentCancelTarget::ParentSession, the user's Stop: admission closes and
\* every child of the session that no workflow owns is cancelled.
CancelParentSession(s) ==
  LET sel == {c \in Live : req[c].session = s /\ ~IsWorkflow(c)}
      cleared == Drained(sel \cap queued)
  IN
  /\ CommandTurn
  /\ CancelChildren(sel, Now)
  /\ teardownDrains' = [o \in Owners |-> IF o \in cleared THEN {} ELSE teardownDrains[o]]
  /\ blocked' = (blocked \cup {s}) \ cleared
  /\ UNCHANGED <<surfacing, killed, closed>>
  /\ ResolveDrainWaiters(drainWaiters)

\* SubagentCancelTarget::WorkflowRunId: the reply waits for the run's children
\* to finish.  cancel_workflow_children leaves the queue alone.
CancelWorkflow(r, s, a) ==
  LET sel == {c \in pending \cup active : req[c].run = r /\ BelongsTo(c, s)} IN
  /\ CommandTurn
  /\ IdleAsker(a)
  /\ OutstandingOf(r) # {}
  /\ cancelled' = cancelled \cup sel
  /\ RejectSpawnReady(sel \ active, {})
  /\ wfWaiters' = [wfWaiters EXCEPT ![r] = @ \cup {a}]
  /\ closed' = closed \ {a}
  /\ UNCHANGED <<registry, runs, terminalOutputs, req, surfacing, caller,
                 handleOnly, defBackground, killed, result, delivery, blocked,
                 teardownDrains, waiters, progress, lanes, msgTo, msgFrom,
                 lease, permits, ends>>
  /\ ResolveDrainWaiters(drainWaiters)

\* SubagentEvent::TeardownSession.  by is the asker of the delete path, or {}
\* for close and idle unload.  Only the delete path closes admission, and only
\* while children are left (begin_teardown_drain).
TeardownSession(s, by) ==
  LET sel     == {c \in Live : req[c].session = s}
      hold    == by # {} /\ sel \ queued # {}
      cleared == Drained(sel \cap queued)
  IN
  /\ CommandTurn
  /\ \A a \in by : IdleAsker(a)
  /\ CancelChildren(sel, [Now EXCEPT !.surfacing = surfacing \ sel,
                                     !.buffered = {c \in buffered : req[c].session # s}])
  /\ surfacing' = surfacing \ sel
  /\ teardownDrains' = [o \in Owners |->
                          IF o = s /\ hold THEN teardownDrains[o] \cup by
                          ELSE IF o \in cleared THEN {} ELSE teardownDrains[o]]
  /\ blocked' = (blocked \ cleared) \cup (IF hold THEN {s} ELSE {})
  /\ closed' = IF hold THEN closed \ by ELSE closed
  /\ UNCHANGED killed
  /\ ResolveDrainWaiters(drainWaiters)

\* Mutant: the next turn reopens admission in mid-delete.
OpenSpawnAdmissionAlways(s) ==
  /\ CommandTurn
  /\ s \in blocked
  /\ blocked' = blocked \ {s}
  /\ UNCHANGED <<registry, runs, terminalOutputs, records, waits, lanes, msgs, ends>>
  /\ ResolveDrainWaiters(drainWaiters)

\* SubagentEvent::OpenSpawnAdmission (next turn), held off by a teardown drain.
OpenSpawnAdmission(s) ==
  /\ CommandTurn
  /\ s \in blocked /\ teardownDrains[s] = {}
  /\ blocked' = blocked \ {s}
  /\ UNCHANGED <<registry, runs, terminalOutputs, records, waits, lanes, msgs, ends>>
  /\ ResolveDrainWaiters(drainWaiters)

-----------------------------------------------------------------------------
(***************************************************************************)
(* Queries, drains and completions.                                        *)
(***************************************************************************)

\* handle_query that does not answer at once: a blocking one parks, a
\* non-blocking one on an active child polls the child's progress.
HandleQuery(a, c, block) ==
  /\ CommandTurn
  /\ IdleAsker(a)
  /\ c \in Live /\ (c \in queued \/ ~IsWorkflow(c))
  /\ block \/ c \in active
  /\ waiters' = IF block THEN [waiters EXCEPT ![c] = @ \cup {a}] ELSE waiters
  /\ progress' = IF block THEN progress ELSE progress \cup {<<a, c>>}
  /\ closed' = closed \ {a}
  /\ UNCHANGED <<registry, runs, terminalOutputs, records, blocked,
                 teardownDrains, wfWaiters, lanes, msgs, ends>>
  /\ ResolveDrainWaiters(drainWaiters)

\* finish_progress: the reply is sent whether or not the child is still active.
FinishProgress(a, c) ==
  /\ actor = "running"
  /\ <<a, c>> \in progress
  /\ progress' = progress \ {<<a, c>>}
  /\ UNCHANGED <<registry, runs, terminalOutputs, records, blocked,
                 teardownDrains, waiters, wfWaiters, closed, lanes, msgs, ends>>
  /\ ResolveDrainWaiters(drainWaiters)

\* SubagentEvent::WaitPromptDrained with turn-blocking children in the scope.
WaitPromptDrained(a, scope) ==
  /\ CommandTurn
  /\ IdleAsker(a)
  /\ LiveTurnBlocking(scope) # {}
  /\ closed' = closed \ {a}
  /\ UNCHANGED <<registry, runs, terminalOutputs, records, blocked,
                 teardownDrains, waiters, wfWaiters, progress, lanes, msgs, ends>>
  /\ ResolveDrainWaiters([drainWaiters EXCEPT ![scope] = @ \cup {a}])

\* SubagentEvent::Completions takes the buffered summaries of a session.
Completions(s) ==
  /\ CommandTurn
  /\ \E c \in buffered : BelongsTo(c, s)
  /\ buffered' = {c \in buffered : ~BelongsTo(c, s)}
  /\ finished' = {p \in finished : /\ p[1] \in completed \cup buffered'
                                   /\ p[2] \in completed \cup buffered'}
  /\ UNCHANGED <<queued, arrival, pending, active, completed, runs,
                 terminalOutputs, records, blocked, waits, lanes, msgs, ends>>
  /\ ResolveDrainWaiters(drainWaiters)

-----------------------------------------------------------------------------
(***************************************************************************)
(* The child's run: promotion, finalization and its output.                *)
(***************************************************************************)

\* InternalEvent::Started while the token is live: the child is promoted and
\* the parked messages re-acquire permits; those that find no permit, or more
\* than the child admits at once, are answered as saturated.
Started(c, background) ==
  LET room == Least(Cardinality(Parked(c)), Least(permits, MaxInFlight)) IN
  /\ actor = "running"
  /\ c \in pending \cap runs /\ c \notin cancelled
  /\ pending' = pending \ {c}
  /\ active' = active \cup {c}
  /\ defBackground' = IF background THEN defBackground \cup {c} ELSE defBackground \ {c}
  /\ \E A \in SUBSET Parked(c) :
       /\ Cardinality(A) = room
       /\ msgState' = [m \in Messages |-> IF m \in A THEN "inflight"
                                          ELSE IF m \in Parked(c) THEN "replied"
                                          ELSE msgState[m]]
       /\ msgReply' = [m \in Messages |-> IF m \in Parked(c) \ A THEN "saturated"
                                          ELSE msgReply[m]]
       /\ lease' = [m \in Messages |-> IF m \in A THEN "open" ELSE lease[m]]
       /\ permits' = permits - Cardinality(A)
       /\ inFlight' = [inFlight EXCEPT ![c] = Cardinality(A)]
  /\ phase' = [phase EXCEPT ![c] = "open"]
  /\ clean' = [clean EXCEPT ![c] = TRUE]
  /\ fin' = [fin EXCEPT ![c] = "none"]
  /\ UNCHANGED <<queued, arrival, completed, buffered, finished, runs,
                 terminalOutputs, req, surfacing, caller, handleOnly, killed,
                 cancelled, result, delivery, blocked, waits, msgTo, msgFrom, ends>>
  /\ ResolveDrainWaiters(drainWaiters)

\* InternalEvent::Started after cancellation won: the child stays pending.
StartRefused(c) ==
  /\ actor = "running"
  /\ c \in pending \cap runs \cap cancelled
  /\ Parked(c) # {}
  /\ RejectSpawnReady({c}, {})
  /\ UNCHANGED <<registry, runs, terminalOutputs, records, blocked, waits,
                 lanes, msgTo, msgFrom, lease, permits, ends>>
  /\ ResolveDrainWaiters(drainWaiters)

\* InternalEvent::Finalizing: message admission to the child closes; the
\* runner is answered now, or when the last in-flight message settles.
Finalizing(c) ==
  /\ actor = "running"
  /\ c \in active \cap runs /\ fin[c] = "none"
  /\ phase' = [phase EXCEPT ![c] = "finalizing"]
  /\ fin' = [fin EXCEPT ![c] = IF inFlight[c] > 0 THEN "waiting"
                               ELSE IF clean[c] THEN "clean" ELSE "unclean"]
  /\ UNCHANGED <<registry, runs, terminalOutputs, records, blocked, waits,
                 inFlight, clean, msgs, ends>>
  /\ ResolveDrainWaiters(drainWaiters)

\* finish_terminalized_child: an unsettled admission turns the output into a
\* cancelled failure.  The queued sweep also finishes entries whose token an
\* outsider cancelled.
FinishTerminalizedChild(c, out, isClean) ==
  LET o == IF isClean THEN out ELSE "cancelled" IN
  /\ cancelled' = cancelled \ ({c} \cup CancelledQueued)
  /\ FinishChild({c}, CancelledQueued, [AllCancelled EXCEPT ![c] = o], Now)
  /\ ClearTeardownDrains(Drained({c} \cup CancelledQueued))
  /\ UNCHANGED <<req, surfacing, killed, progress, closed>>

\* Mutant: a run that returns finishes its child whatever is in flight.
RunSettledAlways(c) == TRUE

\* start_terminalizing has nothing to wait for.
RunSettled(c) == c \in active => inFlight[c] = 0

\* begin_terminalization / begin_panicked_terminalization of a child with no
\* message in flight, promoted or not.
RunReturns(c, out) ==
  /\ actor = "running"
  /\ c \in runs
  /\ RunSettled(c)
  /\ FinishTerminalizedChild(c, out, c \in active => clean[c])
  /\ RejectSpawnReady({c} \cup CancelledQueued, {c})
  /\ DropLifecycles({c})
  /\ UNCHANGED <<inFlight, msgTo, msgFrom, lease, permits, ends>>
  /\ ResolveDrainWaiters(drainWaiters)

\* begin_terminalization of a child with messages in flight: the output is
\* buffered and the child stays active until the last one settles.
RunBuffered(c, out) ==
  /\ actor = "running"
  /\ c \in runs \cap active /\ inFlight[c] > 0
  /\ runs' = runs \ {c}
  /\ terminalOutputs' = terminalOutputs \cup {c}
  /\ result' = [result EXCEPT ![c] = out]
  /\ phase' = [phase EXCEPT ![c] = "finalizing"]
  /\ UNCHANGED <<registry, req, surfacing, caller, handleOnly, defBackground,
                 killed, cancelled, delivery, blocked, waits, inFlight, clean,
                 fin, msgs, ends>>
  /\ ResolveDrainWaiters(drainWaiters)

-----------------------------------------------------------------------------
(***************************************************************************)
(* Active messages.                                                        *)
(***************************************************************************)

\* The sender is answered without, or after, an admission.
Reply(m, outcome) ==
  /\ msgState' = [msgState EXCEPT ![m] = "replied"]
  /\ msgReply' = [msgReply EXCEPT ![m] = outcome]

\* ChannelBackend::send_active_message: a permit is taken before the send.
SendActiveMessage(m, c, from) ==
  /\ msgState[m] = "idle" /\ ~closing
  /\ msgTo' = [msgTo EXCEPT ![m] = c]
  /\ msgFrom' = [msgFrom EXCEPT ![m] = from]
  /\ \/ /\ permits = 0
        /\ Reply(m, "saturated")
        /\ UNCHANGED permits
     \/ /\ permits > 0 /\ actor = "running"
        /\ msgState' = [msgState EXCEPT ![m] = "ingress"]
        /\ permits' = permits - 1
        /\ UNCHANGED msgReply
     \/ /\ permits > 0 /\ actor # "running"
        /\ Reply(m, "closed")
        /\ UNCHANGED permits
  /\ UNCHANGED <<registry, runs, terminalOutputs, records, blocked, waits,
                 drainWaiters, lanes, lease, ends>>

\* owned_spawning_child
OwnedSpawning(m) ==
  msgTo[m] \in pending \cup queued /\ req[msgTo[m]].session = msgFrom[m]

\* Mutant: begin_admission does not look at the phase.
RoutedUnphased(m) ==
  LET c == msgTo[m] IN
  IF c \in active
  THEN IF req[c].session # msgFrom[m] THEN "not_found"
       ELSE IF IsWorkflow(c) \/ c \in cancelled THEN "not_active"
       ELSE IF inFlight[c] >= MaxInFlight THEN "saturated"
       ELSE "inflight"
  ELSE IF OwnedSpawning(m) THEN "parked" ELSE "not_found"

\* The outcome handle_send_active_message answers at once, or the way on:
\* "parked" until the child starts, "inflight" once admission has begun.
Routed(m) ==
  LET c == msgTo[m] IN
  IF c \in active
  THEN IF req[c].session # msgFrom[m] THEN "not_found"
       ELSE IF IsWorkflow(c) \/ c \in cancelled \/ phase[c] = "finalizing" THEN "not_active"
       ELSE IF inFlight[c] >= MaxInFlight THEN "saturated"
       ELSE "inflight"
  ELSE IF OwnedSpawning(m)
  THEN IF IsWorkflow(c) \/ c \in cancelled THEN "not_active" ELSE "parked"
  ELSE IF c \in completed /\ req[c].session = msgFrom[m] THEN "not_active"
  ELSE "not_found"

\* handle_send_active_message.  Only an admitted message keeps its permit.
HandleSendActiveMessage(m) ==
  LET way == Routed(m) IN
  /\ actor = "running"
  /\ msgState[m] = "ingress"
  /\ \/ /\ way = "inflight"
        /\ msgState' = [msgState EXCEPT ![m] = "inflight"]
        /\ lease' = [lease EXCEPT ![m] = "open"]
        /\ inFlight' = [inFlight EXCEPT ![msgTo[m]] = @ + 1]
        /\ UNCHANGED <<msgReply, permits>>
     \/ /\ way = "parked"
        /\ msgState' = [msgState EXCEPT ![m] = "parked"]
        /\ permits' = permits + 1
        /\ UNCHANGED <<msgReply, lease, inFlight>>
     \/ /\ way \notin {"inflight", "parked"}
        /\ Reply(m, way)
        /\ permits' = permits + 1
        /\ UNCHANGED <<lease, inFlight>>
  /\ UNCHANGED <<registry, runs, terminalOutputs, records, blocked, waits,
                 phase, clean, fin, msgTo, msgFrom, ends>>
  /\ ResolveDrainWaiters(drainWaiters)

\* ActiveMessageAdmissionLease::commit_admission, run by the child's host in
\* its own task: the compare-exchange, then the insertion and the store.
HostClaims(m) ==
  /\ lease[m] = "open"
  /\ lease' = [lease EXCEPT ![m] = "claimed"]
  /\ UNCHANGED <<registry, runs, terminalOutputs, records, blocked, waits,
                 drainWaiters, lanes, msgState, msgTo, msgFrom, msgReply, permits, ends>>

HostCommits(m) ==
  /\ lease[m] = "claimed"
  /\ lease' = [lease EXCEPT ![m] = "committed"]
  /\ UNCHANGED <<registry, runs, terminalOutputs, records, blocked, waits,
                 drainWaiters, lanes, msgState, msgTo, msgFrom, msgReply, permits, ends>>

\* How an ActiveMessageFuture becomes ready: the host's answer, the child's
\* cancellation, or the admission deadline.
Ready == {"admitted", "rejected", "unsupported", "channel_closed",
          "cancelled", "deadline"}

\* Mutant: a rejection is settled although the host already claimed the lease.
SettlesClaimed(m, how) ==
  IF how = "admitted" THEN lease[m] = "committed" ELSE lease[m] # "committed"

\* ActiveMessageAdmissionLease::settle and ::revoke.
Settles(m, how) ==
  IF how = "admitted" THEN lease[m] = "committed"
  ELSE lease[m] \in {"open", "revoked"}

\* protocol_outcome_from_completion
ProtocolOutcome(how, settled) ==
  CASE ~settled                      -> "uncertain"
    [] settled /\ how = "admitted"   -> "accepted"
    [] settled /\ how = "rejected"   -> "not_active"
    [] settled /\ how = "unsupported"    -> "unsupported"
    [] settled /\ how = "channel_closed" -> "closed"
    [] OTHER                         -> "not_before_deadline"

\* Mutant: only an admitted message gives its permit back.
SettleFutureLeaking(m, how) ==
  /\ how = "cancelled" => msgTo[m] \in cancelled
  /\ lease' = [lease EXCEPT ![m] = IF @ = "open" THEN "revoked" ELSE @]
  /\ permits' = IF how = "admitted" THEN permits + 1 ELSE permits

\* The future's answer; dropping the future revokes a lease still open.
SettleFuture(m, how) ==
  /\ how = "cancelled" => msgTo[m] \in cancelled
  /\ lease' = [lease EXCEPT ![m] = IF @ = "open" THEN "revoked" ELSE @]
  /\ permits' = permits + 1

\* Mutant: an admission is counted off twice.
FinishAdmissionTwice(c) ==
  inFlight' = [inFlight EXCEPT ![c] = @ - 2]

\* finish_admission, the counter.
FinishAdmission(c) ==
  inFlight' = [inFlight EXCEPT ![c] = @ - 1]

\* finish_active_message that leaves the child as it is: finish_admission
\* answers the runner's finalizing() when it was the last one.  The branch for
\* a child that is gone has no action: NoLostCompletion shows it is dead.
FinishActiveMessage(m, how) ==
  LET c == msgTo[m]
      settled == Settles(m, how)
      last == inFlight[c] = 1 /\ phase[c] = "finalizing"
  IN
  /\ actor = "running"
  /\ msgState[m] = "inflight"
  /\ SettleFuture(m, how)
  /\ Reply(m, ProtocolOutcome(how, settled))
  /\ FinishAdmission(c)
  /\ clean' = [clean EXCEPT ![c] = @ /\ settled]
  /\ fin' = [fin EXCEPT ![c] = IF last /\ @ = "waiting"
                               THEN (IF clean'[c] THEN "clean" ELSE "unclean") ELSE @]
  /\ ~(last /\ c \in terminalOutputs)
  /\ UNCHANGED <<registry, runs, terminalOutputs, records, blocked, waits,
                 phase, msgTo, msgFrom, ends>>
  /\ ResolveDrainWaiters(drainWaiters)

\* finish_active_message of the last message a buffered output waited for.
FinishLastActiveMessage(m, how) ==
  LET c == msgTo[m]
      settled == Settles(m, how)
      isClean == clean[c] /\ settled
      freed == {n \in Messages : msgState[n] = "parked" /\ msgTo[n] \in {c} \cup CancelledQueued}
  IN
  /\ actor = "running"
  /\ msgState[m] = "inflight"
  /\ inFlight[c] = 1 /\ phase[c] = "finalizing" /\ c \in terminalOutputs
  /\ SettleFuture(m, how)
  /\ msgState' = [n \in Messages |-> IF n = m \/ n \in freed THEN "replied" ELSE msgState[n]]
  /\ msgReply' = [n \in Messages |-> IF n = m THEN ProtocolOutcome(how, settled)
                                     ELSE IF n \in freed THEN "not_active" ELSE msgReply[n]]
  /\ FinishAdmission(c)
  /\ DropLifecycles({c})
  /\ FinishTerminalizedChild(c, result[c], isClean)
  /\ UNCHANGED <<msgTo, msgFrom, ends>>
  /\ ResolveDrainWaiters(drainWaiters)

-----------------------------------------------------------------------------
(***************************************************************************)
(* Callers, tokens and timers.                                             *)
(***************************************************************************)

\* A spawn's caller drops its result receiver.
CallerDrops(c) ==
  /\ actor = "running"
  /\ c \in Live /\ caller[c] = "waiting"
  /\ caller' = [caller EXCEPT ![c] = "gone"]
  /\ UNCHANGED <<registry, runs, terminalOutputs, req, surfacing, handleOnly,
                 defBackground, killed, cancelled, result, delivery, blocked,
                 waits, drainWaiters, lanes, msgs, ends>>

\* A requester parked in the actor drops its receiver.
AskerDrops(a) ==
  /\ ~IdleAsker(a) /\ a \notin closed
  /\ closed' = closed \cup {a}
  /\ UNCHANGED <<registry, runs, terminalOutputs, records, blocked,
                 teardownDrains, waiters, wfWaiters, progress, drainWaiters,
                 lanes, msgs, ends>>

\* Another holder of a request's cancel_token cancels it.
CancelToken(c) ==
  /\ actor = "running"
  /\ c \in Live \ cancelled
  /\ cancelled' = cancelled \cup {c}
  /\ UNCHANGED <<registry, runs, terminalOutputs, req, surfacing, caller,
                 handleOnly, defBackground, killed, result, delivery, blocked,
                 waits, drainWaiters, lanes, msgs, ends>>

\* reap_abandoned_callers: a gone caller backgrounds its child, or cancels it
\* when a workflow owns it; a queued entry with a cancelled token is finished.
Reap ==
  LET dropped == Abandoned \cup AbandonedQueued
      t == [Now EXCEPT
              !.caller = [c \in Children |-> IF c \in dropped THEN "dropped" ELSE caller[c]],
              !.handleOnly = handleOnly \cup {c \in Abandoned : ~IsWorkflow(c)}]
  IN
  /\ actor = "running"
  /\ dropped \cup CancelledQueued # {}
  /\ cancelled' = (cancelled \ CancelledQueued) \cup {c \in Abandoned : IsWorkflow(c)}
  /\ FinishChild(CancelledQueued, {}, AllCancelled, t)
  /\ RejectSpawnReady(CancelledQueued, {})
  /\ ClearTeardownDrains(Drained(CancelledQueued))
  /\ UNCHANGED <<req, surfacing, killed, progress, closed, lanes, msgTo,
                 msgFrom, lease, permits, ends>>
  /\ ResolveDrainWaiters(drainWaiters)

\* process_deadlines, the foreground budget: the caller gets an interim
\* "backgrounded" result, the child stays queued or keeps running.
BudgetExpires(c) ==
  /\ Reaped
  /\ c \in Live /\ DeadlineArmed(c)
  /\ caller' = [caller EXCEPT ![c] = IF @ = "waiting" THEN "handed" ELSE @]
  /\ handleOnly' = IF c \in queued THEN handleOnly ELSE handleOnly \cup {c}
  /\ UNCHANGED <<registry, runs, terminalOutputs, req, surfacing,
                 defBackground, killed, cancelled, result, delivery, blocked,
                 waits, lanes, msgs, ends>>
  /\ ResolveDrainWaiters(drainWaiters)

\* process_deadlines, a blocking query: closed ones are dropped, one on an
\* active child turns into a progress poll, the others are answered.
QueryExpires(a, c) ==
  /\ Reaped
  /\ a \in waiters[c]
  /\ waiters' = [waiters EXCEPT ![c] = @ \ {a}]
  /\ progress' = IF a \notin closed /\ c \in active THEN progress \cup {<<a, c>>} ELSE progress
  /\ UNCHANGED <<registry, runs, terminalOutputs, records, blocked,
                 teardownDrains, wfWaiters, closed, lanes, msgs, ends>>
  /\ ResolveDrainWaiters(drainWaiters)

\* process_deadlines, the TEARDOWN_DRAIN_MAX backstop.
TeardownExpires(s) ==
  /\ Reaped
  /\ teardownDrains[s] # {}
  /\ ClearTeardownDrains({s})
  /\ UNCHANGED <<registry, runs, terminalOutputs, records, waiters, wfWaiters,
                 progress, closed, lanes, msgs, ends>>
  /\ ResolveDrainWaiters(drainWaiters)

\* Mutant: only messages parked on a queued child expire.
SpawnReadyExpiresQueued(m) ==
  /\ Reaped
  /\ msgState[m] = "parked" /\ msgTo[m] \in queued
  /\ Reply(m, "not_before_deadline")
  /\ UNCHANGED <<registry, runs, terminalOutputs, records, blocked, waits,
                 lanes, msgTo, msgFrom, lease, permits, ends>>
  /\ ResolveDrainWaiters(drainWaiters)

\* process_deadlines, expire_spawn_ready_messages
SpawnReadyExpires(m) ==
  /\ Reaped
  /\ msgState[m] = "parked"
  /\ Reply(m, "not_before_deadline")
  /\ UNCHANGED <<registry, runs, terminalOutputs, records, blocked, waits,
                 lanes, msgTo, msgFrom, lease, permits, ends>>
  /\ ResolveDrainWaiters(drainWaiters)

-----------------------------------------------------------------------------
(***************************************************************************)
(* The end of the actor.                                                   *)
(***************************************************************************)

\* The last sender goes; what was sent before is still handled.
CloseChannels ==
  /\ actor = "running" /\ ~closing
  /\ closing' = TRUE
  /\ UNCHANGED <<registry, runs, terminalOutputs, records, blocked, waits,
                 drainWaiters, lanes, msgs, actor>>

\* Mutant: a progress poll does not keep the actor alive.
MayExitWithPolls ==
  /\ closing
  /\ runs = {} /\ terminalOutputs = {}
  /\ \A m \in Messages : msgState[m] \notin {"ingress", "parked", "inflight", "lost"}

\* The loop's exit test.
MayExit ==
  /\ closing
  /\ runs = {} /\ terminalOutputs = {} /\ progress = {}
  /\ \A m \in Messages : msgState[m] \notin {"ingress", "parked", "inflight", "lost"}

\* Drop for SubagentCoordinator: queued callers are answered, every token is
\* cancelled, message futures revoke their lease, every reply channel closes.
DropCoordinator(how) ==
  LET open == {m \in Messages : msgState[m] \in {"ingress", "parked", "inflight", "lost"}} IN
  /\ actor' = how
  /\ cancelled' = cancelled \cup Live
  /\ caller' = [c \in Children |->
                  IF c \in Live /\ HoldsReply(c)
                  THEN (IF c \in queued /\ caller[c] = "waiting" THEN "answered" ELSE "dropped")
                  ELSE caller[c]]
  /\ msgState' = [m \in Messages |-> IF m \in open THEN "replied" ELSE msgState[m]]
  /\ msgReply' = [m \in Messages |->
                    IF m \notin open THEN msgReply[m]
                    ELSE IF lease[m] \in {"claimed", "committed"} THEN "uncertain" ELSE "closed"]
  /\ lease' = [m \in Messages |-> IF m \in open /\ lease[m] = "open" THEN "revoked" ELSE lease[m]]
  /\ permits' = MaxPermits
  /\ DropLifecycles(active)
  /\ queued' = {} /\ arrival' = {} /\ pending' = {} /\ active' = {}
  /\ completed' = {} /\ buffered' = {} /\ finished' = {}
  /\ runs' = {} /\ terminalOutputs' = {}
  /\ blocked' = {} /\ progress' = {}
  /\ teardownDrains' = [s \in Owners |-> {}]
  /\ waiters' = [c \in Children |-> {}]
  /\ drainWaiters' = [scope \in Scopes |-> {}]
  /\ wfWaiters' = [r \in RunIds |-> {}]
  /\ surfacing' = {} /\ handleOnly' = {} /\ defBackground' = {} /\ killed' = {}
  /\ delivery' = [c \in Children |-> {}]
  /\ inFlight' = [c \in Children |-> 0]
  /\ closed' = {}
  /\ UNCHANGED <<req, result, msgTo, msgFrom, closing>>

\* run() breaks out of the loop and the actor is dropped.
ActorExits ==
  /\ actor = "running"
  /\ MayExit
  /\ DropCoordinator("exited")

\* The host drops the actor's future in mid-flight.
ActorDropped ==
  /\ actor = "running"
  /\ DropCoordinator("dropped")

-----------------------------------------------------------------------------
Commands ==
  \/ \E c \in Children, r \in Requests : HandleSpawn(c, r)
  \/ \E c \in Children, s \in HostSessions \cup {AnySession} : CancelOne(c, s)
  \/ \E p \in Prompts, s \in HostSessions \cup {AnySession} : CancelParentPrompt(p, s)
  \/ \E s \in HostSessions : CancelParentSession(s)
  \/ \E r \in RunIds, s \in HostSessions \cup {AnySession}, a \in Askers : CancelWorkflow(r, s, a)
  \/ \E s \in HostSessions : \E by \in {{}} \cup {{a} : a \in Askers} : TeardownSession(s, by)
  \/ \E s \in HostSessions : OpenSpawnAdmission(s)
  \/ \E a \in Askers, c \in Children, block \in BOOLEAN : HandleQuery(a, c, block)
  \/ \E a \in Askers, scope \in Scopes : WaitPromptDrained(a, scope)
  \/ \E s \in HostSessions \cup {AnySession} : Completions(s)

RunEvents ==
  \/ \E c \in Children, background \in BOOLEAN : Started(c, background)
  \/ \E c \in Children : StartRefused(c)
  \/ \E c \in Children : Finalizing(c)
  \/ \E c \in Children, out \in Outcomes : RunReturns(c, out)
  \/ \E c \in Children, out \in Outcomes : RunBuffered(c, out)
  \/ \E a \in Askers, c \in Children : FinishProgress(a, c)

MessageEvents ==
  \/ \E m \in Messages, c \in Children, from \in HostSessions : SendActiveMessage(m, c, from)
  \/ \E m \in Messages : HandleSendActiveMessage(m)
  \/ \E m \in Messages : HostClaims(m)
  \/ \E m \in Messages : HostCommits(m)
  \/ \E m \in Messages, how \in Ready : FinishActiveMessage(m, how)
  \/ \E m \in Messages, how \in Ready : FinishLastActiveMessage(m, how)

Environment ==
  \/ \E c \in Children : CallerDrops(c)
  \/ \E a \in Askers : AskerDrops(a)
  \/ \E c \in Children : CancelToken(c)

Timers ==
  \/ Reap
  \/ \E c \in Children : BudgetExpires(c)
  \/ \E a \in Askers, c \in Children : QueryExpires(a, c)
  \/ \E s \in Owners : TeardownExpires(s)
  \/ \E m \in Messages : SpawnReadyExpires(m)

Ends == CloseChannels \/ ActorExits \/ ActorDropped

Next == Commands \/ RunEvents \/ MessageEvents \/ Environment \/ Timers \/ Ends

Spec == Init /\ [][Next]_vars

-----------------------------------------------------------------------------
(***************************************************************************)
(* Properties.                                                             *)
(***************************************************************************)

RegistryTypeOK ==
  /\ queued \subseteq Children /\ pending \subseteq Children /\ active \subseteq Children
  /\ completed \subseteq Children
  /\ arrival \subseteq Children \X Children
  /\ runs \subseteq Children /\ terminalOutputs \subseteq Children
  /\ req \in [Children -> Request]

RecordsTypeOK ==
  /\ buffered \subseteq Children /\ finished \subseteq Children \X Children
  /\ surfacing \subseteq Children /\ handleOnly \subseteq Children
  /\ defBackground \subseteq Children
  /\ killed \subseteq Children /\ cancelled \subseteq Children
  /\ caller \in [Children -> {"none", "waiting", "gone", "answered", "handed", "dropped"}]
  /\ result \in [Children -> Outcomes]
  /\ delivery \in [Children -> SUBSET {"foreground", "waiter", "surfaced"}]

WaitsTypeOK ==
  /\ blocked \subseteq Owners
  /\ teardownDrains \in [Owners -> SUBSET Askers]
  /\ waiters \in [Children -> SUBSET Askers]
  /\ drainWaiters \in [Scopes -> SUBSET Askers]
  /\ wfWaiters \in [RunIds -> SUBSET Askers]
  /\ progress \subseteq Askers \X Children
  /\ closed \subseteq Askers
  /\ closing \in BOOLEAN
  /\ actor \in {"running", "exited", "dropped"}

MessagesTypeOK ==
  /\ phase \in [Children -> {"open", "finalizing"}]
  /\ inFlight \in [Children -> Nat]
  /\ clean \in [Children -> BOOLEAN]
  /\ fin \in [Children -> {"none", "waiting", "clean", "unclean"}]
  /\ msgState \in [Messages -> {"idle", "ingress", "parked", "inflight", "lost", "replied"}]
  /\ msgTo \in [Messages -> Children] /\ msgFrom \in [Messages -> Owners]
  /\ msgReply \in [Messages -> {"none", "accepted", "not_found", "not_active", "saturated",
                                "uncertain", "not_before_deadline", "unsupported", "closed"}]
  /\ lease \in [Messages -> {"none", "open", "claimed", "committed", "revoked"}]
  /\ permits \in 0..MaxPermits

\* Every variable has its type; in particular no admission counter goes below
\* zero and no ingress permit is returned twice.
TypeOK == RegistryTypeOK /\ RecordsTypeOK /\ WaitsTypeOK /\ MessagesTypeOK

\* No session runs more than max_concurrent children that no workflow owns,
\* whatever mix of direct starts and queued sweeps launched them
\* (Admission::has_capacity).
SlotLimit ==
  \A s \in Owners : Cardinality(RunningOf(s, pending \cup active)) <= MaxConcurrent

\* No lost wake-up of the queue: a spawn is parked only while its own session
\* is at capacity, which is what run() relies on when it leaves without
\* looking at the queue ("queued non-empty means some session is at capacity").
QueuedImpliesFull ==
  \A c \in queued :
    Cardinality(RunningOf(req[c].session, pending \cup active)) >= MaxConcurrent

\* An id has one record, and a launched child has exactly one of a run future
\* and a buffered terminal output; so a finished run always finds its record.
RegistryConsistent ==
  /\ pending \cap active = {}
  /\ queued \cap (pending \cup active) = {}
  /\ completed \cap Live = {}
  /\ runs \cap terminalOutputs = {}
  /\ pending \cup active = runs \cup terminalOutputs
  /\ terminalOutputs \subseteq active

\* Whoever is parked in the actor is parked on something that will still
\* happen: the child it queries is live, its run has children out, its session
\* has children left to drain, its prompt scope has a turn-blocking child.
NoStrandedWaiter ==
  /\ \A c \in Children : waiters[c] # {} => c \in Live
  /\ \A r \in RunIds : wfWaiters[r] # {} => OutstandingOf(r) # {}
  /\ \A s \in Owners : teardownDrains[s] # {} =>
       \E c \in pending \cup active : req[c].session = s
  /\ \A scope \in Scopes : drainWaiters[scope] # {} => LiveTurnBlocking(scope) # {}

\* Stop and delete: while a session's admission stays blocked, none of its
\* children that no workflow owns is launched or parked, from the queue either.
StopHolds ==
  [][\A s \in blocked \cap blocked' :
       RunningOf(s, Live)' \subseteq RunningOf(s, Live)]_vars

\* A delete-path drain keeps admission closed (OpenSpawnAdmission cannot reopen
\* it), every Task child it waits for is cancelled and will not surface, and no
\* summary is buffered again for a later session of the same id.
TeardownHolds ==
  \A s \in Owners : teardownDrains[s] # {} =>
    /\ s \in blocked
    /\ RunningOf(s, Live) \subseteq cancelled \ surfacing
    /\ \A c \in buffered : req[c].session # s

\* A delete-path responder is answered only when the last child of its session
\* is gone, unless the backstop fires or the actor ends.
TeardownWaitsForChildren ==
  [][\A s \in Owners :
       teardownDrains[s] # {} /\ teardownDrains'[s] = {} =>
         \/ \A c \in Live' : req'[c].session # s
         \/ TeardownExpires(s)
         \/ actor' # "running"]_vars

\* The queue is first in, first out within a session: a spawn that starts
\* leaves no earlier spawn of its session behind.
FifoPerSession ==
  [][\A c \in queued \cap pending', d \in queued \cap queued' :
       req[c].session = req[d].session => <<d, c>> \notin arrival]_vars

\* The parent learns of a completion exactly as often as it should: a surfaced
\* completion reached nobody else, and one that was neither cancelled nor
\* killed reached a caller, a blocking query, or is surfaced, even when its
\* caller was handed off or went away while the child was queued or running.
CompletionReachesParent ==
  \A c \in completed :
    /\ "surfaced" \in delivery[c] => delivery[c] = {"surfaced"}
    /\ caller[c] \in {"handed", "dropped"} => "foreground" \notin delivery[c]
    /\ c \in surfacing /\ c \notin killed /\ result[c] # "cancelled" => delivery[c] # {}

\* The loop leaves with nothing behind: no record, no parked requester, no
\* caller still waiting (the debug_assert in run(), and its neighbours).
ExitIsQuiet ==
  [][actor = "running" /\ actor' = "exited" =>
       /\ Live = {} /\ progress = {}
       /\ \A c \in Children : waiters[c] = {} /\ ~HoldsReply(c)
       /\ \A r \in RunIds : wfWaiters[r] = {}
       /\ \A s \in Owners : teardownDrains[s] = {}
       /\ \A scope \in Scopes : drainWaiters[scope] = {}]_vars

\* A message future always finds the child it was admitted to: the
\* lost-completion branch of finish_active_message is dead.
NoLostCompletion ==
  \A m \in Messages :
    /\ msgState[m] # "lost"
    /\ msgState[m] = "inflight" => msgTo[m] \in active

\* What a sender is told is true for good: an accepted message was inserted,
\* a definite rejection is never inserted later, whatever the race between the
\* host's commit and the admission deadline, a cancel or the actor's drop.
DefiniteAnswer ==
  \A m \in Messages :
    /\ msgReply[m] = "accepted" => lease[m] = "committed"
    /\ msgReply[m] \notin {"none", "accepted", "uncertain"} => lease[m] \in {"none", "revoked"}

\* Finalization linearizes with admission: once the runner is told that its
\* child is settled, no message to that child can still be inserted.  (Stated
\* for ids that are used once.)
FinalizedIsSettled ==
  \A c \in Children, m \in Messages :
    fin[c] = "clean" /\ msgTo[m] = c => lease[m] \notin {"open", "claimed"}

\* Parked messages pin no permit and are parked on a child of their sender
\* that has not started; every other open message holds exactly one permit.
PermitsAccounted ==
  /\ permits + Cardinality({m \in Messages : msgState[m] \in {"ingress", "inflight", "lost"}})
       = MaxPermits
  /\ \A m \in Messages : msgState[m] = "parked" => OwnedSpawning(m)

-----------------------------------------------------------------------------
(***************************************************************************)
(* Fairness and liveness.  The actor keeps taking turns and its timers     *)
(* fire.  A timer turn contains its reap, so a state that is not reaped    *)
(* does not put the timer off: strong fairness.  Nothing is assumed of     *)
(* callers, of hosts or of the child runs.                                 *)
(***************************************************************************)
ActorFairness ==
  /\ WF_vars(Reap)
  /\ \A c \in Children : SF_vars(BudgetExpires(c))
  /\ \A a \in Askers, c \in Children : SF_vars(QueryExpires(a, c)) /\ WF_vars(FinishProgress(a, c))
  /\ \A s \in Owners : SF_vars(TeardownExpires(s))
  /\ \A m \in Messages :
       /\ WF_vars(HandleSendActiveMessage(m))
       /\ SF_vars(SpawnReadyExpires(m))
       /\ WF_vars(\E how \in Ready : FinishActiveMessage(m, how) \/ FinishLastActiveMessage(m, how))

FairSpec == Spec /\ ActorFairness

\* A foreground caller gets its result or the interim handoff even if children
\* never finish, so a parent cannot deadlock on children that need its slot.
ForegroundCallerAnswered ==
  \A c \in Children :
    c \in Live /\ caller[c] = "waiting" /\ AwaitsInForeground(c) ~> caller[c] # "waiting"

\* Every message that got a permit is answered.
MessageAnswered ==
  \A m \in Messages : msgState[m] = "ingress" ~> msgState[m] = "replied"

\* Every child run ends eventually: what ChildFinishes assumes of the children.
RunsEnd ==
  \A c \in Children : WF_vars(\E out \in Outcomes : RunReturns(c, out) \/ RunBuffered(c, out))

\* If runs end, every queued spawn leaves the queue and every child finishes.
ChildFinishes ==
  RunsEnd => \A c \in Children : c \in Live ~> c \notin Live
====

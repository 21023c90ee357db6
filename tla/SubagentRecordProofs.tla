------------------------ MODULE SubagentRecordProofs ------------------------
(***************************************************************************)
(* Proofs about the records of SubagentCoordinator and about whoever waits *)
(* on them, for every value of its constants: how the parent learns of a   *)
(* completion, which parked requests can still be answered, what a delete  *)
(* keeps closed, and what the loop leaves behind when it ends.             *)
(*                                                                         *)
(* All of it turns on finish_child.  FinishTables and the lemmas after it  *)
(* say once, table by table, what that function does; FinishStep collects  *)
(* the eight turns that call it, with what they agree on.                  *)
(***************************************************************************)
EXTENDS SubagentCoordinatorProofs

-----------------------------------------------------------------------------
(***************************************************************************)
(* finish_child.                                                           *)
(***************************************************************************)

\* What finish_child does to the tables of ids.
LEMMA FinishTables ==
  ASSUME NEW first, NEW second, NEW out, NEW t, FinishChild(first, second, out, t)
  PROVE  /\ active' = active \ (first \cup second)
         /\ pending' \cup queued' = (pending \cup queued) \ (first \cup second)
         /\ pending \ (first \cup second) \subseteq pending'
         /\ pending' \subseteq pending \cup queued /\ queued' \subseteq queued
         /\ terminalOutputs' = terminalOutputs \ (first \cup second)
         /\ Live' = Live \ (first \cup second)
<1> DEFINE gone == first \cup second
           q == queued \ gone
           start == IF gone = {} THEN {} ELSE Startable(q, (pending \cup active) \ gone)
<1>1. /\ queued' = q \ start /\ pending' = (pending \ gone) \cup start
      /\ active' = active \ gone /\ terminalOutputs' = terminalOutputs \ gone
  BY Zenon DEF FinishChild
<1>2. start \subseteq q
  BY DEF Startable
<1> HIDE DEF start
<1> QED
  BY <1>1, <1>2 DEF Live

\* The order in which completed and buffered entries were appended.
Appended(first, second, t) ==
  finished \cup ((completed \cup t.buffered) \X (first \cup second))
    \cup (first \X second)
    \cup {p \in arrival : p[1] \in first \cup second /\ p[2] \in first \cup second}

\* What it appends to the completed and to the buffered records.
LEMMA FinishAppends ==
  ASSUME NEW first, NEW second, NEW out, NEW t, FinishChild(first, second, out, t)
  PROVE  /\ completed' = Newest(completed \cup (first \cup second), Appended(first, second, t),
                                MaxCompleted)
         /\ completed' \subseteq completed \cup first \cup second
         /\ buffered' \subseteq
              t.buffered \cup {d \in (first \cup second) \cap t.surfacing : t.req[d].run = NoRun}
         /\ finished' \subseteq Appended(first, second, t)
<1>1. /\ completed' = Newest(completed \cup (first \cup second), Appended(first, second, t),
                             MaxCompleted)
      /\ buffered' = Newest(t.buffered \cup {d \in (first \cup second) \cap t.surfacing :
                                               t.req[d].run = NoRun},
                            Appended(first, second, t), MaxBuffered)
      /\ finished' = {p \in Appended(first, second, t) :
                        p[1] \in completed' \cup buffered' /\ p[2] \in completed' \cup buffered'}
  BY Zenon DEF FinishChild, Appended
<1> QED
  BY <1>1 DEF Newest

\* A child without a run of its own, and only that, leaves a summary.
LEMMA FinishBuffers ==
  ASSUME NEW first, NEW second, NEW out, NEW t, FinishChild(first, second, out, t)
  PROVE  buffered' \subseteq
           t.buffered \cup {d \in (first \cup second) \cap t.surfacing : t.req[d].run = NoRun}
<1>1. buffered' = Newest(t.buffered \cup {d \in (first \cup second) \cap t.surfacing :
                                            t.req[d].run = NoRun},
                         Appended(first, second, t), MaxBuffered)
  BY Zenon DEF FinishChild, Appended
<1> QED
  BY <1>1 DEF Newest

\* The caller's channel is used up: a caller that waits has the answer.
LEMMA FinishAnswers ==
  ASSUME NEW first, NEW second, NEW out, NEW t, FinishChild(first, second, out, t)
  PROVE  /\ DOMAIN caller' = Children
         /\ \A d \in Children \ (first \cup second) : caller'[d] = t.caller[d]
         /\ \A d \in Children \cap (first \cup second) :
              \/ t.caller[d] = "waiting" /\ caller'[d] = "answered"
              \/ t.caller[d] = "gone" /\ caller'[d] = "dropped"
              \/ t.caller[d] \notin {"waiting", "gone"} /\ caller'[d] = t.caller[d]
<1>1. caller' = [d \in Children |->
                   IF d \notin first \cup second THEN t.caller[d]
                   ELSE CASE t.caller[d] = "waiting" -> "answered"
                          [] t.caller[d] = "gone"    -> "dropped"
                          [] OTHER                   -> t.caller[d]]
  BY Zenon DEF FinishChild
<1>2. DOMAIN caller' = Children /\ \A d \in Children \ (first \cup second) : caller'[d] = t.caller[d]
  BY <1>1
<1>3. ASSUME NEW d \in Children \cap (first \cup second)
      PROVE  \/ t.caller[d] = "waiting" /\ caller'[d] = "answered"
             \/ t.caller[d] = "gone" /\ caller'[d] = "dropped"
             \/ t.caller[d] \notin {"waiting", "gone"} /\ caller'[d] = t.caller[d]
  <2>1. caller'[d] = CASE t.caller[d] = "waiting" -> "answered"
                       [] t.caller[d] = "gone"    -> "dropped"
                       [] OTHER                   -> t.caller[d]
    BY <1>1, Zenon
  <2>2. CASE t.caller[d] = "waiting"
    BY <2>1, <2>2
  <2>3. CASE t.caller[d] = "gone"
    BY <2>1, <2>3
  <2>4. CASE t.caller[d] \notin {"waiting", "gone"}
    BY <2>1, <2>4
  <2> QED
    BY <2>2, <2>3, <2>4
<1> QED
  BY <1>2, <1>3

\* How the parent is told, and the outcome that is recorded.
LEMMA FinishDelivers ==
  ASSUME NEW first, NEW second, NEW out, NEW t, FinishChild(first, second, out, t)
  PROVE  /\ DOMAIN result' = Children /\ DOMAIN delivery' = Children
         /\ \A d \in Children \ (first \cup second) :
              result'[d] = result[d] /\ delivery'[d] = delivery[d]
         /\ \A d \in Children \cap (first \cup second) :
              /\ result'[d] = out[d]
              /\ delivery'[d] \in SUBSET {"foreground", "waiter", "surfaced"}
              /\ "surfaced" \in delivery'[d] => delivery'[d] = {"surfaced"}
              /\ "foreground" \in delivery'[d] => t.caller[d] = "waiting"
              /\ /\ d \in t.surfacing /\ out[d] # "cancelled"
                 /\ d \notin killed \cap (pending \cup active)
                 => delivery'[d] # {}
<1> DEFINE gone == first \cup second
           background(d) == IF d \in pending \cup active THEN d \in t.handleOnly
                            ELSE t.req[d].mode = "background"
           foreground(d) == ForegroundDelivered(background(d), t.caller[d])
           waited(d)     == waiters[d] \ closed # {}
           surfaced(d)   == /\ d \in t.surfacing /\ ~foreground(d) /\ ~waited(d)
                            /\ out[d] # "cancelled" /\ d \notin killed \cap (pending \cup active)
<1>1. /\ result' = [d \in Children |-> IF d \in gone THEN out[d] ELSE result[d]]
      /\ delivery' = [d \in Children |->
                        IF d \notin gone THEN delivery[d]
                        ELSE {w \in {"foreground", "waiter", "surfaced"} :
                                \/ w = "foreground" /\ foreground(d)
                                \/ w = "waiter" /\ waited(d)
                                \/ w = "surfaced" /\ surfaced(d)}]
  BY Zenon DEF FinishChild
<1>2. \A d : foreground(d) => t.caller[d] = "waiting"
  BY DEF ForegroundDelivered
<1> HIDE DEF foreground, waited
<1>3. ASSUME NEW d \in Children \cap gone
      PROVE  /\ result'[d] = out[d]
             /\ delivery'[d] = {w \in {"foreground", "waiter", "surfaced"} :
                                  \/ w = "foreground" /\ foreground(d)
                                  \/ w = "waiter" /\ waited(d)
                                  \/ w = "surfaced" /\ surfaced(d)}
  <2> HIDE DEF surfaced
  <2> QED
    BY <1>1
<1>4. \A d \in Children \ gone : result'[d] = result[d] /\ delivery'[d] = delivery[d]
  <2> HIDE DEF surfaced
  <2> QED
    BY <1>1
<1>5. DOMAIN result' = Children /\ DOMAIN delivery' = Children
  <2> HIDE DEF surfaced
  <2> QED
    BY <1>1
<1>6. ASSUME NEW d \in Children \cap gone
      PROVE  /\ delivery'[d] \in SUBSET {"foreground", "waiter", "surfaced"}
             /\ "surfaced" \in delivery'[d] => delivery'[d] = {"surfaced"}
             /\ "foreground" \in delivery'[d] => t.caller[d] = "waiting"
             /\ /\ d \in t.surfacing /\ out[d] # "cancelled"
                /\ d \notin killed \cap (pending \cup active)
                => delivery'[d] # {}
  <2>1. delivery'[d] \in SUBSET {"foreground", "waiter", "surfaced"}
    BY <1>3
  <2>2. "surfaced" \in delivery'[d] => delivery'[d] = {"surfaced"}
    BY <1>3
  <2>3. "foreground" \in delivery'[d] => t.caller[d] = "waiting"
    BY <1>2, <1>3
  <2>4. /\ d \in t.surfacing /\ out[d] # "cancelled"
        /\ d \notin killed \cap (pending \cup active)
        => delivery'[d] # {}
    <3>1. SUFFICES ASSUME d \in t.surfacing, out[d] # "cancelled",
                          d \notin killed \cap (pending \cup active)
                   PROVE  delivery'[d] # {}
      OBVIOUS
    <3>2. foreground(d) \/ waited(d) \/ surfaced(d)
      BY <3>1
    <3> HIDE DEF surfaced
    <3> QED
      BY <1>3, <3>2
  <2> QED
    BY <2>1, <2>2, <2>3, <2>4
<1> QED
  BY <1>3, <1>4, <1>5, <1>6

\* The waiters of a finished child, and of a run whose last child it was, go.
LEMMA FinishWakes ==
  ASSUME NEW first, NEW second, NEW out, NEW t, FinishChild(first, second, out, t)
  PROVE  /\ waiters' = [d \in Children |-> IF d \in first \cup second THEN {} ELSE waiters[d]]
         /\ wfWaiters' = [r \in RunIds |->
                     IF /\ \E d \in first \cup second : t.req[d].run = r
                        /\ \A d \in (pending \cup active) \ (first \cup second) : t.req[d].run # r
                     THEN {} ELSE wfWaiters[r]]
         /\ defBackground' \subseteq defBackground
         /\ handleOnly' \subseteq t.handleOnly \cup queued
<1> DEFINE gone == first \cup second
           start == IF gone = {} THEN {} ELSE Startable(queued \ gone, (pending \cup active) \ gone)
<1>1. /\ waiters' = [d \in Children |-> IF d \in gone THEN {} ELSE waiters[d]]
      /\ wfWaiters' = [r \in RunIds |->
                  IF /\ \E d \in gone : t.req[d].run = r
                     /\ \A d \in (pending \cup active) \ gone : t.req[d].run # r
                  THEN {} ELSE wfWaiters[r]]
      /\ defBackground' = defBackground \ gone
      /\ handleOnly' = (t.handleOnly \ gone)
                         \cup {d \in start : \/ t.req[d].mode = "background"
                                             \/ t.caller[d] \notin {"waiting", "gone"}}
  BY Zenon DEF FinishChild
<1>2. start \subseteq queued
  BY DEF Startable
<1> HIDE DEF start
<1> QED
  BY <1>1, <1>2

-----------------------------------------------------------------------------
(***************************************************************************)
(* The turns that finish children.                                         *)
(***************************************************************************)
CallerStates == {"none", "waiting", "gone", "answered", "handed", "dropped"}

\* No id is live and buffered, and no entry was appended before itself.
FreshIds == buffered \cap Live = {} /\ \A c \in Children : <<c, c>> \notin finished

\* The children that finish have no completed or buffered record yet; the turn
\* reads the request, the surfacing and the caller that it stores.
FinishStep(first, second, out, t) ==
  /\ FinishChild(first, second, out, t)
  /\ first \cap second = {}
  /\ (first \cup second) \cap (completed \cup buffered) = {}
  /\ t.buffered \subseteq buffered
  /\ t.req = req' /\ \A d \in Children \ (first \cup second) : req'[d] = req[d]
  /\ t.surfacing = surfacing' /\ surfacing' \subseteq surfacing \cup first \cup second
  /\ surfacing' \subseteq Children
  /\ t.handleOnly \subseteq Children
  /\ t.caller \in [Children -> CallerStates]
  /\ \A d \in Children \ (first \cup second) :
       t.caller[d] = caller[d] \/ (d \in Live /\ t.caller[d] = "dropped")
  /\ out \in [Children -> Outcomes]
  /\ killed \ (first \cup second) \subseteq killed' /\ killed \cap Live \subseteq killed'
  /\ killed' \subseteq Children /\ cancelled' \subseteq Children

FinishesRecords ==
  \E first, second \in SUBSET Children : \E out, t : FinishStep(first, second, out, t)

\* A rejected spawn is finished with its caller still waiting.
LEMMA SpawnFailsFinishes ==
  ASSUME RegistryInv, RecordsTypeOK, NEW c \in Children, NEW r \in Requests, SpawnFails(c, r)
  PROVE  \E out, t : FinishStep({}, {c}, out, t)
<1> DEFINE r1 == Reparented(r)
           out == [d \in Children |-> "done"]
           t == [Now EXCEPT !.req = [req EXCEPT ![c] = r1],
                            !.caller = [caller EXCEPT ![c] = "waiting"],
                            !.surfacing = IF r1.surface THEN surfacing \cup {c}
                                          ELSE surfacing \ {c}]
<1>1. /\ FinishChild({}, {c}, out, t) /\ Register(c, r1)
      /\ c \notin Live \cup completed \cup buffered
  BY Zenon DEF SpawnFails, SpawnAccepted
<1>2. /\ t.req = [req EXCEPT ![c] = r1] /\ t.caller = [caller EXCEPT ![c] = "waiting"]
      /\ t.surfacing = IF r1.surface THEN surfacing \cup {c} ELSE surfacing \ {c}
      /\ t.buffered = buffered /\ t.handleOnly = handleOnly
  BY DEF Now
<1> HIDE DEF t
<1>3. /\ req' = [req EXCEPT ![c] = r1] /\ killed' = killed \ {c} /\ cancelled' = cancelled \ {c}
      /\ surfacing' = IF r1.surface THEN surfacing \cup {c} ELSE surfacing \ {c}
  BY <1>1 DEF Register
<1> HIDE DEF r1
<1>4. /\ t.buffered \subseteq buffered /\ t.req = req' /\ t.surfacing = surfacing'
      /\ surfacing' \subseteq surfacing \cup {} \cup {c} /\ surfacing' \subseteq Children
      /\ \A d \in Children \ ({} \cup {c}) : req'[d] = req[d]
      /\ t.handleOnly \subseteq Children /\ t.caller \in [Children -> CallerStates]
      /\ \A d \in Children \ ({} \cup {c}) : t.caller[d] = caller[d]
      /\ killed \ ({} \cup {c}) \subseteq killed' /\ killed \cap Live \subseteq killed'
      /\ killed' \subseteq Children /\ cancelled' \subseteq Children
  BY <1>1, <1>2, <1>3 DEF RegistryInv, RegistryTypeOK, RecordsTypeOK, CallerStates
<1>5. out \in [Children -> Outcomes]
  BY DEF Outcomes
<1> HIDE DEF out
<1>6. FinishStep({}, {c}, out, t)
  BY <1>1, <1>4, <1>5 DEF FinishStep
<1> QED
  BY <1>6

\* The other turns finish live children and change no request.
LEMMA LiveFinishes ==
  ASSUME RegistryInv, RecordsTypeOK, FreshIds,
         NEW first \in SUBSET Live, NEW second \in SUBSET Live, first \cap second = {},
         NEW out \in [Children -> Outcomes], NEW t,
         FinishChild(first, second, out, t), req' = req,
         t.req = req, t.surfacing = surfacing', t.buffered \subseteq buffered,
         surfacing' \subseteq surfacing, t.handleOnly \subseteq Children,
         t.caller \in [Children -> CallerStates],
         \A d \in Children : t.caller[d] = caller[d] \/ (d \in Live /\ t.caller[d] = "dropped"),
         killed \subseteq killed', killed' \subseteq Children, cancelled' \subseteq Children
  PROVE  FinishesRecords
<1>1. /\ (first \cup second) \cap (completed \cup buffered) = {}
      /\ first \in SUBSET Children /\ second \in SUBSET Children
  BY DEF RegistryInv, RegistryTypeOK, RegistryConsistent, FreshIds, Live
<1>2. FinishStep(first, second, out, t)
  BY <1>1 DEF FinishStep, RecordsTypeOK
<1> QED
  BY <1>1, <1>2 DEF FinishesRecords

\* The tables as they are now.
LEMMA NowFields ==
  /\ Now.req = req /\ Now.caller = caller /\ Now.handleOnly = handleOnly
  /\ Now.surfacing = surfacing /\ Now.buffered = buffered
BY DEF Now

\* Cancelled is an outcome for every child.
LEMMA AllCancelledOutcome == AllCancelled \in [Children -> Outcomes]
BY DEF AllCancelled, Outcomes

\* The cancel commands finish the queued children they select.
LEMMA CancelFinishesRecords ==
  ASSUME RegistryInv, RecordsTypeOK, FreshIds, NEW sel \in SUBSET Live, NEW t,
         CancelChildren(sel, t), t.req = req, t.caller = caller, t.handleOnly = handleOnly,
         t.surfacing = surfacing', t.buffered \subseteq buffered, surfacing' \subseteq surfacing,
         killed \subseteq killed', killed' \subseteq Children
  PROVE  FinishesRecords
<1>1. /\ FinishChild({}, sel \cap queued, AllCancelled, t) /\ req' = req
      /\ cancelled' = cancelled \cup (sel \ queued)
  BY DEF CancelChildren
<1>2. /\ {} \in SUBSET Live /\ sel \cap queued \in SUBSET Live /\ {} \cap (sel \cap queued) = {}
      /\ cancelled' \subseteq Children /\ t.handleOnly \subseteq Children
      /\ t.caller \in [Children -> CallerStates]
  BY <1>1 DEF RegistryInv, RegistryTypeOK, RecordsTypeOK, CallerStates, Live
<1> QED
  BY <1>1, <1>2, LiveFinishes, AllCancelledOutcome

\* The end of a run, with the queued children an outsider cancelled.
LEMMA TerminalFinishesRecords ==
  ASSUME RegistryInv, RecordsTypeOK, FreshIds, NEW c \in runs \cup terminalOutputs,
         NEW out \in Outcomes, NEW isClean \in BOOLEAN, FinishTerminalizedChild(c, out, isClean)
  PROVE  FinishesRecords
<1> DEFINE o == IF isClean THEN out ELSE "cancelled"
           all == [AllCancelled EXCEPT ![c] = o]
<1>1. /\ FinishChild({c}, CancelledQueued, all, Now) /\ UNCHANGED <<req, surfacing, killed>>
      /\ cancelled' = cancelled \ ({c} \cup CancelledQueued)
  BY Zenon DEF FinishTerminalizedChild
<1>2. all \in [Children -> Outcomes]
  <2>1. o \in Outcomes
    BY DEF Outcomes
  <2> HIDE DEF o
  <2> QED
    BY <2>1, AllCancelledOutcome
<1> HIDE DEF all
<1>3. /\ {c} \in SUBSET Live /\ CancelledQueued \in SUBSET Live /\ {c} \cap CancelledQueued = {}
      /\ cancelled' \subseteq Children /\ killed' \subseteq Children /\ handleOnly \subseteq Children
      /\ caller \in [Children -> CallerStates] /\ surfacing' = surfacing /\ killed' = killed
  BY <1>1 DEF RegistryInv, RegistryTypeOK, RegistryConsistent, RecordsTypeOK, CallerStates,
              CancelledQueued, Live
<1> QED
  BY <1>1, <1>2, <1>3, NowFields, LiveFinishes

\* reap_abandoned_callers marks the callers it saw gone, and finishes the
\* queued entries with a cancelled token.
LEMMA ReapFinishesRecords ==
  ASSUME RegistryInv, RecordsTypeOK, FreshIds, Reap
  PROVE  FinishesRecords
<1> DEFINE dropped == Abandoned \cup AbandonedQueued
           callers == [c \in Children |-> IF c \in dropped THEN "dropped" ELSE caller[c]]
           only == handleOnly \cup {c \in Abandoned : ~IsWorkflow(c)}
           t == [Now EXCEPT !.caller = callers, !.handleOnly = only]
<1>1. /\ FinishChild(CancelledQueued, {}, AllCancelled, t) /\ UNCHANGED <<req, surfacing, killed>>
      /\ cancelled' = (cancelled \ CancelledQueued) \cup {c \in Abandoned : IsWorkflow(c)}
  BY Zenon DEF Reap
<1>2. dropped \subseteq Live /\ Live \subseteq Children /\ Abandoned \subseteq Children
  BY DEF Abandoned, AbandonedQueued, RegistryInv, RegistryTypeOK, Live
<1> HIDE DEF dropped
<1>3. /\ callers \in [Children -> CallerStates]
      /\ \A d \in Children : callers[d] = caller[d] \/ (d \in Live /\ callers[d] = "dropped")
  BY <1>2 DEF RecordsTypeOK, CallerStates
<1>4. only \subseteq Children
  BY <1>2 DEF RecordsTypeOK
<1> HIDE DEF callers, only
<1>5. /\ t.req = req /\ t.caller = callers /\ t.handleOnly = only
      /\ t.surfacing = surfacing /\ t.buffered = buffered
  BY DEF Now
<1> HIDE DEF t
<1>6. /\ {} \in SUBSET Live /\ CancelledQueued \in SUBSET Live /\ CancelledQueued \cap {} = {}
      /\ cancelled' \subseteq Children /\ killed' \subseteq Children
      /\ surfacing' = surfacing /\ killed' = killed
  BY <1>1, <1>2 DEF RecordsTypeOK, CancelledQueued, Live
<1> QED
  BY <1>1, <1>3, <1>4, <1>5, <1>6, LiveFinishes, AllCancelledOutcome

-----------------------------------------------------------------------------
(***************************************************************************)
(* Records and callers.                                                    *)
(***************************************************************************)

\* The actor holds the sender of a spawn's result only with a live record.
ReplyHeldLive == \A c \in Children : HoldsReply(c) => c \in Live

RecordInv ==
  /\ RecordsTypeOK
  /\ FreshIds
  /\ ReplyHeldLive
  /\ CompletionReachesParent

\* Turns that leave every id in its table, and touch the caller, the output or
\* the flags of live children only.
Tended ==
  /\ Live' = Live /\ completed' = completed
  /\ buffered' \subseteq buffered /\ finished' \subseteq finished
  /\ UNCHANGED <<surfacing, delivery>>
  /\ killed \subseteq killed'
  /\ killed' \subseteq Children /\ cancelled' \subseteq Children
  /\ handleOnly' \subseteq Children /\ defBackground' \subseteq Children
  /\ caller' \in [Children -> CallerStates] /\ result' \in [Children -> Outcomes]
  /\ \A c \in Children \ Live : caller'[c] = caller[c] /\ result'[c] = result[c]

RecordTurn ==
  \/ Tended
  \/ FinishesRecords
  \/ \E c \in Children, r \in Requests : SpawnStarts(c, r) \/ SpawnEnqueues(c, r)
  \/ \E how \in {"exited", "dropped"} : DropCoordinator(how)

\* A turn that only tends to the records keeps RecordInv.
LEMMA TendedKeeps ==
  ASSUME RegistryInv, RecordInv, Tended
  PROVE  RecordInv'
<1>1. RecordsTypeOK' /\ FreshIds'
  BY DEF RecordInv, RecordsTypeOK, FreshIds, Tended, CallerStates
<1>2. ReplyHeldLive'
  BY DEF RecordInv, ReplyHeldLive, HoldsReply, Tended
<1>3. completed \cap Live = {} /\ completed \subseteq Children
  BY DEF RegistryInv, RegistryTypeOK, RegistryConsistent
<1>4. CompletionReachesParent'
  BY <1>3 DEF RecordInv, CompletionReachesParent, Tended
<1> QED
  BY <1>1, <1>2, <1>4 DEF RecordInv

\* finish_child tells the parent of every child it finishes exactly once.
LEMMA FinishKeeps ==
  ASSUME RegistryInv, RecordInv, NEW first \in SUBSET Children, NEW second \in SUBSET Children,
         NEW out, NEW t, FinishStep(first, second, out, t)
  PROVE  RecordInv'
<1> DEFINE gone == first \cup second
<1>1. /\ FinishChild(first, second, out, t) /\ first \cap second = {}
      /\ gone \cap (completed \cup buffered) = {} /\ gone \subseteq Children
      /\ t.buffered \subseteq buffered /\ t.surfacing = surfacing'
      /\ surfacing' \subseteq surfacing \cup gone /\ surfacing' \subseteq Children
      /\ t.handleOnly \subseteq Children /\ t.caller \in [Children -> CallerStates]
      /\ \A d \in Children \ gone : t.caller[d] = caller[d] \/ (d \in Live /\ t.caller[d] = "dropped")
      /\ out \in [Children -> Outcomes]
      /\ killed \ gone \subseteq killed' /\ killed \cap Live \subseteq killed'
      /\ killed' \subseteq Children /\ cancelled' \subseteq Children
  BY DEF FinishStep
<1>2. /\ RegistryTypeOK /\ RecordsTypeOK /\ FreshIds /\ ReplyHeldLive /\ CompletionReachesParent
      /\ ArrivalOrder /\ completed \cap Live = {}
  BY DEF RegistryInv, RegistryConsistent, RecordInv
<1>3. Live' = Live \ gone
  BY <1>1, FinishTables
<1>4. /\ completed' \subseteq completed \cup gone
      /\ buffered' \subseteq buffered \cup gone
      /\ finished' \subseteq Appended(first, second, t)
  BY <1>1, FinishAppends
<1>5. /\ DOMAIN caller' = Children
      /\ \A d \in Children \ gone : caller'[d] = t.caller[d]
      /\ \A d \in gone :
           \/ t.caller[d] = "waiting" /\ caller'[d] = "answered"
           \/ t.caller[d] = "gone" /\ caller'[d] = "dropped"
           \/ t.caller[d] \notin {"waiting", "gone"} /\ caller'[d] = t.caller[d]
  BY <1>1, FinishAnswers
<1>6. /\ DOMAIN result' = Children /\ DOMAIN delivery' = Children
      /\ \A d \in Children \ gone : result'[d] = result[d] /\ delivery'[d] = delivery[d]
      /\ \A d \in gone :
           /\ result'[d] = out[d]
           /\ delivery'[d] \in SUBSET {"foreground", "waiter", "surfaced"}
           /\ "surfaced" \in delivery'[d] => delivery'[d] = {"surfaced"}
           /\ "foreground" \in delivery'[d] => t.caller[d] = "waiting"
           /\ /\ d \in t.surfacing /\ out[d] # "cancelled"
              /\ d \notin killed \cap (pending \cup active)
              => delivery'[d] # {}
  BY <1>1, FinishDelivers
<1>7. defBackground' \subseteq defBackground /\ handleOnly' \subseteq t.handleOnly \cup queued
  BY <1>1, FinishWakes
<1>8. \A p \in Appended(first, second, t) : p \in Children \X Children
  BY <1>1, <1>2 DEF Appended, RegistryTypeOK, RecordsTypeOK
<1>9. \A c \in Children : <<c, c>> \notin Appended(first, second, t)
  BY <1>1, <1>2 DEF Appended, FreshIds, ArrivalOrder
<1>10. caller' \in [Children -> CallerStates]
  <2>1. \A d \in Children : caller'[d] \in CallerStates
    BY <1>1, <1>5 DEF CallerStates
  <2>2. caller' = [d \in Children |-> caller'[d]]
    BY Zenon DEF FinishChild, FinishStep
  <2> QED
    BY <2>1, <2>2
<1>11. result' \in [Children -> Outcomes]
  <2>1. \A d \in Children : result'[d] \in Outcomes
    BY <1>1, <1>2, <1>6 DEF RecordsTypeOK
  <2>2. result' = [d \in Children |-> IF d \in gone THEN out[d] ELSE result[d]]
    BY <1>1, Zenon DEF FinishChild
  <2> QED
    BY <2>1, <2>2
<1>12. delivery' \in [Children -> SUBSET {"foreground", "waiter", "surfaced"}]
  <2>1. \A d \in Children : delivery'[d] \in SUBSET {"foreground", "waiter", "surfaced"}
    BY <1>2, <1>6 DEF RecordsTypeOK
  <2>2. delivery' = [d \in Children |-> delivery'[d]]
    BY Zenon DEF FinishChild, FinishStep
  <2> QED
    BY <2>1, <2>2
<1> HIDE DEF gone
<1>13. RecordsTypeOK'
  <2>1. buffered' \subseteq Children /\ finished' \subseteq Children \X Children
    BY <1>1, <1>2, <1>4, <1>8 DEF RecordsTypeOK
  <2>2. handleOnly' \subseteq Children /\ defBackground' \subseteq Children
    BY <1>1, <1>2, <1>7 DEF RecordsTypeOK, RegistryTypeOK
  <2> QED
    BY <1>1, <1>10, <1>11, <1>12, <2>1, <2>2 DEF RecordsTypeOK, CallerStates
<1>14. FreshIds'
  BY <1>2, <1>3, <1>4, <1>9 DEF FreshIds
<1>15. ReplyHeldLive'
  <2> SUFFICES ASSUME NEW c \in Children, caller'[c] \in {"waiting", "gone"} PROVE c \in Live'
    BY DEF ReplyHeldLive, HoldsReply
  <2>1. c \notin gone
    BY <1>5
  <2>2. caller[c] \in {"waiting", "gone"}
    BY <1>1, <1>5, <2>1
  <2> QED
    BY <1>2, <1>3, <2>1, <2>2 DEF ReplyHeldLive, HoldsReply
<1>16. CompletionReachesParent'
  <2> SUFFICES ASSUME NEW c \in completed'
               PROVE  /\ "surfaced" \in delivery'[c] => delivery'[c] = {"surfaced"}
                      /\ caller'[c] \in {"handed", "dropped"} => "foreground" \notin delivery'[c]
                      /\ c \in surfacing' /\ c \notin killed' /\ result'[c] # "cancelled" =>
                           delivery'[c] # {}
    BY DEF CompletionReachesParent
  <2>1. CASE c \in gone
    <3>1. c \notin killed' => c \notin killed \cap (pending \cup active)
      BY <1>1 DEF Live
    <3>2. caller'[c] \in {"handed", "dropped"} => t.caller[c] # "waiting"
      BY <1>5, <2>1
    <3> QED
      BY <1>1, <1>6, <2>1, <3>1, <3>2
  <2>2. CASE c \notin gone
    <3>1. c \in completed /\ c \in Children /\ c \notin Live
      BY <1>2, <1>4, <2>2 DEF RegistryTypeOK
    <3>2. /\ caller'[c] = caller[c] /\ delivery'[c] = delivery[c] /\ result'[c] = result[c]
          /\ c \in surfacing' => c \in surfacing
          /\ c \in killed => c \in killed'
      BY <1>1, <1>5, <1>6, <2>2, <3>1
    <3> QED
      BY <1>2, <3>1, <3>2 DEF CompletionReachesParent
  <2> QED
    BY <2>1, <2>2
<1> QED
  BY <1>13, <1>14, <1>15, <1>16 DEF RecordInv

\* A spawn that starts or parks uses an id without a record.
LEMMA SpawnKeeps ==
  ASSUME RegistryInv, RecordInv, NEW c \in Children, NEW r \in Requests,
         SpawnStarts(c, r) \/ SpawnEnqueues(c, r)
  PROVE  RecordInv'
<1>1. /\ Live' = Live \cup {c} /\ c \notin Live \cup completed \cup buffered
      /\ UNCHANGED <<completed, buffered, finished, defBackground, result, delivery>>
      /\ caller' = [caller EXCEPT ![c] = "waiting"]
      /\ handleOnly' \subseteq handleOnly \cup {c}
  BY DEF SpawnStarts, SpawnEnqueues, SpawnAccepted, Live
<1>2. /\ surfacing' \subseteq surfacing \cup {c} /\ killed' = killed \ {c}
      /\ cancelled' = cancelled \ {c}
  <2>1. Register(c, Reparented(r))
    BY DEF SpawnStarts, SpawnEnqueues
  <2> QED
    BY <2>1 DEF Register
<1>3. RecordsTypeOK /\ completed \subseteq Children
  BY DEF RecordInv, RegistryInv, RegistryTypeOK
<1>4. RecordsTypeOK'
  BY <1>1, <1>2, <1>3 DEF RecordsTypeOK
<1>5. FreshIds'
  BY <1>1 DEF RecordInv, FreshIds
<1>6. \A d \in Children \ {c} : caller'[d] = caller[d]
  BY <1>1, <1>3 DEF RecordsTypeOK
<1>7. ReplyHeldLive'
  BY <1>1, <1>6 DEF RecordInv, ReplyHeldLive, HoldsReply
<1>8. CompletionReachesParent'
  BY <1>1, <1>2, <1>3, <1>6 DEF RecordInv, CompletionReachesParent
<1> QED
  BY <1>4, <1>5, <1>7, <1>8 DEF RecordInv

\* The drop uses up every sender that is left.
LEMMA DropKeepsRecords ==
  ASSUME RegistryInv, RecordInv, NEW how, DropCoordinator(how)
  PROVE  RecordInv'
<1>1. /\ queued' = {} /\ pending' = {} /\ active' = {} /\ completed' = {} /\ buffered' = {}
      /\ finished' = {} /\ surfacing' = {} /\ handleOnly' = {} /\ defBackground' = {}
      /\ killed' = {} /\ cancelled' = cancelled \cup Live /\ result' = result
      /\ delivery' = [c \in Children |-> {}]
      /\ caller' = [c \in Children |->
                      IF c \in Live /\ HoldsReply(c)
                      THEN (IF c \in queued /\ caller[c] = "waiting" THEN "answered" ELSE "dropped")
                      ELSE caller[c]]
  BY DEF DropCoordinator
<1>2. RecordsTypeOK /\ Live \subseteq Children
  BY DEF RecordInv, RegistryInv, RegistryTypeOK, Live
<1>3. RecordsTypeOK'
  BY <1>1, <1>2 DEF RecordsTypeOK
<1>4. FreshIds' /\ CompletionReachesParent'
  BY <1>1 DEF FreshIds, CompletionReachesParent
<1>5. ReplyHeldLive'
  BY <1>1 DEF RecordInv, ReplyHeldLive, HoldsReply
<1> QED
  BY <1>3, <1>4, <1>5 DEF RecordInv

\* Each of RecordTurn's things keeps RecordInv.
LEMMA RecordTurnKeeps ==
  ASSUME RegistryInv, RecordInv, RecordTurn
  PROVE  RecordInv'
BY TendedKeeps, FinishKeeps, SpawnKeeps, DropKeepsRecords DEF RecordTurn, FinishesRecords

\* Turns that touch no record.
LEMMA UntouchedIsTended ==
  ASSUME RegistryInv, RecordInv, UNCHANGED <<registry, records>>
  PROVE  Tended
BY DEF RecordInv, RecordsTypeOK, CallerStates, registry, records, Live, Tended

\* A command does one of RecordTurn's things to the records.
LEMMA CommandRecords == RegistryInv /\ RecordInv /\ Commands => RecordTurn
<1> SUFFICES ASSUME RegistryInv, RecordInv, Commands PROVE RecordTurn
  OBVIOUS
<1>0. /\ RecordsTypeOK /\ FreshIds /\ Live \subseteq Children
      /\ pending \cup active \subseteq Children
  BY DEF RecordInv, RegistryInv, RegistryTypeOK, Live
<1>1. CASE \E c \in Children, r \in Requests : HandleSpawn(c, r)
  BY <1>0, <1>1, SpawnFailsFinishes DEF HandleSpawn, RecordTurn, FinishesRecords
<1>2. CASE \E c \in Children, s \in HostSessions \cup {AnySession} : CancelOne(c, s)
  <2>1. PICK c \in Live : /\ CancelChildren({c}, Now) /\ surfacing' = surfacing
                          /\ killed' = IF c \in queued THEN killed ELSE killed \cup {c}
    BY <1>2 DEF CancelOne
  <2>2. {c} \in SUBSET Live /\ killed \subseteq killed' /\ killed' \subseteq Children
    BY <1>0, <2>1 DEF RecordsTypeOK
  <2> QED
    BY <1>0, <2>1, <2>2, NowFields, CancelFinishesRecords DEF RecordTurn
<1>3. CASE \/ \E p \in Prompts, s \in HostSessions \cup {AnySession} : CancelParentPrompt(p, s)
           \/ \E s \in HostSessions : CancelParentSession(s)
  <2>1. /\ \E sel \in SUBSET Live : CancelChildren(sel, Now)
        /\ UNCHANGED <<surfacing, killed>>
    BY <1>3 DEF CancelParentPrompt, CancelParentSession
  <2>2. killed' \subseteq Children
    BY <1>0, <2>1 DEF RecordsTypeOK
  <2> QED
    BY <1>0, <2>1, <2>2, NowFields, CancelFinishesRecords DEF RecordTurn
<1>4. CASE \E s \in HostSessions : \E by \in {{}} \cup {{a} : a \in Askers} :
             TeardownSession(s, by)
  <2>1. PICK s \in HostSessions : \E by : TeardownSession(s, by)
    BY <1>4
  <2> DEFINE sel == {c \in Live : req[c].session = s}
             keep == {c \in buffered : req[c].session # s}
             t == [Now EXCEPT !.surfacing = surfacing \ sel, !.buffered = keep]
  <2>2. CancelChildren(sel, t) /\ surfacing' = surfacing \ sel /\ killed' = killed
    BY <2>1, Zenon DEF TeardownSession
  <2>3. sel \in SUBSET Live /\ keep \subseteq buffered
    OBVIOUS
  <2> HIDE DEF sel, keep
  <2>4. /\ t.req = req /\ t.caller = caller /\ t.handleOnly = handleOnly
        /\ t.surfacing = surfacing \ sel /\ t.buffered = keep
    BY DEF Now
  <2> HIDE DEF t
  <2>5. killed' \subseteq Children /\ surfacing' \subseteq surfacing
    BY <1>0, <2>2 DEF RecordsTypeOK
  <2>6. FinishesRecords
    BY <1>0, <2>2, <2>3, <2>4, <2>5, CancelFinishesRecords
  <2> QED
    BY <2>6 DEF RecordTurn
<1>5. CASE \E r \in RunIds, s \in HostSessions \cup {AnySession}, a \in Askers :
             CancelWorkflow(r, s, a)
  <2>1. /\ UNCHANGED <<registry, surfacing, caller, handleOnly, defBackground, killed, result,
                       delivery>>
        /\ cancelled' \subseteq cancelled \cup pending \cup active
    BY <1>5 DEF CancelWorkflow
  <2>2. Tended
    BY <1>0, <2>1 DEF RecordsTypeOK, CallerStates, registry, Live, Tended
  <2> QED
    BY <2>2 DEF RecordTurn
<1>6. CASE \/ \E s \in HostSessions : OpenSpawnAdmission(s)
           \/ \E a \in Askers, c \in Children, block \in BOOLEAN : HandleQuery(a, c, block)
           \/ \E a \in Askers, scope \in Scopes : WaitPromptDrained(a, scope)
  <2>1. UNCHANGED <<registry, records>>
    BY <1>6 DEF OpenSpawnAdmission, HandleQuery, WaitPromptDrained
  <2> QED
    BY <2>1, UntouchedIsTended DEF RecordTurn
<1>7. CASE \E s \in HostSessions \cup {AnySession} : Completions(s)
  <2>1. /\ UNCHANGED <<queued, pending, active, completed, records>>
        /\ buffered' \subseteq buffered /\ finished' \subseteq finished
    BY <1>7 DEF Completions
  <2>2. Tended
    BY <1>0, <2>1 DEF RecordsTypeOK, CallerStates, records, Live, Tended
  <2> QED
    BY <2>2 DEF RecordTurn
<1> QED
  BY <1>1, <1>2, <1>3, <1>4, <1>5, <1>6, <1>7 DEF Commands

\* So does an event of a run ...
LEMMA RunRecords == RegistryInv /\ RecordInv /\ RunEvents => RecordTurn
<1> SUFFICES ASSUME RegistryInv, RecordInv, RunEvents PROVE RecordTurn
  OBVIOUS
<1>0. RecordsTypeOK /\ FreshIds /\ Live \subseteq Children
  BY DEF RecordInv, RegistryInv, RegistryTypeOK, Live
<1>1. CASE \E c \in Children, background \in BOOLEAN : Started(c, background)
  <2>1. PICK c \in Children, background \in BOOLEAN : Started(c, background)
    BY <1>1
  <2>2. /\ UNCHANGED <<queued, completed, buffered, finished, surfacing, caller, handleOnly,
                       killed, cancelled, result, delivery>>
        /\ Live' = Live /\ defBackground' \subseteq defBackground \cup {c}
    BY <2>1 DEF Started, Live
  <2>3. Tended
    BY <1>0, <2>2 DEF RecordsTypeOK, CallerStates, Tended
  <2> QED
    BY <2>3 DEF RecordTurn
<1>2. CASE \/ \E c \in Children : StartRefused(c) \/ Finalizing(c)
           \/ \E a \in Askers, c \in Children : FinishProgress(a, c)
  <2>1. UNCHANGED <<registry, records>>
    BY <1>2 DEF StartRefused, Finalizing, FinishProgress
  <2> QED
    BY <2>1, UntouchedIsTended DEF RecordTurn
<1>3. CASE \E c \in Children, out \in Outcomes : RunReturns(c, out)
  <2>1. PICK c \in Children, out \in Outcomes : RunReturns(c, out)
    BY <1>3
  <2> DEFINE isClean == c \in active => clean[c]
  <2>2. c \in runs /\ FinishTerminalizedChild(c, out, isClean)
    BY <2>1, Zenon DEF RunReturns
  <2>3. isClean \in BOOLEAN
    OBVIOUS
  <2> HIDE DEF isClean
  <2>4. FinishesRecords
    BY <1>0, <2>2, <2>3, TerminalFinishesRecords
  <2> QED
    BY <2>4 DEF RecordTurn
<1>4. CASE \E c \in Children, out \in Outcomes : RunBuffered(c, out)
  <2>1. PICK c \in Children, out \in Outcomes : RunBuffered(c, out)
    BY <1>4
  <2>2. /\ UNCHANGED <<registry, surfacing, caller, handleOnly, defBackground, killed, cancelled,
                       delivery>>
        /\ c \in active /\ result' = [result EXCEPT ![c] = out]
    BY <2>1 DEF RunBuffered
  <2>3. Tended
    BY <1>0, <2>2 DEF RecordsTypeOK, CallerStates, registry, Live, Tended
  <2> QED
    BY <2>3 DEF RecordTurn
<1> QED
  BY <1>1, <1>2, <1>3, <1>4 DEF RunEvents

\* ... and every other step.
LEMMA OtherRecords ==
  RegistryInv /\ RecordInv /\ (MessageEvents \/ Environment \/ Timers \/ Ends) => RecordTurn
<1> SUFFICES ASSUME RegistryInv, RecordInv, MessageEvents \/ Environment \/ Timers \/ Ends
             PROVE  RecordTurn
  OBVIOUS
<1>0. RecordsTypeOK /\ FreshIds /\ Live \subseteq Children /\ terminalOutputs \subseteq Children
  BY DEF RecordInv, RegistryInv, RegistryTypeOK, Live
<1>1. CASE UNCHANGED <<registry, records>>
  BY <1>1, UntouchedIsTended DEF RecordTurn
<1>2. CASE \E m \in Messages, how \in Ready : FinishLastActiveMessage(m, how)
  <2>1. PICK m \in Messages, how \in Ready : FinishLastActiveMessage(m, how)
    BY <1>2
  <2> DEFINE c == msgTo[m]
             isClean == clean[c] /\ Settles(m, how)
  <2>2. c \in terminalOutputs /\ FinishTerminalizedChild(c, result[c], isClean)
    BY <2>1, Zenon DEF FinishLastActiveMessage
  <2>3. isClean \in BOOLEAN /\ result[c] \in Outcomes
    BY <1>0, <2>2 DEF RecordsTypeOK
  <2> HIDE DEF isClean, c
  <2>4. FinishesRecords
    BY <1>0, <2>2, <2>3, TerminalFinishesRecords
  <2> QED
    BY <2>4 DEF RecordTurn
<1>3. CASE MessageEvents
  BY <1>1, <1>2, <1>3 DEF MessageEvents, SendActiveMessage, HandleSendActiveMessage,
                          HostClaims, HostCommits, FinishActiveMessage
<1>4. CASE \E c \in Children : CallerDrops(c) \/ CancelToken(c) \/ BudgetExpires(c)
  <2>1. PICK c \in Live :
          /\ UNCHANGED <<registry, surfacing, defBackground, killed, result, delivery>>
          /\ cancelled' \subseteq cancelled \cup {c} /\ handleOnly' \subseteq handleOnly \cup {c}
          /\ \/ caller' = caller
             \/ \E w \in CallerStates : caller' = [caller EXCEPT ![c] = w]
    BY <1>4 DEF CallerDrops, CancelToken, BudgetExpires, CallerStates, RecordInv, RecordsTypeOK
  <2>2. Tended
    BY <1>0, <2>1 DEF RecordsTypeOK, CallerStates, registry, Live, Tended
  <2> QED
    BY <2>2 DEF RecordTurn
<1>5. CASE \/ \E a \in Askers : AskerDrops(a)
           \/ \E a \in Askers, c \in Children : QueryExpires(a, c)
           \/ \E s \in Owners : TeardownExpires(s)
           \/ \E m \in Messages : SpawnReadyExpires(m)
           \/ CloseChannels
  BY <1>1, <1>5 DEF AskerDrops, QueryExpires, TeardownExpires, SpawnReadyExpires, CloseChannels
<1>6. CASE Reap
  BY <1>0, <1>6, ReapFinishesRecords DEF RecordTurn
<1>7. CASE ActorExits \/ ActorDropped
  BY <1>7 DEF ActorExits, ActorDropped, RecordTurn
<1> QED
  BY <1>3, <1>4, <1>5, <1>6, <1>7 DEF Environment, Timers, Ends

\* Every step is one of those turns.
LEMMA EveryRecordTurn == RegistryInv /\ RecordInv /\ [Next]_vars => RecordTurn
<1>1. ASSUME RegistryInv, RecordInv, Next PROVE RecordTurn
  BY <1>1, CommandRecords, RunRecords, OtherRecords DEF Next
<1>2. ASSUME RegistryInv, RecordInv, UNCHANGED vars PROVE RecordTurn
  <2>1. UNCHANGED <<registry, records>>
    BY <1>2 DEF vars
  <2> QED
    BY <1>2, <2>1, UntouchedIsTended DEF RecordTurn
<1> QED
  BY <1>1, <1>2

\* An idle coordinator satisfies RecordInv.
LEMMA InitRecords == Init => RecordInv
<1> SUFFICES ASSUME Init PROVE RecordInv
  OBVIOUS
<1>1. RecordsTypeOK
  BY DEF Init, RecordsTypeOK, Outcomes
<1>2. FreshIds /\ CompletionReachesParent
  BY DEF Init, FreshIds, CompletionReachesParent
<1>3. ReplyHeldLive
  BY DEF Init, ReplyHeldLive, HoldsReply
<1> QED
  BY <1>1, <1>2, <1>3 DEF RecordInv

\* The invariant of the records is inductive.
THEOREM RecordInvariant == Spec => []RecordInv
<1>1. RegistryInv /\ RecordInv /\ [Next]_vars => RecordInv'
  BY EveryRecordTurn, RecordTurnKeeps
<1> QED
  BY <1>1, InitRecords, RegistryInvariant, PTL DEF Spec

\* finish_child tells the parent of a completion exactly as often as it should:
\* never twice, and at least once unless the child was cancelled or killed,
\* whatever became of the caller while the child was queued or running.
THEOREM CompletionReachesParentHolds == Spec => []CompletionReachesParent
<1>1. RecordInv => CompletionReachesParent
  BY DEF RecordInv
<1> QED
  BY <1>1, RecordInvariant, PTL

-----------------------------------------------------------------------------
(***************************************************************************)
(* Who waits: types.                                                       *)
(***************************************************************************)

\* The epilogue of a turn leaves askers in the drains.
LEMMA DrainTyped ==
  ASSUME NEW parked \in [Scopes -> SUBSET Askers], ResolveDrainWaiters(parked)
  PROVE  drainWaiters' \in [Scopes -> SUBSET Askers]
<1>1. \A scope \in Scopes : drainWaiters'[scope] \in SUBSET Askers
  BY DEF ResolveDrainWaiters
<1>2. drainWaiters' = [scope \in Scopes |-> drainWaiters'[scope]]
  BY Zenon DEF ResolveDrainWaiters
<1> QED
  BY <1>1, <1>2

\* What finish_child leaves of the waiters is typed.
LEMMA FinishTyped ==
  ASSUME WaitsTypeOK, NEW first, NEW second, NEW out, NEW t, FinishChild(first, second, out, t)
  PROVE  /\ waiters' \in [Children -> SUBSET Askers]
         /\ wfWaiters' \in [RunIds -> SUBSET Askers]
<1>1. /\ waiters' = [d \in Children |-> IF d \in first \cup second THEN {} ELSE waiters[d]]
      /\ wfWaiters' = [r \in RunIds |->
                  IF /\ \E d \in first \cup second : t.req[d].run = r
                     /\ \A d \in (pending \cup active) \ (first \cup second) : t.req[d].run # r
                  THEN {} ELSE wfWaiters[r]]
  BY FinishWakes
<1>2. waiters' \in [Children -> SUBSET Askers]
  BY <1>1 DEF WaitsTypeOK
<1>3. wfWaiters' \in [RunIds -> SUBSET Askers]
  BY <1>1 DEF WaitsTypeOK
<1> QED
  BY <1>2, <1>3

\* Clearing the drained teardowns keeps the types of the waits.
LEMMA ClearTyped ==
  ASSUME WaitsTypeOK, NEW ss, ClearTeardownDrains(ss)
  PROVE  blocked' \subseteq Owners /\ teardownDrains' \in [Owners -> SUBSET Askers]
BY DEF WaitsTypeOK, ClearTeardownDrains

\* Every step keeps the types of the waits.
LEMMA WaitTypesStep ==
  ASSUME RegistryInv, WaitsTypeOK, Next
  PROVE  WaitsTypeOK'
<1> DEFINE Rest == /\ blocked' \subseteq Owners /\ teardownDrains' \in [Owners -> SUBSET Askers]
                   /\ waiters' \in [Children -> SUBSET Askers]
                   /\ wfWaiters' \in [RunIds -> SUBSET Askers]
                   /\ progress' \subseteq Askers \X Children /\ closed' \subseteq Askers
                   /\ UNCHANGED ends
<1>1. ASSUME Rest, drainWaiters' \in [Scopes -> SUBSET Askers] PROVE WaitsTypeOK'
  BY <1>1 DEF WaitsTypeOK, ends
<1>2. ASSUME Rest, ResolveDrainWaiters(drainWaiters) PROVE WaitsTypeOK'
  BY <1>1, <1>2, DrainTyped DEF WaitsTypeOK
<1>3. ASSUME UNCHANGED <<blocked, waits, ends>>,
             drainWaiters' = drainWaiters \/ ResolveDrainWaiters(drainWaiters)
      PROVE  WaitsTypeOK'
  BY <1>1, <1>2, <1>3 DEF waits, WaitsTypeOK
<1>4. CASE \E c \in Children, r \in Requests : HandleSpawn(c, r)
  <2>1. CASE \E c \in Children, r \in Requests : SpawnStarts(c, r) \/ SpawnEnqueues(c, r)
    BY <1>3, <2>1 DEF SpawnStarts, SpawnEnqueues
  <2>2. CASE \E c \in Children, r \in Requests : SpawnFails(c, r)
    <3>1. /\ UNCHANGED <<blocked, teardownDrains, progress, closed, ends>>
          /\ ResolveDrainWaiters(drainWaiters)
      BY <2>2 DEF SpawnFails
    <3>2. \E first, second, out, t : FinishChild(first, second, out, t)
      BY <2>2, Zenon DEF SpawnFails
    <3> QED
      BY <1>2, <3>1, <3>2, FinishTyped DEF WaitsTypeOK
  <2> QED
    BY <1>4, <2>1, <2>2 DEF HandleSpawn
<1>5. ASSUME NEW sel, NEW t, CancelChildren(sel, t)
      PROVE  /\ waiters' \in [Children -> SUBSET Askers]
             /\ wfWaiters' \in [RunIds -> SUBSET Askers] /\ UNCHANGED <<progress, ends>>
  BY <1>5, FinishTyped DEF CancelChildren
<1>6. CASE \/ \E c \in Children, s \in HostSessions \cup {AnySession} : CancelOne(c, s)
           \/ \E p \in Prompts, s \in HostSessions \cup {AnySession} : CancelParentPrompt(p, s)
  <2>1. /\ \E sel, t : CancelChildren(sel, t) /\ \E ss : ClearTeardownDrains(ss)
        /\ closed' = closed /\ ResolveDrainWaiters(drainWaiters)
    BY <1>6, Zenon DEF CancelOne, CancelParentPrompt
  <2> QED
    BY <1>2, <1>5, <2>1, ClearTyped DEF WaitsTypeOK
<1>7. CASE \E s \in HostSessions : CancelParentSession(s)
  <2>1. /\ \E sel, t : CancelChildren(sel, t)
        /\ closed' = closed /\ ResolveDrainWaiters(drainWaiters)
    BY <1>7, Zenon DEF CancelParentSession
  <2>2. blocked' \subseteq Owners /\ teardownDrains' \in [Owners -> SUBSET Askers]
    BY <1>7, HostSessionsAssumption DEF CancelParentSession, WaitsTypeOK
  <2> QED
    BY <1>2, <1>5, <2>1, <2>2 DEF WaitsTypeOK
<1>8. CASE \E r \in RunIds, s \in HostSessions \cup {AnySession}, a \in Askers :
             CancelWorkflow(r, s, a)
  BY <1>2, <1>8 DEF CancelWorkflow, WaitsTypeOK
<1>9. CASE \E s \in HostSessions : \E by \in {{}} \cup {{a} : a \in Askers} :
             TeardownSession(s, by)
  <2>1. PICK s \in HostSessions, by \in {{}} \cup {{a} : a \in Askers} : TeardownSession(s, by)
    BY <1>9
  <2>2. by \in SUBSET Askers
    OBVIOUS
  <2>3. \E sel, t : CancelChildren(sel, t)
    BY <2>1, Zenon DEF TeardownSession
  <2>4. ResolveDrainWaiters(drainWaiters) /\ closed' \subseteq Askers
    BY <2>1 DEF TeardownSession, WaitsTypeOK
  <2>5. teardownDrains' \in [Owners -> SUBSET Askers]
    BY <2>1, <2>2 DEF TeardownSession, WaitsTypeOK
  <2>6. blocked' \subseteq Owners
    BY <2>1, HostSessionsAssumption DEF TeardownSession, WaitsTypeOK
  <2> QED
    BY <1>2, <1>5, <2>3, <2>4, <2>5, <2>6 DEF WaitsTypeOK
<1>10. CASE \E s \in HostSessions : OpenSpawnAdmission(s)
  BY <1>2, <1>10 DEF OpenSpawnAdmission, waits, WaitsTypeOK
<1>11. CASE \E a \in Askers, c \in Children, block \in BOOLEAN : HandleQuery(a, c, block)
  BY <1>2, <1>11 DEF HandleQuery, WaitsTypeOK
<1>12. CASE \E a \in Askers, scope \in Scopes : WaitPromptDrained(a, scope)
  <2>1. PICK a \in Askers, scope \in Scopes : WaitPromptDrained(a, scope)
    BY <1>12
  <2> DEFINE parked == [drainWaiters EXCEPT ![scope] = @ \cup {a}]
  <2>2. parked \in [Scopes -> SUBSET Askers]
    BY DEF WaitsTypeOK
  <2>3. ResolveDrainWaiters(parked)
    BY <2>1 DEF WaitPromptDrained
  <2> HIDE DEF parked
  <2>4. drainWaiters' \in [Scopes -> SUBSET Askers]
    BY <2>2, <2>3, DrainTyped
  <2> QED
    BY <1>1, <2>1, <2>4 DEF WaitPromptDrained, WaitsTypeOK
<1>13. CASE \E s \in HostSessions \cup {AnySession} : Completions(s)
  BY <1>3, <1>13 DEF Completions
<1>14. CASE Commands
  BY <1>4, <1>6, <1>7, <1>8, <1>9, <1>10, <1>11, <1>12, <1>13, <1>14 DEF Commands
<1>15. ASSUME NEW c, NEW out, NEW isClean, FinishTerminalizedChild(c, out, isClean),
              UNCHANGED ends, ResolveDrainWaiters(drainWaiters)
       PROVE  WaitsTypeOK'
  <2>1. \E o : FinishChild({c}, CancelledQueued, o, Now)
    BY <1>15, Zenon DEF FinishTerminalizedChild
  <2>2. /\ \E ss : ClearTeardownDrains(ss) /\ UNCHANGED <<progress, closed>>
    BY <1>15 DEF FinishTerminalizedChild
  <2> QED
    BY <1>2, <1>15, <2>1, <2>2, FinishTyped, ClearTyped DEF WaitsTypeOK
<1>16. CASE RunEvents
  <2>1. CASE \/ \E c \in Children, background \in BOOLEAN : Started(c, background)
             \/ \E c \in Children : StartRefused(c) \/ Finalizing(c)
             \/ \E c \in Children, out \in Outcomes : RunBuffered(c, out)
    BY <1>3, <2>1 DEF Started, StartRefused, Finalizing, RunBuffered
  <2>2. CASE \E c \in Children, out \in Outcomes : RunReturns(c, out)
    BY <1>15, <2>2 DEF RunReturns
  <2>3. CASE \E a \in Askers, c \in Children : FinishProgress(a, c)
    BY <1>2, <2>3 DEF FinishProgress, WaitsTypeOK
  <2> QED
    BY <1>16, <2>1, <2>2, <2>3 DEF RunEvents
<1>17. CASE MessageEvents
  <2>1. CASE \E m \in Messages, how \in Ready : FinishLastActiveMessage(m, how)
    BY <1>15, <2>1 DEF FinishLastActiveMessage
  <2> QED
    BY <1>3, <1>17, <2>1 DEF MessageEvents, SendActiveMessage, HandleSendActiveMessage,
                             HostClaims, HostCommits, FinishActiveMessage
<1>18. CASE Environment
  <2>1. CASE \E a \in Askers : AskerDrops(a)
    BY <1>1, <2>1 DEF AskerDrops, WaitsTypeOK
  <2> QED
    BY <1>3, <1>18, <2>1 DEF Environment, CallerDrops, CancelToken
<1>19. CASE Timers
  <2>1. CASE Reap
    <3>1. \E t : FinishChild(CancelledQueued, {}, AllCancelled, t)
      BY <2>1, Zenon DEF Reap
    <3>2. /\ \E ss : ClearTeardownDrains(ss) /\ UNCHANGED <<progress, closed, ends>>
          /\ ResolveDrainWaiters(drainWaiters)
      BY <2>1 DEF Reap
    <3> QED
      BY <1>2, <3>1, <3>2, FinishTyped, ClearTyped DEF WaitsTypeOK
  <2>2. CASE \E a \in Askers, c \in Children : QueryExpires(a, c)
    BY <1>2, <2>2 DEF QueryExpires, WaitsTypeOK
  <2>3. CASE \E s \in Owners : TeardownExpires(s)
    BY <1>2, <2>3, ClearTyped DEF TeardownExpires, WaitsTypeOK
  <2> QED
    BY <1>3, <1>19, <2>1, <2>2, <2>3 DEF Timers, BudgetExpires, SpawnReadyExpires
<1>20. CASE Ends
  <2>1. CASE CloseChannels
    BY <2>1 DEF CloseChannels, waits, WaitsTypeOK
  <2>2. CASE \E how \in {"exited", "dropped"} : DropCoordinator(how)
    BY <2>2 DEF DropCoordinator, WaitsTypeOK
  <2> QED
    BY <1>20, <2>1, <2>2 DEF Ends, ActorExits, ActorDropped
<1> QED
  BY <1>14, <1>16, <1>17, <1>18, <1>19, <1>20 DEF Next

-----------------------------------------------------------------------------
(***************************************************************************)
(* Prompt drains.                                                          *)
(***************************************************************************)
DrainsBlocked == \A scope \in Scopes : drainWaiters[scope] # {} => LiveTurnBlocking(scope) # {}

\* resolve_drain_waiters ends every turn that could take the last turn-blocking
\* child of a scope away; what runs beside the actor takes none away.
LEMMA DrainsBlockedStep ==
  ASSUME DrainsBlocked, [Next]_vars
  PROVE  DrainsBlocked'
<1>1. ASSUME NEW parked, ResolveDrainWaiters(parked) PROVE DrainsBlocked'
  BY <1>1 DEF ResolveDrainWaiters, DrainsBlocked
<1>2. ASSUME UNCHANGED <<queued, pending, active, req, handleOnly, defBackground, drainWaiters>>,
             \A c \in Live : HoldsReply(c)' = HoldsReply(c)
      PROVE  DrainsBlocked'
  <2>1. \A scope \in Scopes : LiveTurnBlocking(scope)' = LiveTurnBlocking(scope)
    BY <1>2 DEF LiveTurnBlocking, IsWorkflow, Live
  <2> QED
    BY <1>2, <2>1 DEF DrainsBlocked
<1>3. CASE \E how : DropCoordinator(how)
  BY <1>3 DEF DropCoordinator, DrainsBlocked
<1>4. CASE \E c \in Children : CallerDrops(c)
  <2>1. PICK c \in Children : CallerDrops(c)
    BY <1>4
  <2>2. UNCHANGED <<queued, pending, active, req, handleOnly, defBackground, drainWaiters>>
    BY <2>1 DEF CallerDrops, registry
  <2>3. /\ caller' = [caller EXCEPT ![c] = "gone"] /\ caller[c] = "waiting"
    BY <2>1 DEF CallerDrops
  <2>4. \A d \in Live : HoldsReply(d)' = HoldsReply(d)
    BY <2>3 DEF HoldsReply
  <2> QED
    BY <1>2, <2>2, <2>4
<1>5. CASE \/ UNCHANGED vars \/ CloseChannels
           \/ \E a \in Askers : AskerDrops(a)
           \/ \E c \in Children : CancelToken(c)
           \/ \E m \in Messages, c \in Children, from \in HostSessions :
                SendActiveMessage(m, c, from)
           \/ \E m \in Messages : HostClaims(m) \/ HostCommits(m)
  <2>1. UNCHANGED <<queued, pending, active, req, handleOnly, defBackground, drainWaiters, caller>>
    BY <1>5 DEF vars, registry, records, CloseChannels, AskerDrops, CancelToken,
                SendActiveMessage, HostClaims, HostCommits
  <2>2. \A d \in Live : HoldsReply(d)' = HoldsReply(d)
    BY <2>1 DEF HoldsReply
  <2> QED
    BY <1>2, <2>1, <2>2
<1>6. CASE Commands
  BY <1>1, <1>6 DEF Commands, HandleSpawn, SpawnStarts, SpawnEnqueues, SpawnFails, CancelOne,
     CancelParentPrompt, CancelParentSession, CancelWorkflow, TeardownSession,
     OpenSpawnAdmission, HandleQuery, WaitPromptDrained, Completions
<1>7. CASE RunEvents
  BY <1>1, <1>7 DEF RunEvents, Started, StartRefused, Finalizing, RunReturns, RunBuffered,
     FinishProgress
<1>8. CASE \/ \E m \in Messages : HandleSendActiveMessage(m)
           \/ \E m \in Messages, how \in Ready :
                FinishActiveMessage(m, how) \/ FinishLastActiveMessage(m, how)
  BY <1>1, <1>8 DEF HandleSendActiveMessage, FinishActiveMessage, FinishLastActiveMessage
<1>9. CASE Timers
  BY <1>1, <1>9 DEF Timers, Reap, BudgetExpires, QueryExpires, TeardownExpires, SpawnReadyExpires
<1> QED
  BY <1>3, <1>4, <1>5, <1>6, <1>7, <1>8, <1>9
     DEF Next, MessageEvents, Environment, Ends, ActorExits, ActorDropped

-----------------------------------------------------------------------------
(***************************************************************************)
(* Queries, workflow cancels and delete-path drains.                       *)
(***************************************************************************)
QueriesLive == \A c \in Children : waiters[c] # {} => c \in Live

RunsOut == \A r \in RunIds : wfWaiters[r] # {} => OutstandingOf(r) # {}

DrainsHaveChildren ==
  \A s \in Owners : teardownDrains[s] # {} => \E c \in pending \cup active : req[c].session = s

ParkedInv == QueriesLive /\ RunsOut /\ DrainsHaveChildren /\ TeardownHolds

\* The turn takes no child away and parks only on what is there.
Calm ==
  /\ Live' = Live /\ pending' \cup active' = pending \cup active /\ req' = req
  /\ \A c \in Children : waiters'[c] # {} => waiters[c] # {} \/ c \in Live
  /\ \A r \in RunIds : wfWaiters'[r] # {} => wfWaiters[r] # {} \/ OutstandingOf(r) # {}
  /\ \A s \in Owners : teardownDrains'[s] # {} =>
       teardownDrains[s] # {} /\ (s \in blocked => s \in blocked')
  /\ cancelled \subseteq cancelled' /\ surfacing' \subseteq surfacing
  /\ buffered' \subseteq buffered

\* The turn finishes the live children of gone; of the summaries it keeps keep.
Takes(gone, keep) ==
  /\ req' = req /\ Live' = Live \ gone /\ gone \subseteq Live
  /\ (pending \cup active) \ gone \subseteq pending' \cup active'
  /\ waiters' = [d \in Children |-> IF d \in gone THEN {} ELSE waiters[d]]
  /\ wfWaiters' = [r \in RunIds |->
                     IF /\ \E d \in gone : req[d].run = r
                        /\ \A d \in (pending \cup active) \ gone : req[d].run # r
                     THEN {} ELSE wfWaiters[r]]
  /\ cancelled \ gone \subseteq cancelled' /\ surfacing' \subseteq surfacing
  /\ keep \subseteq buffered
  /\ buffered' \subseteq keep \cup {d \in gone \cap surfacing' : req[d].run = NoRun}

\* A drain that is left was not the one of a session whose last child went.
ClearsDrained(gone) ==
  \A s \in Owners : teardownDrains'[s] # {} =>
    teardownDrains[s] # {} /\ s \notin Drained(gone) /\ (s \in blocked => s \in blocked')

\* A session with a live child has one that runs: its queue is never left alone.
LEMMA SessionRuns ==
  ASSUME RegistryInv', NEW c \in Live'
  PROVE  \E d \in pending' \cup active' : req'[d].session = req'[c].session
<1>1. CASE c \in pending' \cup active'
  BY <1>1
<1>2. CASE c \in queued'
  <2> DEFINE R == RunningOf(req[c].session, pending \cup active)'
  <2>1. Cardinality(R) >= MaxConcurrent
    BY <1>2 DEF RegistryInv, QueuedImpliesFull
  <2> HIDE DEF R
  <2>2. R # {}
    BY <2>1, FS_EmptySet, LimitAssumption
  <2> QED
    BY <2>2 DEF R, RunningOf
<1> QED
  BY <1>1, <1>2 DEF Live

\* A turn that ends no child and parks nobody wrongly keeps ParkedInv.
LEMMA CalmKeeps ==
  ASSUME ParkedInv, Calm
  PROVE  ParkedInv'
<1>1. QueriesLive'
  BY DEF ParkedInv, QueriesLive, Calm
<1>2. RunsOut'
  BY DEF ParkedInv, RunsOut, OutstandingOf, Calm
<1>3. DrainsHaveChildren'
  BY DEF ParkedInv, DrainsHaveChildren, Calm
<1>4. TeardownHolds'
  BY DEF ParkedInv, TeardownHolds, RunningOf, IsWorkflow, Calm
<1> QED
  BY <1>1, <1>2, <1>3, <1>4 DEF ParkedInv

\* The waiters of the children that stay still have something to wait for.
LEMMA TakesKeepsWaiters ==
  ASSUME ParkedInv, NEW gone, NEW keep, Takes(gone, keep)
  PROVE  QueriesLive' /\ RunsOut'
<1>1. QueriesLive'
  BY DEF ParkedInv, QueriesLive, Takes
<1>2. ASSUME NEW r \in RunIds, wfWaiters'[r] # {} PROVE OutstandingOf(r)' # {}
  <2>1. /\ wfWaiters[r] # {}
        /\ \/ \A d \in gone : req[d].run # r
           \/ \E d \in (pending \cup active) \ gone : req[d].run = r
    BY <1>2 DEF Takes
  <2>2. PICK d \in pending \cup active : req[d].run = r
    BY <2>1 DEF ParkedInv, RunsOut, OutstandingOf
  <2>3. \E e \in (pending \cup active) \ gone : req[e].run = r
    BY <2>1, <2>2
  <2> QED
    BY <2>3 DEF OutstandingOf, Takes
<1> QED
  BY <1>1, <1>2 DEF RunsOut

\* What a delete keeps closed stays closed over the end of some of its children.
LEMMA TakesKeepsTeardown ==
  ASSUME ParkedInv, NEW gone, NEW keep, Takes(gone, keep), NEW s \in Owners,
         teardownDrains[s] # {}, s \in blocked => s \in blocked'
  PROVE  /\ s \in blocked'
         /\ RunningOf(s, Live)' \subseteq cancelled' \ surfacing'
         /\ \A c \in buffered' : req'[c].session # s
<1>1. /\ s \in blocked /\ RunningOf(s, Live) \subseteq cancelled \ surfacing
      /\ \A c \in buffered : req[c].session # s
  BY DEF ParkedInv, TeardownHolds
<1>2. RunningOf(s, Live)' \subseteq RunningOf(s, Live) \ gone
  BY DEF Takes, RunningOf, IsWorkflow
<1>3. \A d \in gone \cap surfacing' : ~(req[d].session = s /\ req[d].run = NoRun)
  BY <1>1 DEF Takes, RunningOf, IsWorkflow
<1> QED
  BY <1>1, <1>2, <1>3 DEF Takes

\* A turn that takes children off the active table and wakes their waiters keeps ParkedInv.
LEMMA TakesKeeps ==
  ASSUME RegistryInv', ParkedInv, NEW gone, NEW keep, Takes(gone, keep), ClearsDrained(gone)
  PROVE  ParkedInv'
<1>1. QueriesLive' /\ RunsOut'
  BY TakesKeepsWaiters
<1>2. ASSUME NEW s \in Owners, teardownDrains'[s] # {}
      PROVE  \E c \in pending' \cup active' : req'[c].session = s
  <2>1. /\ teardownDrains[s] # {}
        /\ \/ \A d \in gone : req[d].session # s
           \/ \E d \in Live \ gone : req[d].session = s
    BY <1>2 DEF ClearsDrained, Drained
  <2>2. CASE \A d \in gone : req[d].session # s
    BY <2>1, <2>2 DEF ParkedInv, DrainsHaveChildren, Takes
  <2>3. CASE \E d \in Live \ gone : req[d].session = s
    <3>1. PICK d \in Live' : req'[d].session = s
      BY <2>3 DEF Takes
    <3> QED
      BY <3>1, SessionRuns
  <2> QED
    BY <2>1, <2>2, <2>3
<1>3. TeardownHolds'
  BY TakesKeepsTeardown DEF ClearsDrained, TeardownHolds
<1> QED
  BY <1>1, <1>2, <1>3 DEF ParkedInv, DrainsHaveChildren

\* A spawn changes no record of a child that is live or buffered, and none of
\* a session whose admission is closed is accepted.
LEMMA SpawnKeepsParked ==
  ASSUME RegistryInv, RecordInv, ParkedInv, NEW c \in Children, NEW r \in Requests,
         HandleSpawn(c, r)
  PROVE  ParkedInv'
<1> DEFINE r1 == Reparented(r)
<1>1. /\ Register(c, r1) /\ c \notin Live \cup completed \cup buffered
      /\ r1.run # NoRun \/ r1.session \notin blocked
      /\ UNCHANGED <<blocked, teardownDrains>>
  BY DEF HandleSpawn, SpawnStarts, SpawnEnqueues, SpawnFails, SpawnAccepted, waits
<1>2. r1 \in Request
  BY ReparentedIsRequest
<1> HIDE DEF r1
<1>3. req'[c] = r1 /\ \A d \in Children \ {c} : req'[d] = req[d]
  BY <1>1, <1>2, RegisterReq
<1>4. cancelled' = cancelled \ {c} /\ surfacing' \subseteq surfacing \cup {c}
  BY <1>1 DEF Register
<1>5. Live \subseteq Children /\ buffered \subseteq Children /\ pending \cup active \subseteq Children
  BY DEF RegistryInv, RegistryTypeOK, RecordInv, RecordsTypeOK, Live
<1>6. /\ Live \subseteq Live' /\ Live' \subseteq Live \cup {c}
      /\ pending \cup active \subseteq pending' \cup active'
      /\ \A d \in Children : waiters'[d] # {} => waiters[d] # {}
      /\ \A u \in RunIds : wfWaiters'[u] # {} => wfWaiters[u] # {}
      /\ buffered' \subseteq buffered \cup (IF r1.run = NoRun THEN {c} ELSE {})
  <2>1. CASE SpawnStarts(c, r) \/ SpawnEnqueues(c, r)
    BY <2>1 DEF SpawnStarts, SpawnEnqueues, waits, Live
  <2>2. CASE SpawnFails(c, r)
    <3>1. PICK out, t : FinishStep({}, {c}, out, t)
      BY <2>2, SpawnFailsFinishes DEF RecordInv
    <3>2. /\ FinishChild({}, {c}, out, t) /\ t.req = req' /\ t.buffered \subseteq buffered
      BY <3>1 DEF FinishStep
    <3>3. /\ active' = active \ ({} \cup {c}) /\ pending \ ({} \cup {c}) \subseteq pending'
          /\ Live' = Live \ ({} \cup {c})
      BY <3>2, FinishTables
    <3>4. /\ waiters' = [d \in Children |-> IF d \in {} \cup {c} THEN {} ELSE waiters[d]]
          /\ wfWaiters' = [u \in RunIds |->
                    IF /\ \E d \in {} \cup {c} : t.req[d].run = u
                       /\ \A d \in (pending \cup active) \ ({} \cup {c}) : t.req[d].run # u
                    THEN {} ELSE wfWaiters[u]]
      BY <3>2, FinishWakes
    <3>5. buffered' \subseteq
            t.buffered \cup {d \in ({} \cup {c}) \cap t.surfacing : t.req[d].run = NoRun}
      BY <3>2, FinishBuffers
    <3>6. buffered' \subseteq buffered \cup (IF r1.run = NoRun THEN {c} ELSE {})
      BY <1>3, <3>2, <3>5
    <3>7. /\ \A d \in Children : waiters'[d] # {} => waiters[d] # {}
          /\ \A u \in RunIds : wfWaiters'[u] # {} => wfWaiters[u] # {}
      BY <3>4
    <3> QED
      BY <1>1, <3>3, <3>6, <3>7 DEF Live
  <2> QED
    BY <2>1, <2>2 DEF HandleSpawn
<1>7. QueriesLive'
  BY <1>6 DEF ParkedInv, QueriesLive
<1>8. RunsOut'
  <2> SUFFICES ASSUME NEW u \in RunIds, wfWaiters'[u] # {} PROVE OutstandingOf(u)' # {}
    BY DEF RunsOut
  <2>1. PICK d \in pending \cup active : req[d].run = u
    BY <1>6 DEF ParkedInv, RunsOut, OutstandingOf
  <2>2. d \in pending' \cup active' /\ req'[d].run = u
    BY <1>1, <1>3, <1>5, <1>6, <2>1 DEF Live
  <2> QED
    BY <2>2 DEF OutstandingOf
<1>9. DrainsHaveChildren'
  <2> SUFFICES ASSUME NEW s \in Owners, teardownDrains'[s] # {}
               PROVE  \E d \in pending' \cup active' : req'[d].session = s
    BY DEF DrainsHaveChildren
  <2>1. PICK d \in pending \cup active : req[d].session = s
    BY <1>1 DEF ParkedInv, DrainsHaveChildren
  <2>2. d \in pending' \cup active' /\ req'[d].session = s
    BY <1>1, <1>3, <1>5, <1>6, <2>1 DEF Live
  <2> QED
    BY <2>2
<1>10. TeardownHolds'
  <2> SUFFICES ASSUME NEW s \in Owners, teardownDrains'[s] # {}
               PROVE  /\ s \in blocked'
                      /\ RunningOf(s, Live)' \subseteq cancelled' \ surfacing'
                      /\ \A d \in buffered' : req'[d].session # s
    BY DEF TeardownHolds
  <2>1. /\ s \in blocked /\ RunningOf(s, Live) \subseteq cancelled \ surfacing
        /\ \A d \in buffered : req[d].session # s
    BY <1>1 DEF ParkedInv, TeardownHolds
  <2>2. ~(req'[c].session = s /\ req'[c].run = NoRun)
    BY <1>1, <1>3, <2>1
  <2>3. ASSUME NEW d \in RunningOf(s, Live)' PROVE d \in cancelled' \ surfacing'
    <3>1. d \in Live' /\ req'[d].session = s /\ req'[d].run = NoRun
      BY <2>3 DEF RunningOf, IsWorkflow
    <3>2. d # c /\ d \in Live /\ req'[d] = req[d]
      BY <1>3, <1>5, <1>6, <2>2, <3>1
    <3>3. d \in RunningOf(s, Live)
      BY <3>1, <3>2 DEF RunningOf, IsWorkflow
    <3> QED
      BY <1>4, <2>1, <3>2, <3>3
  <2>4. ASSUME NEW d \in buffered' PROVE req'[d].session # s
    <3>1. CASE d = c
      BY <1>1, <1>3, <1>6, <2>1, <2>2, <2>4, <3>1
    <3>2. CASE d # c
      BY <1>3, <1>5, <1>6, <2>1, <2>4, <3>2
    <3> QED
      BY <3>1, <3>2
  <2> QED
    BY <1>1, <2>1, <2>3, <2>4
<1> QED
  BY <1>7, <1>8, <1>9, <1>10 DEF ParkedInv

\* finish_child of live children whose requests stay as they are.
LEMMA FinishTakes ==
  ASSUME NEW first, NEW second, NEW out, NEW t, FinishChild(first, second, out, t),
         first \cup second \subseteq Live, req' = req, t.req = req,
         t.surfacing = surfacing', surfacing' \subseteq surfacing, t.buffered \subseteq buffered,
         cancelled \ (first \cup second) \subseteq cancelled'
  PROVE  Takes(first \cup second, t.buffered)
<1>1. /\ active' = active \ (first \cup second) /\ pending \ (first \cup second) \subseteq pending'
      /\ Live' = Live \ (first \cup second)
  BY FinishTables
<1>2. /\ waiters' = [d \in Children |-> IF d \in first \cup second THEN {} ELSE waiters[d]]
      /\ wfWaiters' = [r \in RunIds |->
                  IF /\ \E d \in first \cup second : t.req[d].run = r
                     /\ \A d \in (pending \cup active) \ (first \cup second) : t.req[d].run # r
                  THEN {} ELSE wfWaiters[r]]
  BY FinishWakes
<1>3. buffered' \subseteq
        t.buffered \cup {d \in (first \cup second) \cap t.surfacing : t.req[d].run = NoRun}
  BY FinishBuffers
<1> QED
  BY <1>1, <1>2, <1>3 DEF Takes

\* The cancel commands take the queued children they select.
LEMMA CancelTakes ==
  ASSUME NEW sel \in SUBSET Live, NEW t, CancelChildren(sel, t), t.req = req,
         t.surfacing = surfacing', surfacing' \subseteq surfacing, t.buffered \subseteq buffered
  PROVE  Takes(sel \cap queued, t.buffered)
<1>1. /\ FinishChild({}, sel \cap queued, AllCancelled, t) /\ req' = req
      /\ cancelled' = cancelled \cup (sel \ queued)
  BY DEF CancelChildren
<1>2. /\ {} \cup (sel \cap queued) \subseteq Live
      /\ cancelled \ ({} \cup (sel \cap queued)) \subseteq cancelled'
  BY <1>1
<1>3. Takes({} \cup (sel \cap queued), t.buffered)
  BY <1>1, <1>2, FinishTakes
<1>4. {} \cup (sel \cap queued) = sel \cap queued
  OBVIOUS
<1> QED
  BY <1>3, <1>4

\* clear_teardown_drain of the sessions whose last child went.
LEMMA ClearingDrains ==
  ASSUME NEW gone, ClearTeardownDrains(Drained(gone))
  PROVE  ClearsDrained(gone)
BY DEF ClearTeardownDrains, ClearsDrained

\* A teardown cancels every child of its session.  It keeps admission closed
\* for an asker only while one of them runs, and drops the session's summaries.
LEMMA TeardownKeepsParked ==
  ASSUME RegistryInv, RegistryInv', RecordInv, ParkedInv, NEW s \in HostSessions, NEW by,
         TeardownSession(s, by)
  PROVE  ParkedInv'
<1> DEFINE sel == {c \in Live : req[c].session = s}
           keep == {c \in buffered : req[c].session # s}
           hold == by # {} /\ sel \ queued # {}
           cleared == Drained(sel \cap queued)
           t == [Now EXCEPT !.surfacing = surfacing \ sel, !.buffered = keep]
<1>1. /\ CancelChildren(sel, t) /\ surfacing' = surfacing \ sel
      /\ teardownDrains' = [o \in Owners |->
                              IF o = s /\ hold THEN teardownDrains[o] \cup by
                              ELSE IF o \in cleared THEN {} ELSE teardownDrains[o]]
      /\ blocked' = (blocked \ cleared) \cup (IF hold THEN {s} ELSE {})
  BY Zenon DEF TeardownSession
<1>2. t.req = req /\ t.surfacing = surfacing \ sel /\ t.buffered = keep
  BY DEF Now
<1> HIDE DEF t
<1>3. cancelled' = cancelled \cup (sel \ queued) /\ req' = req
  BY <1>1 DEF CancelChildren
<1>4. Takes(sel \cap queued, keep)
  <2>1. sel \in SUBSET Live /\ keep \subseteq buffered /\ surfacing \ sel \subseteq surfacing
    OBVIOUS
  <2> HIDE DEF sel, keep
  <2> QED
    BY <1>1, <1>2, <2>1, CancelTakes
<1>5. QueriesLive' /\ RunsOut'
  BY <1>4, TakesKeepsWaiters
<1>6. ASSUME NEW o \in Owners, teardownDrains'[o] # {}, ~(o = s /\ hold)
      PROVE  /\ teardownDrains[o] # {} /\ o \notin cleared
             /\ o \in blocked => o \in blocked'
  <2> HIDE DEF cleared, hold
  <2> QED
    BY <1>1, <1>6
<1>7. ASSUME hold PROVE s \in blocked' /\ \E c \in pending' \cup active' : req'[c].session = s
  <2>1. PICK c \in Live : c \notin queued /\ req[c].session = s
    BY <1>7
  <2>2. c \in pending \cup active /\ c \notin sel \cap queued
    BY <2>1 DEF Live
  <2>3. s \in blocked'
    BY <1>1, <1>7
  <2> QED
    BY <1>4, <2>1, <2>2, <2>3 DEF Takes
<1>8. DrainsHaveChildren'
  <2> SUFFICES ASSUME NEW o \in Owners, teardownDrains'[o] # {}
               PROVE  \E c \in pending' \cup active' : req'[c].session = o
    BY DEF DrainsHaveChildren
  <2>1. CASE o = s /\ hold
    BY <1>7, <2>1
  <2>2. CASE ~(o = s /\ hold)
    <3>1. /\ teardownDrains[o] # {}
          /\ \/ \A d \in sel \cap queued : req[d].session # o
             \/ \E d \in Live \ (sel \cap queued) : req[d].session = o
      <4>1. teardownDrains[o] # {} /\ o \notin Drained(sel \cap queued)
        BY <1>6, <2>2
      <4> HIDE DEF sel
      <4> QED
        BY <4>1 DEF Drained
    <3> HIDE DEF sel, keep
    <3>2. CASE \A d \in sel \cap queued : req[d].session # o
      BY <1>4, <3>1, <3>2 DEF ParkedInv, DrainsHaveChildren, Takes
    <3>3. CASE \E d \in Live \ (sel \cap queued) : req[d].session = o
      <4>1. PICK d \in Live' : req'[d].session = o
        BY <1>4, <3>3 DEF Takes
      <4> QED
        BY <4>1, SessionRuns
    <3> QED
      BY <3>1, <3>2, <3>3
  <2> QED
    BY <2>1, <2>2
<1>9. TeardownHolds'
  <2> SUFFICES ASSUME NEW o \in Owners, teardownDrains'[o] # {}
               PROVE  /\ o \in blocked'
                      /\ RunningOf(o, Live)' \subseteq cancelled' \ surfacing'
                      /\ \A c \in buffered' : req'[c].session # o
    BY DEF TeardownHolds
  <2>1. CASE o = s /\ hold
    <3>1. o \in blocked'
      BY <1>7, <2>1
    <3>2. RunningOf(o, Live)' \subseteq cancelled' \ surfacing'
      BY <1>1, <1>3, <1>4, <2>1 DEF RunningOf, IsWorkflow, Takes
    <3>3. \A c \in buffered' : req'[c].session # o
      BY <1>1, <1>4, <2>1 DEF Takes
    <3> QED
      BY <3>1, <3>2, <3>3
  <2>2. CASE ~(o = s /\ hold)
    <3> HIDE DEF sel, keep, hold, cleared
    <3> QED
      BY <1>4, <1>6, <2>2, TakesKeepsTeardown
  <2> QED
    BY <2>1, <2>2
<1> QED
  BY <1>5, <1>8, <1>9 DEF ParkedInv

\* Everybody who is parked is let go with the actor.
LEMMA DropKeepsParked ==
  ASSUME NEW how, DropCoordinator(how)
  PROVE  ParkedInv'
<1>1. /\ \A c \in Children : waiters'[c] = {}
      /\ \A r \in RunIds : wfWaiters'[r] = {}
      /\ \A s \in Owners : teardownDrains'[s] = {}
  BY DEF DropCoordinator
<1> QED
  BY <1>1 DEF ParkedInv, QueriesLive, RunsOut, DrainsHaveChildren, TeardownHolds

ParkedTurn ==
  \/ Calm
  \/ \E gone, keep : Takes(gone, keep) /\ ClearsDrained(gone)
  \/ \E c \in Children, r \in Requests : HandleSpawn(c, r)
  \/ \E s \in HostSessions : \E by : TeardownSession(s, by)
  \/ \E how : DropCoordinator(how)

\* Each of ParkedTurn's things keeps ParkedInv.
LEMMA ParkedTurnKeeps ==
  ASSUME RegistryInv, RegistryInv', RecordInv, ParkedInv, ParkedTurn
  PROVE  ParkedInv'
BY CalmKeeps, TakesKeeps, SpawnKeepsParked, TeardownKeepsParked, DropKeepsParked DEF ParkedTurn

\* Turns that leave the tables and whoever waits on them alone.
LEMMA UnparkedIsCalm ==
  ASSUME UNCHANGED <<queued, pending, active, buffered, req, surfacing, blocked,
                     teardownDrains, waiters, wfWaiters>>,
         cancelled \subseteq cancelled'
  PROVE  Calm
BY DEF Calm, Live

\* The end of a run takes it and the queued children an outsider cancelled.
LEMMA TerminalTakes ==
  ASSUME RegistryInv, NEW c \in runs \cup terminalOutputs, NEW out, NEW isClean,
         FinishTerminalizedChild(c, out, isClean)
  PROVE  \E gone, keep : Takes(gone, keep) /\ ClearsDrained(gone)
<1> DEFINE gone == {c} \cup CancelledQueued
<1>1. /\ \E o : FinishChild({c}, CancelledQueued, o, Now)
      /\ cancelled' = cancelled \ gone /\ ClearTeardownDrains(Drained(gone))
      /\ req' = req /\ surfacing' = surfacing
  BY Zenon DEF FinishTerminalizedChild
<1>2. gone \subseteq Live
  BY DEF RegistryInv, RegistryConsistent, CancelledQueued, Live
<1>3. Takes(gone, Now.buffered)
  BY <1>1, <1>2, NowFields, FinishTakes
<1>4. ClearsDrained(gone)
  BY <1>1, ClearingDrains
<1> QED
  BY <1>3, <1>4

\* reap_abandoned_callers takes the queued children with a cancelled token.
LEMMA ReapTakes ==
  ASSUME Reap
  PROVE  \E gone, keep : Takes(gone, keep) /\ ClearsDrained(gone)
<1> DEFINE dropped == Abandoned \cup AbandonedQueued
           callers == [c \in Children |-> IF c \in dropped THEN "dropped" ELSE caller[c]]
           only == handleOnly \cup {c \in Abandoned : ~IsWorkflow(c)}
           t == [Now EXCEPT !.caller = callers, !.handleOnly = only]
<1>1. /\ FinishChild(CancelledQueued, {}, AllCancelled, t) /\ req' = req /\ surfacing' = surfacing
      /\ cancelled' = (cancelled \ CancelledQueued) \cup {c \in Abandoned : IsWorkflow(c)}
      /\ ClearTeardownDrains(Drained(CancelledQueued))
  BY Zenon DEF Reap
<1> HIDE DEF callers, only
<1>2. t.req = req /\ t.surfacing = surfacing /\ t.buffered = buffered
  BY DEF Now
<1> HIDE DEF t
<1>3. CancelledQueued \cup {} \subseteq Live /\ cancelled \ (CancelledQueued \cup {}) \subseteq cancelled'
  BY <1>1 DEF CancelledQueued, Live
<1>4. Takes(CancelledQueued \cup {}, t.buffered)
  BY <1>1, <1>2, <1>3, FinishTakes
<1>5. CancelledQueued \cup {} = CancelledQueued
  OBVIOUS
<1>6. ClearsDrained(CancelledQueued)
  BY <1>1, ClearingDrains
<1> QED
  BY <1>4, <1>5, <1>6

\* The commands, by what they do to whoever is parked.
LEMMA CommandParks == RegistryInv /\ WaitsTypeOK /\ Commands => ParkedTurn
<1> SUFFICES ASSUME RegistryInv, WaitsTypeOK, Commands PROVE ParkedTurn
  OBVIOUS
<1>1. ASSUME NEW sel \in SUBSET Live, CancelChildren(sel, Now), surfacing' = surfacing,
             ClearsDrained(sel \cap queued)
      PROVE  ParkedTurn
  <2>1. Takes(sel \cap queued, Now.buffered)
    BY <1>1, NowFields, CancelTakes
  <2> QED
    BY <1>1, <2>1 DEF ParkedTurn
<1>2. CASE \E c \in Children, s \in HostSessions \cup {AnySession} : CancelOne(c, s)
  <2>1. PICK c \in Live : /\ CancelChildren({c}, Now) /\ surfacing' = surfacing
                          /\ ClearTeardownDrains(Drained({c} \cap queued))
    BY <1>2 DEF CancelOne
  <2>2. {c} \in SUBSET Live
    OBVIOUS
  <2> QED
    BY <1>1, <2>1, <2>2, ClearingDrains
<1>3. CASE \E p \in Prompts, s \in HostSessions \cup {AnySession} : CancelParentPrompt(p, s)
  <2>1. PICK sel \in SUBSET Live : /\ CancelChildren(sel, Now) /\ surfacing' = surfacing
                                   /\ ClearTeardownDrains(Drained(sel \cap queued))
    BY <1>3 DEF CancelParentPrompt
  <2> QED
    BY <1>1, <2>1, ClearingDrains
<1>4. CASE \E s \in HostSessions : CancelParentSession(s)
  <2>1. PICK s \in HostSessions : CancelParentSession(s)
    BY <1>4
  <2> DEFINE sel == {c \in Live : req[c].session = s /\ ~IsWorkflow(c)}
  <2>2. /\ CancelChildren(sel, Now) /\ surfacing' = surfacing
        /\ teardownDrains' = [o \in Owners |-> IF o \in Drained(sel \cap queued) THEN {}
                                                ELSE teardownDrains[o]]
        /\ blocked' = (blocked \cup {s}) \ Drained(sel \cap queued)
    BY <2>1, Zenon DEF CancelParentSession
  <2>3. sel \in SUBSET Live
    OBVIOUS
  <2> HIDE DEF sel
  <2>4. ClearsDrained(sel \cap queued)
    BY <2>2 DEF ClearsDrained
  <2> QED
    BY <1>1, <2>2, <2>3, <2>4
<1>5. CASE \E r \in RunIds, s \in HostSessions \cup {AnySession}, a \in Askers :
             CancelWorkflow(r, s, a)
  <2>1. PICK r \in RunIds : /\ OutstandingOf(r) # {} /\ cancelled \subseteq cancelled'
                            /\ \A u \in RunIds \ {r} : wfWaiters'[u] = wfWaiters[u]
                            /\ UNCHANGED <<registry, req, surfacing, blocked, teardownDrains, waiters>>
    BY <1>5 DEF CancelWorkflow, WaitsTypeOK
  <2>2. Calm
    BY <2>1 DEF Calm, Live, registry
  <2> QED
    BY <2>2 DEF ParkedTurn
<1>6. CASE \E s \in HostSessions : OpenSpawnAdmission(s)
  <2>1. PICK s \in HostSessions : OpenSpawnAdmission(s)
    BY <1>6
  <2>2. Calm
    BY <2>1 DEF OpenSpawnAdmission, Calm, Live, registry, records, waits
  <2> QED
    BY <2>2 DEF ParkedTurn
<1>7. CASE \E a \in Askers, c \in Children, block \in BOOLEAN : HandleQuery(a, c, block)
  <2>1. PICK c \in Live : /\ \A d \in Children \ {c} : waiters'[d] = waiters[d]
                          /\ UNCHANGED <<registry, records, blocked, teardownDrains, wfWaiters>>
    BY <1>7 DEF HandleQuery, WaitsTypeOK
  <2>2. Calm
    BY <2>1 DEF Calm, Live, registry, records
  <2> QED
    BY <2>2 DEF ParkedTurn
<1>8. CASE \E a \in Askers, scope \in Scopes : WaitPromptDrained(a, scope)
  <2>1. Calm
    BY <1>8, UnparkedIsCalm DEF WaitPromptDrained, registry, records
  <2> QED
    BY <2>1 DEF ParkedTurn
<1>9. CASE \E s \in HostSessions \cup {AnySession} : Completions(s)
  <2>1. Calm
    BY <1>9 DEF Completions, Calm, Live, records, waits
  <2> QED
    BY <2>1 DEF ParkedTurn
<1>10. CASE \E c \in Children, r \in Requests : HandleSpawn(c, r)
  BY <1>10 DEF ParkedTurn
<1>11. CASE \E s \in HostSessions : \E by \in {{}} \cup {{a} : a \in Askers} :
              TeardownSession(s, by)
  BY <1>11, Zenon DEF ParkedTurn
<1> QED
  BY <1>2, <1>3, <1>4, <1>5, <1>6, <1>7, <1>8, <1>9, <1>10, <1>11 DEF Commands

\* What the runs, messages, callers and timers do to whoever is parked.
LEMMA OtherParks ==
  RegistryInv /\ WaitsTypeOK /\ (RunEvents \/ MessageEvents \/ Environment \/ Timers \/ Ends)
    => ParkedTurn
<1> SUFFICES ASSUME RegistryInv, WaitsTypeOK,
                    RunEvents \/ MessageEvents \/ Environment \/ Timers \/ Ends
             PROVE  ParkedTurn
  OBVIOUS
<1>1. ASSUME UNCHANGED <<queued, pending, active, buffered, req, surfacing, blocked,
                         teardownDrains, waiters, wfWaiters>>,
             cancelled \subseteq cancelled'
      PROVE  ParkedTurn
  BY <1>1, UnparkedIsCalm DEF ParkedTurn
<1>2. CASE RunEvents
  <2>1. CASE \E c \in Children, background \in BOOLEAN : Started(c, background)
    <3>1. Calm
      BY <2>1 DEF Started, Calm, Live, waits
    <3> QED
      BY <3>1 DEF ParkedTurn
  <2>2. CASE \E c \in Children, out \in Outcomes : RunReturns(c, out)
    BY <2>2, TerminalTakes DEF RunReturns, ParkedTurn
  <2> QED
    BY <1>1, <1>2, <2>1, <2>2 DEF RunEvents, StartRefused, Finalizing, RunBuffered,
       FinishProgress, registry, records, waits
<1>3. CASE MessageEvents
  <2>1. CASE \E m \in Messages, how \in Ready : FinishLastActiveMessage(m, how)
    BY <2>1, TerminalTakes DEF FinishLastActiveMessage, ParkedTurn
  <2> QED
    BY <1>1, <1>3, <2>1 DEF MessageEvents, SendActiveMessage, HandleSendActiveMessage,
       HostClaims, HostCommits, FinishActiveMessage, registry, records, waits
<1>4. CASE Environment
  BY <1>1, <1>4 DEF Environment, CallerDrops, AskerDrops, CancelToken, registry, records, waits
<1>5. CASE Timers
  <2>1. CASE Reap
    BY <2>1, ReapTakes DEF ParkedTurn
  <2>2. CASE \E a \in Askers, c \in Children : QueryExpires(a, c)
    <3>1. /\ \A d \in Children : waiters'[d] # {} => waiters[d] # {}
          /\ UNCHANGED <<registry, records, blocked, teardownDrains, wfWaiters>>
      BY <2>2 DEF QueryExpires, WaitsTypeOK
    <3>2. Calm
      BY <3>1 DEF Calm, Live, registry, records
    <3> QED
      BY <3>2 DEF ParkedTurn
  <2>3. CASE \E s \in Owners : TeardownExpires(s)
    <3>1. Calm
      BY <2>3 DEF TeardownExpires, ClearTeardownDrains, Calm, Live, registry, records
    <3> QED
      BY <3>1 DEF ParkedTurn
  <2> QED
    BY <1>1, <1>5, <2>1, <2>2, <2>3 DEF Timers, BudgetExpires, SpawnReadyExpires,
       registry, records, waits
<1>6. CASE Ends
  <2>1. CASE ActorExits \/ ActorDropped
    BY <2>1 DEF ActorExits, ActorDropped, ParkedTurn
  <2> QED
    BY <1>1, <1>6, <2>1 DEF Ends, CloseChannels, registry, records, waits
<1> QED
  BY <1>2, <1>3, <1>4, <1>5, <1>6

\* Every step is one of those turns.
LEMMA EveryParkedTurn == RegistryInv /\ WaitsTypeOK /\ [Next]_vars => ParkedTurn
<1>1. ASSUME UNCHANGED vars PROVE ParkedTurn
  BY <1>1, UnparkedIsCalm DEF ParkedTurn, vars, registry, records, waits
<1> QED
  BY <1>1, CommandParks, OtherParks DEF Next

\* With nobody parked the invariants of the waits hold.
LEMMA InitParked == Init => ParkedInv /\ WaitsTypeOK /\ DrainsBlocked
<1> SUFFICES ASSUME Init PROVE ParkedInv /\ WaitsTypeOK /\ DrainsBlocked
  OBVIOUS
<1>1. /\ waiters = [c \in Children |-> {}] /\ wfWaiters = [r \in RunIds |-> {}]
      /\ teardownDrains = [s \in Owners |-> {}] /\ drainWaiters = [scope \in Scopes |-> {}]
  BY DEF Init
<1>2. QueriesLive /\ RunsOut /\ DrainsHaveChildren /\ TeardownHolds /\ DrainsBlocked
  BY <1>1 DEF QueriesLive, RunsOut, DrainsHaveChildren, TeardownHolds, DrainsBlocked
<1>3. WaitsTypeOK
  BY <1>1 DEF Init, WaitsTypeOK
<1> QED
  BY <1>2, <1>3 DEF ParkedInv

\* The types of what waits, for every behavior.
THEOREM WaitTypes == Spec => []WaitsTypeOK
<1>1. RegistryInv /\ WaitsTypeOK /\ [Next]_vars => WaitsTypeOK'
  <2>1. WaitsTypeOK /\ UNCHANGED vars => WaitsTypeOK'
    BY DEF vars, waits, ends, WaitsTypeOK
  <2> QED
    BY <2>1, WaitTypesStep
<1> QED
  BY <1>1, InitParked, RegistryInvariant, PTL DEF Spec

\* Whatever is parked is parked on something that is still there, for every
\* behavior: the invariant of queries, workflow cancels and delete drains.
THEOREM ParkedInvariant == Spec => []ParkedInv
<1>1. RegistryInv /\ RegistryInv' /\ RecordInv /\ WaitsTypeOK /\ ParkedInv /\ [Next]_vars
        => ParkedInv'
  BY EveryParkedTurn, ParkedTurnKeeps
<1> QED
  BY <1>1, InitParked, RegistryInvariant, RecordInvariant, WaitTypes, PTL DEF Spec

\* No requester is stranded in the actor: the child a query is parked on is
\* live, the run of a workflow cancel has children out, the session of a delete
\* has children to drain, and a drained prompt scope has answered.
THEOREM NoStrandedWaiterHolds == Spec => []NoStrandedWaiter
<1>1. DrainsBlocked /\ [Next]_vars => DrainsBlocked'
  BY DrainsBlockedStep
<1>2. ParkedInv /\ DrainsBlocked => NoStrandedWaiter
  BY DEF ParkedInv, QueriesLive, RunsOut, DrainsHaveChildren, DrainsBlocked, NoStrandedWaiter
<1>3. Spec => []DrainsBlocked
  BY <1>1, InitParked, PTL DEF Spec
<1> QED
  BY <1>2, <1>3, ParkedInvariant, PTL

\* While a delete drains a session its admission stays closed, its Task children
\* stay cancelled and silent, and no summary of theirs is buffered again.
THEOREM TeardownHoldsAlways == Spec => []TeardownHolds
<1>1. ParkedInv => TeardownHolds
  BY DEF ParkedInv
<1> QED
  BY <1>1, ParkedInvariant, PTL

-----------------------------------------------------------------------------
(***************************************************************************)
(* The ends of a delete and of the loop.                                   *)
(***************************************************************************)

Answered(s) == teardownDrains[s] # {} /\ teardownDrains'[s] = {}

Excused(s) == (\A c \in Live' : req'[c].session # s) \/ TeardownExpires(s) \/ actor' # "running"

\* Only finish_child, the backstop and the end of the actor answer the asker of
\* a delete, and finish_child does when the last child of the session went.
LEMMA DeleteStep ==
  ASSUME [Next]_vars
  PROVE  \A s \in Owners : Answered(s) => Excused(s)
<1>1. ASSUME NEW gone, Live' = Live \ gone, req' = req,
             \A s \in Owners \ Drained(gone) : teardownDrains'[s] = {} => teardownDrains[s] = {},
             NEW s \in Owners, Answered(s)
      PROVE  Excused(s)
  BY <1>1 DEF Drained, Answered, Excused
<1>2. ASSUME NEW sel, NEW t, CancelChildren(sel, t)
      PROVE  Live' = Live \ (sel \cap queued) /\ req' = req
  <2>1. FinishChild({}, sel \cap queued, AllCancelled, t) /\ req' = req
    BY <1>2 DEF CancelChildren
  <2>2. Live' = Live \ ({} \cup (sel \cap queued))
    BY <2>1, FinishTables
  <2> QED
    BY <2>1, <2>2
<1>3. ASSUME NEW gone, ClearTeardownDrains(Drained(gone))
      PROVE  \A s \in Owners \ Drained(gone) : teardownDrains'[s] = {} => teardownDrains[s] = {}
  BY <1>3 DEF ClearTeardownDrains
<1>4. CASE UNCHANGED teardownDrains
  BY <1>4 DEF Answered
<1>5. CASE Commands
  <2>1. CASE \/ \E c \in Children, s \in HostSessions \cup {AnySession} : CancelOne(c, s)
             \/ \E p \in Prompts, s \in HostSessions \cup {AnySession} : CancelParentPrompt(p, s)
    <3>1. PICK sel : CancelChildren(sel, Now) /\ ClearTeardownDrains(Drained(sel \cap queued))
      BY <2>1, Zenon DEF CancelOne, CancelParentPrompt
    <3>2. Live' = Live \ (sel \cap queued) /\ req' = req
      BY <1>2, <3>1
    <3>3. \A s \in Owners \ Drained(sel \cap queued) :
            teardownDrains'[s] = {} => teardownDrains[s] = {}
      BY <1>3, <3>1
    <3> QED
      BY <1>1, <3>2, <3>3
  <2>2. CASE \E s \in HostSessions : CancelParentSession(s)
    <3>1. PICK sel : /\ CancelChildren(sel, Now)
                     /\ teardownDrains' = [o \in Owners |-> IF o \in Drained(sel \cap queued)
                                                           THEN {} ELSE teardownDrains[o]]
      BY <2>2, Zenon DEF CancelParentSession
    <3>2. Live' = Live \ (sel \cap queued) /\ req' = req
      BY <1>2, <3>1
    <3>3. \A s \in Owners \ Drained(sel \cap queued) :
            teardownDrains'[s] = {} => teardownDrains[s] = {}
      BY <3>1
    <3> QED
      BY <1>1, <3>2, <3>3
  <2>3. CASE \E s \in HostSessions : \E by \in {{}} \cup {{a} : a \in Askers} :
               TeardownSession(s, by)
    <3>1. PICK s \in HostSessions : \E by : TeardownSession(s, by)
      BY <2>3, Zenon
    <3>2. PICK by : TeardownSession(s, by)
      BY <3>1
    <3> DEFINE sel == {c \in Live : req[c].session = s}
               hold == by # {} /\ sel \ queued # {}
    <3>3. /\ \E t : CancelChildren(sel, t)
          /\ teardownDrains' = [o \in Owners |->
                                  IF o = s /\ hold THEN teardownDrains[o] \cup by
                                  ELSE IF o \in Drained(sel \cap queued) THEN {}
                                  ELSE teardownDrains[o]]
      BY <3>2, Zenon DEF TeardownSession
    <3> HIDE DEF sel, hold
    <3>4. Live' = Live \ (sel \cap queued) /\ req' = req
      BY <1>2, <3>3
    <3>5. \A o \in Owners \ Drained(sel \cap queued) :
            teardownDrains'[o] = {} => teardownDrains[o] = {}
      BY <3>3
    <3> QED
      BY <1>1, <3>4, <3>5
  <2> QED
    BY <1>4, <1>5, <2>1, <2>2, <2>3 DEF Commands, HandleSpawn, SpawnStarts, SpawnEnqueues,
       SpawnFails, CancelWorkflow, OpenSpawnAdmission, HandleQuery, WaitPromptDrained,
       Completions, waits
<1>6. ASSUME NEW c, NEW out, NEW isClean, FinishTerminalizedChild(c, out, isClean),
             NEW s \in Owners, Answered(s)
      PROVE  Excused(s)
  <2> DEFINE gone == {c} \cup CancelledQueued
  <2>1. /\ \E o : FinishChild({c}, CancelledQueued, o, Now)
        /\ ClearTeardownDrains(Drained(gone)) /\ req' = req
    BY <1>6, Zenon DEF FinishTerminalizedChild
  <2>2. Live' = Live \ gone
    BY <2>1, FinishTables
  <2> HIDE DEF gone
  <2> QED
    BY <1>1, <1>3, <1>6, <2>1, <2>2
<1>7. CASE RunEvents
  BY <1>4, <1>6, <1>7 DEF RunEvents, Started, StartRefused, Finalizing, RunReturns,
     RunBuffered, FinishProgress, waits
<1>8. CASE MessageEvents
  BY <1>4, <1>6, <1>8 DEF MessageEvents, SendActiveMessage, HandleSendActiveMessage,
     HostClaims, HostCommits, FinishActiveMessage, FinishLastActiveMessage, waits
<1>9. CASE Timers
  <2>1. CASE Reap
    <3>1. /\ \E t : FinishChild(CancelledQueued, {}, AllCancelled, t)
          /\ ClearTeardownDrains(Drained(CancelledQueued)) /\ req' = req
      BY <2>1, Zenon DEF Reap
    <3>2. Live' = Live \ (CancelledQueued \cup {})
      BY <3>1, FinishTables
    <3>3. Live' = Live \ CancelledQueued
      BY <3>2
    <3> QED
      BY <1>1, <1>3, <3>1, <3>3
  <2>2. CASE \E s \in Owners : TeardownExpires(s)
    <3>1. PICK s \in Owners : TeardownExpires(s)
      BY <2>2
    <3>2. \A o \in Owners \ {s} : teardownDrains'[o] = teardownDrains[o]
      BY <3>1 DEF TeardownExpires, ClearTeardownDrains
    <3> QED
      BY <3>1, <3>2 DEF Answered, Excused
  <2> QED
    BY <1>4, <1>9, <2>1, <2>2 DEF Timers, BudgetExpires, QueryExpires, SpawnReadyExpires, waits
<1>10. CASE Environment \/ Ends
  <2>1. CASE ActorExits \/ ActorDropped
    <3>1. actor' \in {"exited", "dropped"}
      BY <2>1 DEF ActorExits, ActorDropped, DropCoordinator
    <3> QED
      BY <3>1 DEF Excused
  <2> QED
    BY <1>4, <1>10, <2>1 DEF Environment, Ends, CallerDrops, AskerDrops, CancelToken,
       CloseChannels, waits
<1> QED
  BY <1>4, <1>5, <1>7, <1>8, <1>9, <1>10 DEF Next, vars, waits

\* TeardownSession with a responder: it is answered only when the last child of
\* its session is gone, by the backstop, or by the end of the actor.
THEOREM DeleteWaitsForChildren == Spec => TeardownWaitsForChildren
<1>1. [Next]_vars =>
        \A s \in Owners :
          teardownDrains[s] # {} /\ teardownDrains'[s] = {} =>
            \/ \A c \in Live' : req'[c].session # s
            \/ TeardownExpires(s)
            \/ actor' # "running"
  BY DeleteStep DEF Answered, Excused
<1> QED
  BY <1>1, PTL DEF Spec, TeardownWaitsForChildren

\* The loop leaves only when no run, no output, no poll and no message is left;
\* by then no record, no parked requester and no caller is, either.
THEOREM ExitsQuietly == Spec => ExitIsQuiet
<1> DEFINE Quiet == /\ Live = {} /\ progress = {}
                    /\ \A c \in Children : waiters[c] = {} /\ ~HoldsReply(c)
                    /\ \A r \in RunIds : wfWaiters[r] = {}
                    /\ \A s \in Owners : teardownDrains[s] = {}
                    /\ \A scope \in Scopes : drainWaiters[scope] = {}
<1>1. RegistryInv /\ MayExit => Live = {}
  <2> SUFFICES ASSUME RegistryInv, MayExit PROVE Live = {}
    OBVIOUS
  <2>1. pending \cup active = {}
    BY DEF RegistryInv, RegistryConsistent, MayExit
  <2>2. ASSUME NEW c \in queued PROVE FALSE
    <3>1. Cardinality(RunningOf(req[c].session, {})) >= MaxConcurrent
      BY <2>1, <2>2 DEF RegistryInv, QueuedImpliesFull
    <3>2. RunningOf(req[c].session, {}) = {}
      BY DEF RunningOf
    <3> QED
      BY <3>1, <3>2, FS_EmptySet, LimitAssumption
  <2> QED
    BY <2>1, <2>2 DEF Live
<1>2. RegistryInv /\ RecordInv /\ NoStrandedWaiter /\ MayExit => Quiet
  <2> SUFFICES ASSUME RegistryInv, RecordInv, NoStrandedWaiter, MayExit PROVE Quiet
    OBVIOUS
  <2>1. Live = {} /\ pending \cup active = {}
    BY <1>1 DEF Live
  <2>2. /\ \A r \in RunIds : OutstandingOf(r) = {}
        /\ \A scope \in Scopes : LiveTurnBlocking(scope) = {}
    BY <2>1 DEF OutstandingOf, LiveTurnBlocking
  <2>3. progress = {}
    BY DEF MayExit
  <2>4. \A c \in Children : ~HoldsReply(c)
    BY <2>1 DEF RecordInv, ReplyHeldLive
  <2> QED
    BY <2>1, <2>2, <2>3, <2>4 DEF NoStrandedWaiter
<1>3. actor = "running" /\ actor' = "exited" /\ [Next]_vars => MayExit
  <2> SUFFICES ASSUME actor = "running", actor' = "exited", [Next]_vars PROVE MayExit
    OBVIOUS
  <2>1. CASE ActorExits
    BY <2>1 DEF ActorExits
  <2>2. CASE ActorDropped
    BY <2>2 DEF ActorDropped, DropCoordinator
  <2>3. CASE CloseChannels \/ UNCHANGED vars
    BY <2>3 DEF CloseChannels, vars, ends
  <2>4. CASE Commands \/ RunEvents \/ MessageEvents \/ Environment \/ Timers
    BY <2>4 DEF Commands, HandleSpawn, SpawnStarts, SpawnEnqueues, SpawnFails, CancelOne,
       CancelParentPrompt, CancelParentSession, CancelWorkflow, TeardownSession, CancelChildren,
       OpenSpawnAdmission, HandleQuery, WaitPromptDrained, Completions, RunEvents, Started,
       StartRefused, Finalizing, RunReturns, RunBuffered, FinishProgress, MessageEvents,
       SendActiveMessage, HandleSendActiveMessage, HostClaims, HostCommits, FinishActiveMessage,
       FinishLastActiveMessage, Environment, CallerDrops, AskerDrops, CancelToken, Timers, Reap,
       BudgetExpires, QueryExpires, TeardownExpires, SpawnReadyExpires, ends
  <2> QED
    BY <2>1, <2>2, <2>3, <2>4 DEF Next, Ends
<1>4. RegistryInv /\ RecordInv /\ NoStrandedWaiter /\ [Next]_vars =>
        (actor = "running" /\ actor' = "exited" => Quiet)
  BY <1>2, <1>3
<1> QED
  BY <1>4, RegistryInvariant, RecordInvariant, NoStrandedWaiterHolds, PTL DEF Spec, ExitIsQuiet
====

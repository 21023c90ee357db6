-------------------------- MODULE MessageDelivery --------------------------
(***************************************************************************)
(* The turn-bound ownership of messages that may be delivered at a safe    *)
(* point of a running turn: MessageDeliveryLifecycle of the message        *)
(* delivery core.  The deque of slots is a set of records ordered by "at", *)
(* the position at which each was admitted.  A slot is pending until the   *)
(* turn takes it up, projecting while the turn waits for the persistence   *)
(* barrier, and delivered once the model can see it.  A slot's binding     *)
(* names the turn that owns it, by prompt and epoch.                       *)
(***************************************************************************)
EXTENDS Naturals, FiniteSets, SequencesExt

NextAt(slots) == IF slots = {} THEN 1 ELSE 1 + Max({s.at : s \in slots})

\* A new slot at the end of the deque, bound to the turn that is running.
AdmitPending(slots, binding, id) ==
    slots \cup {[id |-> id, binding |-> binding, phase |-> "pending", at |-> NextAt(slots)]}

InPhase(slots, binding, phase) == {s \in slots : s.binding = binding /\ s.phase = phase}

\* Every slot of the turn in one phase moves to the next one.
Advance(slots, binding, from, to) ==
    {IF s.binding = binding /\ s.phase = from THEN [s EXCEPT !.phase = to] ELSE s : s \in slots}

BeginDelivery(slots, binding) == Advance(slots, binding, "pending", "projecting")
FinishDelivery(slots, binding) == Advance(slots, binding, "projecting", "delivered")

-----------------------------------------------------------------------------
(***************************************************************************)
(* How a turn's end disposes of its slots.  A target is the set of         *)
(* bindings that end.                                                      *)
(***************************************************************************)
\* Mutant: a hard teardown falls back as well.
FallsBackAlways(cause) == cause # "actorDrop"

FallsBack(cause) == cause \in {"completion", "softCancel", "rewind"}

\* Mutant: a target without a binding matches no slot.
NoBindings(slots) == {}

\* TerminalTarget::All: every binding that occurs.
AllBindings(slots) == {s.binding : s \in slots}

Ended(slots, target) == {s \in slots : s.binding \in target}

\* What nobody took up yet, if the cause lets it run as a prompt of its own.
Fallbacks(slots, target, cause) ==
    {s \in Ended(slots, target) : s.phase = "pending" /\ FallsBack(cause)}

\* What is answered with the result of the turn instead.
Completions(slots, target, cause) ==
    Ended(slots, target) \ Fallbacks(slots, target, cause)

Remaining(slots, target) == slots \ Ended(slots, target)

\* The slots admitted up to one of them.
Admitted(slots, s) == {t \in slots : t.at <= s.at}

\* The ids of slots, first admitted first.
InOrder(slots) ==
    [n \in 1..Cardinality(slots) |-> (CHOOSE s \in slots : Cardinality(Admitted(slots, s)) = n).id]

IdsOf(slots) == {s.id : s \in slots}

====

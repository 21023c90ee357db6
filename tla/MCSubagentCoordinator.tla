----------------------- MODULE MCSubagentCoordinator -----------------------
(***************************************************************************)
(* Instances of SubagentCoordinator for TLC.                               *)
(***************************************************************************)
EXTENDS SubagentCoordinator, TLC

CONSTANTS c1, c2, c3, s1, s2, p1, w1, m1, m2, a1

Task(s, md) == [session |-> s, prompt |-> p1, run |-> NoRun, mode |-> md, surface |-> TRUE]
Unit(s) == [session |-> s, prompt |-> p1, run |-> w1, mode |-> "completion", surface |-> TRUE]

\* One kind of request: the order of the queue is what matters.
FifoRequests == {Task(s1, "foreground")}

\* A foreground spawn of the session, and a task and a workflow unit sent from
\* the session of c1.
NestedRequests == {Task(s1, "foreground"), Task(c1, "background"), Unit(c1)}

\* A foreground task, which may be handed off, and a unit of a workflow run in one
\* session.
TeardownRequests == {Task(s1, "foreground"), Unit(s1)}

\* A background task, addressed by the messages of its parent.
MessageRequests == {Task(s1, "background")}

\* No request names a child, so the children are interchangeable.
ChildSymmetry == Permutations(Children)

====

---------------------------- MODULE MCScheduler ----------------------------
(***************************************************************************)
(* Instances of Scheduler for TLC.                                         *)
(***************************************************************************)
EXTENDS Scheduler, TLC

CONSTANTS t1, t2, i1, i2, i3, p, q

\* Tasks, iterations and prompts are interchangeable.
Symmetry == Permutations(Tasks) \cup Permutations(Iterations) \cup Permutations(Prompts)

====

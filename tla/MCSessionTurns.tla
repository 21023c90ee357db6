--------------------------- MODULE MCSessionTurns ---------------------------
(***************************************************************************)
(* Instances of SessionTurns for TLC.                                      *)
(***************************************************************************)
EXTENDS SessionTurns, TLC

CONSTANTS p1, p2, w1, r1, m1, m2

PromptSymmetry == Permutations(Prompts)
====

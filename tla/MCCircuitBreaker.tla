--------------------------- MODULE MCCircuitBreaker ---------------------------
(***************************************************************************)
(* Small instances of CircuitBreaker for TLC.  Callers are interchangeable *)
(* and the checked formulas are invariants and action properties, so the   *)
(* runs use their symmetry.                                                *)
(***************************************************************************)
EXTENDS CircuitBreaker, TLC

CallerSymmetry == Permutations(Callers)
=============================================================================

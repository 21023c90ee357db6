---------------------------- MODULE InputLedger ----------------------------
(***************************************************************************)
(* What a session promises about the inputs it takes in.  An input waits   *)
(* until it is shown to the model or withdrawn.  It is shown at most once, *)
(* an input that was withdrawn is never shown, and one that was shown      *)
(* never waits again.  Whoever waits for an answer to a withdrawn input    *)
(* has got it.  How inputs wait, in what order they are shown and why they *)
(* are withdrawn is left open; one step may move several of them.          *)
(***************************************************************************)
CONSTANTS Inputs, Clients

VARIABLES stage, answered

vars == <<stage, answered>>

Stages == {"new", "waiting", "shown", "withdrawn"}

Init == stage = [i \in Inputs |-> "new"] /\ answered = {}

Take(i) == stage[i] = "new" /\ stage'[i] = "waiting"
Show(i) == stage[i] = "waiting" /\ stage'[i] = "shown"
Withdraw(i) == stage[i] = "waiting" /\ stage'[i] = "withdrawn" /\ (i \in Clients => i \in answered')

Next ==
    /\ stage' \in [Inputs -> Stages]
    /\ \A i \in Inputs : stage'[i] = stage[i] \/ Take(i) \/ Show(i) \/ Withdraw(i)
    /\ answered' \in SUBSET Inputs
    /\ answered \subseteq answered'

Spec == Init /\ [][Next]_vars

====

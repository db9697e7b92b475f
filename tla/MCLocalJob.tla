----------------------------- MODULE MCLocalJob -----------------------------
(* Instances of LocalJob for TLC. *)
EXTENDS LocalJob, TLC

\* Minions and calls of Wait are interchangeable.
MinionsAndWaits == Permutations(Minions) \cup Permutations(Waits)
==============================================================================

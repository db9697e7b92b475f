----------------------------- MODULE MCRestAuth -----------------------------
(* Instances of RestAuth for TLC. *)
EXTENDS RestAuth, TLC

\* Requests are interchangeable.
RequestPermutations == Permutations(Requests)
==============================================================================

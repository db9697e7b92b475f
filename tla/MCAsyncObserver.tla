--------------------------- MODULE MCAsyncObserver ---------------------------
(* Instances of AsyncObserver for TLC. *)
EXTENDS AsyncObserver, TLC

\* Emitters are interchangeable, and so are closers.
ThreadPermutations == Permutations(Emitters) \cup Permutations(Closers)
==============================================================================

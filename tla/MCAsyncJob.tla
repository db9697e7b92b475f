----------------------------- MODULE MCAsyncJob -----------------------------
(* Instances of AsyncJob for TLC. *)
EXTENDS AsyncJob, TLC

\* Returners are interchangeable, and so are closers and waiters.
ThreadPermutations ==
    Permutations(Returners) \cup Permutations(Closers) \cup Permutations(Waiters)
==============================================================================

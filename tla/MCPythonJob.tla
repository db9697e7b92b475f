----------------------------- MODULE MCPythonJob -----------------------------
(* Instances of PythonJob for TLC. *)
EXTENDS PythonJob

\* One minion succeeds or fails, the others succeed.
OneMayFail ==
    [m \in Minions |-> IF m = CHOOSE n \in Minions : TRUE THEN {"ok", "fail"} ELSE {"ok"}]

\* The calls of Wait are interchangeable, so that what holds of one holds of each.
SomeWait == CHOOSE w \in Waits : TRUE

\* A call whose context ended, or that joined one whose context ended, returns,
\* though Salt may never answer the helper's lookup (python.go, invokeWait).
EndedWaitReturns == EndedContextReturns(SomeWait)

\* While Salt answers, every call returns once the expected minions have, or once
\* the helper's deadline has passed (brine_salt_bridge.py, wait_local).
EveryWaitReturns == WaitReturns(SomeWait)
==============================================================================

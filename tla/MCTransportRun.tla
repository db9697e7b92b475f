--------------------------- MODULE MCTransportRun ---------------------------
(***************************************************************************)
(* Small sets of requests, replies and payloads for TransportRun.          *)
(***************************************************************************)
EXTENDS TransportRun

ListTarget == List(Minions)
GlobTarget == Glob(Minions)

Requested ==
    { FullReturn(Local("state.sls", ListTarget), TRUE),
      Local("test.ping", ListTarget),
      Local("state.sls", GlobTarget) }

Optioned ==
    LET r == Local("cmd.run", List({}))
        l == [r EXCEPT !.target = [ListTarget EXCEPT !.names = {CHOOSE m \in Minions : TRUE}]]
    IN  { r, [r EXCEPT !.target = NoTarget], Local(NoFunction, ListTarget),
          BatchCount(l, 1), BatchPercent(BatchCount(l, 1), 50), BatchPercent(l, 101),
          BatchCount(l, -1), [BatchCount(l, 2) EXCEPT !.batch.percent = 10],
          ModuleTimeout(l, 1), GatherJobTimeout(ModuleTimeout(l, 5), 9),
          ModuleTimeout(l, MaxDuration), ModuleTimeout(l, -1) }

Unaddressed ==
    { Runner("jobs.active"), BatchCount(Runner("jobs.active"), 1), Runner(NoFunction),
      Lowstate(<< >>),
      Lowstate(<< [client |-> "local", fun |-> "test.ping", target |-> GlobTarget],
                  [client |-> "runner", fun |-> "jobs.active", target |-> NoTarget] >>),
      Lowstate(<< [client |-> "local", fun |-> "test.ping", target |-> NoTarget] >>) }

OverTransports(requests, op, outputs) ==
    [transport : {"rest"}, mode : {"auto"}, observed : {FALSE}, op : {op},
     output : outputs, request : requests]
    \cup
    [transport : {"python"}, mode : {"direct"}, observed : {FALSE}, op : {op},
     output : outputs, request : requests]

MCCalls ==
    OverTransports(Requested, "run", {"json"})
    \cup OverTransports({Local("test.ping", GlobTarget)}, "run", {"json", "unknown"})
    \cup OverTransports(Optioned \cup Unaddressed, "run", {"summary"})
    \cup OverTransports({Local("test.ping", GlobTarget), Local("test.ping", List({}))},
                        "resolve", {"json"})
    \cup OverTransports(Optioned \cup Unaddressed, "start", {"json"})
    \cup [transport : {"rest"}, mode : {"async", "auto", "direct"}, observed : {TRUE},
          op : {"run"}, output : {"json"}, request : Optioned]
    \cup [transport : {"rest"}, mode : {"async"}, observed : BOOLEAN,
          op : {"run"}, output : {"json"}, request : Requested]

Bodies ==
    {Scalar("true"), Scalar("false"), Scalar("null"), Scalar("text"), MapOf({}),
     MapOf({"ok"}), MapOf({"ok", "failed"}), MapOf({"pending"}), MapOf({"failed", "alien"})}

Plain(body) == [fields |-> {}, body |-> body, retcode |-> 0, success |-> TRUE, error |-> FALSE]
Full(body)  == [Plain(body) EXCEPT !.fields = {"ret", "jid", "retcode"}]

MCReplies ==
    UNION {{Plain(b), Full(b), [Full(b) EXCEPT !.retcode = 1]} : b \in Bodies}
    \cup {[Full(b) EXCEPT !.fields = @ \cup {"success"}, !.success = FALSE] :
              b \in {Scalar("true"), MapOf({"ok"})}}
    \cup {[Full(b) EXCEPT !.fields = @ \cup {"error"}, !.error = TRUE] :
              b \in {Scalar("true"), MapOf({"ok"})}}
    \cup {[Plain(Scalar("false")) EXCEPT !.fields = f, !.retcode = 1] :
              f \in {{"ret"}, {"ret", "jid"}, {"retcode"}, {"success"}, {"return"}}}

MCPayloads == {<< >>, << {} >>, << {}, {"retcode"} >>, << {"unsuccessful"} >>}
==============================================================================

SPECIFICATION Spec

CONSTANTS
    Minions = {m1, m2}
    Jids = {j1}
    NoJid = NoJid
    Functions = {"state.sls", "test.ping", "cmd.run", "jobs.active"}
    StateFunctions = {"state.sls"}
    NoFunction = ""
    Second = 4
    MaxDuration = 31
    Registrable = {"test.ping"}
    Calls <- MCCalls
    Replies <- MCReplies
    Payloads <- MCPayloads

INVARIANTS
    ExitZeroMeansEveryMinionSucceeded
    EveryTargetedMinionIsAccountedFor
    StatesRunTellsAll
    MalformedStateIsRetried
    SaltIsAskedWhatWasRequested

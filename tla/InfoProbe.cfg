\* Three callers of two calls each, of either transport.
SPECIFICATION InfoSpec
CONSTANTS
    Transports = {"rest", "python"}
    Callers = {c1, c2, c3}
    NoCaller = NoCaller
    MaxCalls = 2
CHECK_DEADLOCK FALSE
INVARIANTS
    OneProbeAtATime
PROPERTY
    LateCallersAreTold

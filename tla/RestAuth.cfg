\* Three requests; Salt revokes its tokens once and one cached token expires.
SPECIFICATION Spec
CONSTANTS
    Requests = {r1, r2, r3}
    NoRequest = NoRequest
    MaxRevocations = 1
    MaxExpiries = 1
    MaxFailures = 1
SYMMETRY RequestPermutations
CHECK_DEADLOCK FALSE
INVARIANTS
    OneLoginPerCause
    NoOrphans

SPECIFICATION Spec
CONSTANTS
    c1 = c1
    c2 = c2
    i1 = i1
    Containers = {c1, c2}
    Images = {i1}
    ImageOf <- SharedImage
    Files = {marker}
    Hidden = {}
    Marker = marker
    HostStates = {"running", "exited"}
    HostActs = {}
    MaxActs = 0
    Locked = TRUE
    LiveRestore = FALSE
    Faulty = {}
    RerunAfter = {"prepared", "unprepared", "reverted", "interrupted", "postFailed"}
    MaxRuns = 1
INVARIANTS
    NotAffected
CHECK_DEADLOCK FALSE

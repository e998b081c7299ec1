SPECIFICATION FairSpec
CONSTANTS
    c1 = c1
    c2 = c2
    i1 = i1
    Containers = {c1, c2}
    Images = {i1}
    ImageOf <- SharedImage
    Files = {marker}
    Hidden = {}
    Marker = marker
    HostStates = {"running", "exited"}
    HostActs = {"exit"}
    MaxActs = 1
    Locked = TRUE
    LiveRestore = TRUE
    Faulty = {}
    RerunAfter = {"prepared", "unprepared", "reverted", "interrupted", "postFailed"}
    MaxRuns = 2
PROPERTIES
    TakenOver
CHECK_DEADLOCK FALSE

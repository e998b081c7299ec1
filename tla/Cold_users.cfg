SPECIFICATION FairSpec
CONSTANTS
    c1 = c1
    c2 = c2
    c3 = c3
    i1 = i1
    i2 = i2
    Containers = {c1, c2}
    Images = {i1, i2}
    ImageOf <- SharedImage
    Files = {data, marker}
    Hidden = {}
    Marker = marker
    HostStates = {"running", "exited", "paused", "gone"}
    HostActs = {"exit", "start", "pause", "remove"}
    MaxActs = 2
    Locked = FALSE
    LiveRestore = FALSE
    Faulty = {"process", "mv", "start"}
    RerunAfter = {"prepared", "unprepared", "reverted"}
    MaxRuns = 2
INVARIANTS
    DeletedArePruned
PROPERTIES
    ImplementsHandover
    RunsEnd
CHECK_DEADLOCK FALSE

SPECIFICATION Spec
CONSTANTS
    c1 = c1
    c2 = c2
    c3 = c3
    i1 = i1
    i2 = i2
    Containers = {c1, c2}
    Images = {i1, i2}
    ImageOf <- OwnImage
    Files = {data, dotfile, marker}
    Hidden = {dotfile}
    Marker = marker
    HostStates = {"running", "exited"}
    HostActs = {}
    MaxActs = 0
    Locked = TRUE
    LiveRestore = FALSE
    Faulty = {"process"}
    RerunAfter = {"prepared", "unprepared", "reverted", "interrupted"}
    MaxRuns = 2
INVARIANTS
    NoFileLost
CHECK_DEADLOCK FALSE

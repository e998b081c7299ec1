SPECIFICATION Spec
CONSTANTS
    c1 = c1
    c2 = c2
    c3 = c3
    i1 = i1
    i2 = i2
    Containers = {c1, c2}
    Images = {i1, i2}
    ImageOf <- OwnImage
    Files = {data, dotfile, marker}
    Hidden = {dotfile}
    Marker = marker
    HostStates = {"running", "exited"}
    HostActs = {"exit"}
    MaxActs = 1
    Locked = TRUE
    LiveRestore = TRUE
    Faulty = {"process", "config", "list", "inspect", "pull", "snapshot", "quota", "save", "volumes", "sandboxes", "network", "stop", "touch", "mv", "start", "systemctl", "rpm", "pouch"}
    RerunAfter = {"prepared", "unprepared", "reverted"}
    MaxRuns = 2
INVARIANTS
    TypeOK
    HandoverComplete
    NoFileLost
    RevertRestores
    IInv
    ServiceRestored
    NoDoubleRun
    ExclusiveRoot
PROPERTIES
    OnlyStoppedMoved
    ImplementsHandover
CHECK_DEADLOCK FALSE

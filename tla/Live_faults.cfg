SPECIFICATION Spec
CONSTANTS
    c1 = c1
    c2 = c2
    i1 = i1
    Containers = {c1, c2}
    Images = {i1}
    ImageOf <- SharedImage
    Files = {marker}
    Hidden = {}
    Marker = marker
    HostStates = {"running", "exited", "paused", "gone"}
    HostActs = {"exit", "start", "pause", "remove"}
    MaxActs = 2
    Locked = TRUE
    LiveRestore = TRUE
    Faulty = {"process", "config", "list", "inspect", "containerd", "save", "volumes", "sandboxes", "network", "systemctl", "rpm", "pouch"}
    RerunAfter = {"prepared", "unprepared", "reverted", "interrupted", "postFailed"}
    MaxRuns = 2
INVARIANTS
    TypeOK
    HandoverComplete
    DeletedArePruned
    NoOrphans
PROPERTIES
    ImplementsHandover
CHECK_DEADLOCK FALSE

SPECIFICATION Spec
CONSTANTS
    c1 = c1
    c2 = c2
    local1 = local1
    ali1 = ali1
    remote1 = remote1
    nfs1 = nfs1
    Containers = {c1, c2}
    Volumes = {local1, ali1, remote1, nfs1}
    VolumeDriver <- Drivers
    Hosts <- AnyHosts
    MaxAttempt = 3
    Faulty = {"docker", "save", "bolt", "cri", "copy", "process"}
    MaxActs = 1
    MaxRuns = 2
INVARIANTS
    TypeOK
    RefsMatchMounts
    StoreClosed
    SandboxesComplete
    StoresAgree
    SettingsKept
CHECK_DEADLOCK FALSE

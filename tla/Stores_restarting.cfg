SPECIFICATION Spec
CONSTANTS
    c1 = c1
    c2 = c2
    local1 = local1
    ali1 = ali1
    remote1 = remote1
    nfs1 = nfs1
    Containers = {c1, c2}
    Volumes = {}
    VolumeDriver <- Drivers
    Hosts <- EarlyHosts
    MaxAttempt = 3
    Faulty = {}
    MaxActs = 0
    MaxRuns = 1
INVARIANTS
    StatusKnown
CHECK_DEADLOCK FALSE

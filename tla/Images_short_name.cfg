SPECIFICATION Spec
CONSTANTS
    c1 = c1
    c2 = c2
    app = app
    l1 = l1
    l2 = l2
    l3 = l3
    Containers = {c1, c2}
    Repositories = {app}
    ImageName <- ShortNames
    Image <- Images
    RepoTags <- Tags
    RepoDigests <- Digests
    Registry <- Registered
    Driver = "overlay2"
    Modes = {"prepare"}
    LeaseIds = {l1, l2, l3}
    Faulty = {}
    MaxRuns = 3
SYMMETRY LeaseSymmetry
INVARIANTS
    PreparationSucceeds
CHECK_DEADLOCK FALSE

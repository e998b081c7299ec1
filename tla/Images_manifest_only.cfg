SPECIFICATION Spec
CONSTANTS
    c1 = c1
    c2 = c2
    app = app
    l1 = l1
    l2 = l2
    l3 = l3
    Containers = {c1, c2}
    Repositories = {app}
    ImageName <- FullNames
    Image <- Images
    RepoTags <- Tags
    RepoDigests <- Digests
    Registry <- Registered
    Driver = "overlay2"
    Modes = {"pull-images", "image-manifest-only"}
    LeaseIds = {l1, l2, l3}
    Faulty = {}
    MaxRuns = 2
SYMMETRY LeaseSymmetry
INVARIANTS
    ImagesDownloaded
CHECK_DEADLOCK FALSE

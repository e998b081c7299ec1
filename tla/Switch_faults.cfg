SPECIFICATION FairSpec
CONSTANT Faulty = {"cp", "systemctl", "rpm"}
INVARIANTS
    TypeOK
    SwitchInv
    ErasedSafely
    OkIsAnswered
    ConnectionsBounded
PROPERTIES
    Returns
    ImplementsSwitch
CHECK_DEADLOCK FALSE

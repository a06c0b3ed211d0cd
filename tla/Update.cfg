CONSTANTS
    Variable <- Variables
    Master = "statusSIC"
    Folder = "statusLanFolder"
    State <- States
    Share <- Shares
    Targets <- AllTargets
    MaxEvents = 2
CHECK_DEADLOCK FALSE
SPECIFICATION Spec
INVARIANTS
    TypeOK
    ReadyAfterAll
    StatesAreTold
    MountStateIsTrue
PROPERTIES
    BootFinishes
    UpdateEnds

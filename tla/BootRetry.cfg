CONSTANTS
    Variable <- Variables
    Master = "statusSIC"
    Folder = "statusLanFolder"
    State <- States
    Share <- Shares
    Targets <- DcTarget
    MaxEvents = 2
CHECK_DEADLOCK FALSE
SPECIFICATION Spec
PROPERTY BootingIsRetried

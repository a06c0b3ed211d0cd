------------------------------ MODULE MCUpdate ------------------------------
(* An instance of Update (and of Boot and StateVariables below it): the     *)
(* master, the LAN folder and the state of one monitor.                     *)
EXTENDS Update

Variables == {"statusSIC", "statusLanFolder", "statusUSB"}
States == {"booting", "ready", "nodevice", "mountedrw", "unmounted"}
Shares == {"a"}
AllTargets == {"DC", "SICBL", "SIC"}
DcTarget == {"DC"}
=============================================================================

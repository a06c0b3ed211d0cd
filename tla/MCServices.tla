----------------------------- MODULE MCServices -----------------------------
(* One instance for the parts of the daemon that have no step in common: a   *)
(* behaviour is one of the part chosen in its initial state, and the other   *)
(* parts stay as they begin.                                                 *)
EXTENDS ConfFile, Configuration, Alarms, Watchdogs, Monitors, WebServer, FunctionCalls,
        MeasurementIds, Exports, Connections

VARIABLE part

Parts == {"file", "configuration", "log", "alarms", "lan", "usb", "monitors", "web", "call",
          "ids", "export", "socket", "answers"}

mcVars == <<part, cfVars, cgVars, lg, lgWaiting, lgFailed, alOwn, wlVars, wuVars, mnVars, wsVars, caVars,
            mpVars, exVars, cnVars>>

MCInit ==
    /\ part \in Parts
    /\ CfInit /\ CgInit /\ LgInit /\ AlInit /\ WuInit /\ CnInit
    /\ IF part = "lan" THEN WlInit ELSE WlInit /\ wlScripts = {"script"}
    /\ IF part = "monitors" THEN MnInit
       ELSE MnInit /\ mnWorld.online /\ mnWorld.printers = {} /\ mnWorld.peer = "none"
    /\ IF part = "web" THEN WsInit ELSE WsInit /\ ws.enabled /\ ws.port = "p" /\ ~wsBroken /\ ws.proc["handler"] # Nothing
    /\ IF part = "call" THEN CaInit
       ELSE ca = NewCall("getParameter", "Debug", <<>>, "none", "none", <<>>, "none")
    /\ IF part = "ids" THEN MpInit ELSE MpInit /\ mlFile = Without("none")
    /\ IF part = "export" THEN ExInit
       ELSE /\ ex = NewExport("conf", "unknown", "none", "none", "none", "none", FALSE)
            /\ exWorld = NewWorld(<<>>, 0, <<>>, TRUE, TRUE, {}, "none")
            /\ exMade = {} /\ exOut = <<>> /\ exConfig = "none" /\ exTemps = 0

----------------------------------------------------------------------------
\* What the parts but one leave alone.
ConfParts == <<cfVars, cgVars>>
LogParts == <<lg, lgWaiting, lgFailed, alOwn>>
DogParts == <<wlVars, wuVars>>
WebParts == <<mnVars, wsVars>>
CallParts == <<caVars, mpVars, exVars, cnVars>>

FileStep == part = "file" /\ CfNext /\ UNCHANGED <<cgVars, LogParts, DogParts, WebParts, CallParts>>
ConfigurationStep == part = "configuration" /\ CgNext /\ UNCHANGED <<cfVars, LogParts, DogParts, WebParts, CallParts>>
LogStep == part = "log" /\ LgNext /\ UNCHANGED <<alOwn, ConfParts, DogParts, WebParts, CallParts>>
AlarmStep == part = "alarms" /\ AlNext /\ UNCHANGED <<lg, ConfParts, DogParts, WebParts, CallParts>>
LanStep == part = "lan" /\ WlNext /\ UNCHANGED <<wuVars, ConfParts, LogParts, WebParts, CallParts>>
UsbStep == part = "usb" /\ WuNext /\ UNCHANGED <<wlVars, ConfParts, LogParts, WebParts, CallParts>>
MonitorStep == part = "monitors" /\ MnNext /\ UNCHANGED <<wsVars, ConfParts, LogParts, DogParts, CallParts>>
WebStep == part = "web" /\ WsNext /\ UNCHANGED <<mnVars, ConfParts, LogParts, DogParts, CallParts>>
CallStep == part = "call" /\ CaNext /\ UNCHANGED <<mpVars, exVars, cnVars, ConfParts, LogParts, DogParts, WebParts>>
IdsStep == part = "ids" /\ MpNext /\ UNCHANGED <<caVars, exVars, cnVars, ConfParts, LogParts, DogParts, WebParts>>
ExportStep == part = "export" /\ ExNext /\ UNCHANGED <<caVars, mpVars, cnVars, ConfParts, LogParts, DogParts, WebParts>>
CnRest == UNCHANGED <<caVars, mpVars, exVars, ConfParts, LogParts, DogParts, WebParts>>
SocketStep == part = "socket" /\ SoNext /\ CnRest
FileAnswerStep == part = "answers" /\ FiNext /\ CnRest

MCNext ==
    /\ UNCHANGED part
    /\ \/ FileStep \/ ConfigurationStep \/ LogStep \/ AlarmStep \/ LanStep
       \/ UsbStep \/ MonitorStep \/ WebStep \/ CallStep \/ IdsStep \/ ExportStep \/ SocketStep \/ FileAnswerStep

----------------------------------------------------------------------------
(***************************************************************************)
(* Fairness: timers of the main loop run out again and again, a process    *)
(* with a timeout ends or is killed by it, and a query ends with a reply   *)
(* or by its timeout.  There is none for the processes of the monitors:    *)
(* lpstat has no timeout, and each is replaced at the next tick.           *)
(***************************************************************************)
CgFairness == WF_mcVars(part = "configuration" /\ CgReread /\ UNCHANGED <<part, cfVars, LogParts, DogParts, WebParts, CallParts>>)

LanRest == part = "lan" /\ UNCHANGED <<part, wuVars, ConfParts, LogParts, WebParts, CallParts>>
LanFairness == WF_mcVars(LanRest /\ LanTimeout) /\ WF_mcVars(LanRest /\ LanScriptEnds)

UsbFairness == WF_mcVars(part = "usb" /\ UsbScriptEnds /\ UNCHANGED <<part, wlVars, ConfParts, LogParts, WebParts, CallParts>>)

MonitorRest == part = "monitors" /\ UNCHANGED <<part, wsVars, ConfParts, LogParts, DogParts, CallParts>>
MonitorFairness ==
    /\ WF_mcVars(MonitorRest /\ NtpStarted)
    /\ WF_mcVars(MonitorRest /\ \E ok \in BOOLEAN : NtpTimeQuery(ok))
    /\ \A d \in Devices : WF_mcVars(MonitorRest /\ MnTimeout(d))

CallFairness == WF_mcVars(part = "call" /\ CaNext /\ UNCHANGED <<part, mpVars, exVars, cnVars, ConfParts, LogParts, DogParts, WebParts>>)

ExportFairness == WF_mcVars(part = "export" /\ ExOwn /\ UNCHANGED <<part, caVars, mpVars, cnVars, ConfParts, LogParts, DogParts, WebParts>>)

FileAnswerFairness == WF_mcVars(part = "answers" /\ FiAnswer /\ UNCHANGED part /\ CnRest)

MCSpec ==
    /\ MCInit /\ [][MCNext]_mcVars
    /\ CgFairness /\ LanFairness /\ UsbFairness /\ MonitorFairness /\ CallFairness /\ ExportFairness /\ FileAnswerFairness

----------------------------------------------------------------------------
(* The variables of every part keep their types.                             *)
PartsTypeOK ==
    /\ CfTypeOK /\ CgTypeOK /\ LgTypeOK /\ AlTypeOK /\ WlTypeOK /\ WuTypeOK
    /\ MnTypeOK /\ WsTypeOK /\ CaTypeOK /\ MpTypeOK /\ ExTypeOK /\ CnTypeOK

(* What no step does: the alarms free no measurement that is not flagged, a  *)
(* watchdog moves no file it has not given on but one that is empty, put     *)
(* over the list or unreadable at that moment, and an id is taken from its   *)
(* measurement by a request for that one only (see Alarms, Watchdogs and     *)
(* MeasurementIds).                                                          *)
StepsKeep == RemovesFlaggedOnly /\ MovedWasTaken /\ IdStays /\ IdKeepsItsMeasurement

(* Whatever was begun ends, in every part that waits for a process, a timer, *)
(* a query or the scheduler (see the modules of the parts).                  *)
PartsSettle ==
    /\ LeaseIsWritten /\ FilesAreTaken /\ UsbListEnds /\ MonitorsSettle
    /\ CallEnds /\ ExportEnds /\ FilesAreAnswered
=============================================================================

------------------------------ MODULE Monitors ------------------------------
(* The monitors of the network's services (ntp_monitor.cc,                   *)
(* printer_monitor.cc, lan_socket_monitor.cc): each starts a process at its  *)
(* timer and sets a state of the device from the result.  A process that is  *)
(* started while the last one runs replaces it, and the end of the last one  *)
(* is for nobody: so nothing says that any of them is ever heard of.         *)
EXTENDS Integers, FiniteSets

CONSTANT WorldLimit     \* bound: changes of the network and of what is on it

ASSUME MonitorsConstant == WorldLimit \in Nat

Devices == {"ntp", "printer", "socket"}
LanPrinters == {"lp", "other"}      \* "lp" is lanPrinterName
NtpStatus == {0, 1, 2}              \* exit status of ntpstat
Jobs == {"idle", "busy", "disabled"}
Peers == {"none", "host", "host:port"}

VARIABLES
    mnState,    \* statusLanTime, statusLanPrinter, statusLanSocket
    mnProc,     \* the monitors whose process runs
    mnNtp,      \* how far the NTP monitor has come
    mnPrinters, \* the printers in the configuration
    mnWorld,    \* network, printers and hosts
    mnChanges

mnVars == <<mnState, mnProc, mnNtp, mnPrinters, mnWorld, mnChanges>>

World == [online : BOOLEAN, ntpstat : NtpStatus, printers : SUBSET LanPrinters, job : Jobs,
          peer : Peers, answers : BOOLEAN]

MnTypeOK ==
    /\ mnState \in [Devices -> {"unset", "nodevice", "synchronized", "unsynchronized", "notconnected",
                                "idle", "busy", "error", "connected"}]
    /\ mnProc \subseteq Devices
    /\ mnNtp \in {"query", "starts", "timer", "aborted"}
    /\ mnPrinters \subseteq LanPrinters
    /\ mnWorld \in World
    /\ mnChanges \in 0..WorldLimit

(***************************************************************************)
(* What each process finds.  The address of the peer is cut one character  *)
(* before the colon (lan_socket_monitor.cc:80), so that a peer with a port *)
(* is never reached.                                                       *)
(***************************************************************************)
Finds(d) ==
    CASE d = "ntp" -> CASE mnWorld.ntpstat = 0 -> "synchronized"
                        [] mnWorld.ntpstat = 1 -> "unsynchronized"
                        [] OTHER -> "notconnected"
      [] d = "printer" -> IF "lp" \notin mnWorld.printers THEN "nodevice"
                          ELSE IF mnWorld.job \in {"idle", "busy"} THEN mnWorld.job ELSE "error"
      [] d = "socket" -> IF mnWorld.peer = "host" /\ mnWorld.answers THEN "connected" ELSE "notconnected"

\* on_monitor_timeout and on_cups_config_check_timeout
Asks(d) == mnWorld.online /\ (d = "socket" => mnWorld.peer # "none")

StateUnasked(d) == IF mnWorld.online THEN "notconnected" ELSE "nodevice"

Look(d) ==
    /\ mnProc' = IF Asks(d) THEN mnProc \cup {d} ELSE mnProc
    /\ mnState' = IF Asks(d) THEN mnState ELSE [mnState EXCEPT ![d] = StateUnasked(d)]

MnInit ==
    /\ mnWorld \in [online : BOOLEAN, ntpstat : {1}, printers : {{}, LanPrinters}, job : {"idle"},
                    peer : Peers, answers : {TRUE}]
    /\ mnState = [d \in Devices |-> IF d = "ntp" \/ Asks(d) THEN "unset" ELSE StateUnasked(d)]
    /\ mnProc = {d \in Devices \ {"ntp"} : Asks(d)}
    /\ mnNtp = "query" /\ mnPrinters = {} /\ mnChanges = 0

MnTimeout(d) ==
    /\ d = "ntp" => mnNtp = "timer"
    /\ Look(d)
    /\ UNCHANGED <<mnNtp, mnPrinters, mnWorld, mnChanges>>

\* The end of the process a monitor holds; lpstat also lists the printers.
MnFinished(d) ==
    /\ d \in mnProc
    /\ d = "ntp" => mnNtp = "timer"
    /\ mnProc' = mnProc \ {d}
    /\ mnState' = [mnState EXCEPT ![d] = Finds(d)]
    /\ mnPrinters' = IF d = "printer" THEN mnWorld.printers ELSE mnPrinters
    /\ UNCHANGED <<mnNtp, mnWorld, mnChanges>>

\* on_date_time_query_finish: without the time of the DC nothing follows.
NtpTimeQuery(ok) ==
    /\ mnNtp = "query"
    /\ mnNtp' = IF ok THEN "starts" ELSE "aborted"
    /\ UNCHANGED <<mnState, mnProc, mnPrinters, mnWorld, mnChanges>>

\* on_ntp_start_proc_finish
NtpStarted ==
    /\ mnNtp = "starts" /\ mnNtp' = "timer"
    /\ Look("ntp")
    /\ UNCHANGED <<mnPrinters, mnWorld, mnChanges>>

MnWorldChanges ==
    /\ mnChanges < WorldLimit /\ mnChanges' = mnChanges + 1
    /\ \/ \E s \in NtpStatus : mnWorld' = [mnWorld EXCEPT !.ntpstat = s]
       \/ \E p \in SUBSET LanPrinters, j \in Jobs : mnWorld' = [mnWorld EXCEPT !.printers = p, !.job = j]
       \/ mnWorld' = [mnWorld EXCEPT !.online = ~@]
       \/ mnWorld' = [mnWorld EXCEPT !.answers = ~@]
       \/ \E p \in Peers : mnWorld' = [mnWorld EXCEPT !.peer = p]
    /\ UNCHANGED <<mnState, mnProc, mnNtp, mnPrinters>>

MnNext ==
    \/ \E d \in Devices : MnTimeout(d) \/ MnFinished(d)
    \/ \E ok \in BOOLEAN : NtpTimeQuery(ok)
    \/ NtpStarted
    \/ MnWorldChanges

MnSpec == MnInit /\ [][MnNext]_mnVars

----------------------------------------------------------------------------
Told(d) ==
    /\ \/ mnState[d] = IF Asks(d) THEN Finds(d) ELSE StateUnasked(d)
       \/ d = "ntp" /\ mnNtp \in {"query", "aborted"}
    /\ d = "printer" /\ mnWorld.online => mnPrinters = mnWorld.printers

(* When the network and its services stay as they are, every state comes to  *)
(* tell of them for good, whatever results are late, and the printers of the *)
(* configuration are those of CUPS: unless, from some time on, no process of *)
(* the monitor ends before its next tick replaces it.  That is not excluded: *)
(* lpstat has no timeout at all (printer_monitor.cc:66), and those of ping   *)
(* and ntpstat are ten minutes, with a tick each minute.  What the monitor   *)
(* told last then stands for ever.  And the time stays unset when the first  *)
(* query to the DC is not answered or has failed; ready is then never told.  *)
MonitorsSettle == \A d \in Devices : <>[]Told(d) \/ <>[](d \in mnProc)
=============================================================================

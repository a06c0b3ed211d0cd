----------------------------- MODULE Watchdogs -----------------------------
(* The watchdogs of the shared folder and of the USB stick (watchdog.cc,     *)
(* lan_watchdog.cc, usb_watchdog.cc, watchdog_manager.cc, the file interface *)
(* they feed).  Both go through a sorted list of files: a batch file is read *)
(* and given to the scheduler at once, for another one its script is run;    *)
(* afterwards a small file is moved to the log folder, a big one is copied.  *)
EXTENDS Integers, Sequences, FiniteSets

CONSTANTS
    FileLimit,      \* bound: files put into the shared folder
    TroubleLimit,   \* bound: changes of the share and of the configuration
    PlugLimit       \* bound: sticks plugged in

ASSUME WatchdogConstants == {FileLimit, TroubleLimit, PlugLimit} \subseteq Nat

(***************************************************************************)
(* A file by its name.  An empty batch file is refused by                  *)
(* FileInterfaceConnection; "stray" has the name of an input file, but a   *)
(* pattern no input processor asks for.  A list is gone through in the     *)
(* order of the names, and files are alike but for the script, for which   *)
(* the list waits: a list is the set of its files.                         *)
(***************************************************************************)
InputFiles == {"batch", "Bulk", "empty", "script", "stray", "update"}
SortedBeforeScript == {"batch", "Bulk", "empty"}
Batches == {"batch", "Bulk", "empty", "update"}
Small == InputFiles \ {"Bulk", "update"}

\* One watchdog, what is left of its list, the files it sees, those of them
\* that it cannot read, and how often each was given on since it was put there.
WatchdogState ==
    [active : BOOLEAN, progress : BOOLEAN, list : SUBSET InputFiles, running : BOOLEAN,
     files : SUBSET InputFiles, unreadable : SUBSET InputFiles, given : [InputFiles -> 0..2]]

Idle(active, files) ==
    [active |-> active, progress |-> FALSE, list |-> {}, running |-> FALSE,
     files |-> files, unreadable |-> {}, given |-> [f \in InputFiles |-> 0]]

\* move_or_copy_xml_to_log_dir; what it throws is caught.  "stuck": the files
\* that cannot be moved.
MoveOrCopy(w, fs, stuck) == [w EXCEPT !.files = @ \ ((fs \cap Small) \ stuck)]

\* Counted up to two, which stands for more than once.
Give(w, fs) ==
    [w EXCEPT !.given = [f \in InputFiles |-> IF f \in fs \cap w.files /\ @[f] < 2 THEN @[f] + 1 ELSE @[f]]]

\* forward_entry_to_zix and next: what cannot be opened, read or taken is not
\* given on, but next() moves it all the same, as it does what is nobody's.
ForwardToZix(w, fs, stuck) ==
    MoveOrCopy(Give(w, (fs \cap (Batches \ {"empty"})) \ w.unreadable), fs, stuck)

(***************************************************************************)
(* process_entry and next from the first of a list to the next script or   *)
(* to the end; a script that does not exist cannot be spawned, which ends  *)
(* the round.                                                              *)
(***************************************************************************)
Process(w, list, stuck, scripts) ==
    LET done == ForwardToZix(w, IF "script" \in list THEN list \cap SortedBeforeScript ELSE list, stuck)
    IN IF "script" \notin list \cap scripts THEN [done EXCEPT !.progress = FALSE, !.list = {}, !.running = FALSE]
       ELSE [Give(done, {"script"}) EXCEPT !.progress = TRUE, !.running = TRUE,
                                           !.list = list \ SortedBeforeScript]

\* on_ip_proc_ready, whatever the result was: the script is the next one.
ScriptEnds(w) == Process(MoveOrCopy(w, {"script"}, {}), w.list \ {"script"}, {}, {"script"})

----------------------------------------------------------------------------
(***************************************************************************)
(* The shared folder.                                                      *)
(***************************************************************************)
VARIABLES
    wlan,       \* the watchdog of the one input folder
    wlShare,    \* the share is mounted
    wlScripts,  \* the scripts of the input processors that exist
    wlExcused,  \* history: files that were given on, or lost, for a reason
    wlPut,      \* bounds
    wlTrouble

wlVars == <<wlan, wlShare, wlScripts, wlExcused, wlPut, wlTrouble>>

LanFiles == InputFiles \ {"update"}

WlTypeOK ==
    /\ wlan \in WatchdogState
    /\ wlan.running <=> wlan.progress
    /\ wlan.running => "script" \in wlan.list
    /\ wlShare \in BOOLEAN /\ wlScripts \in SUBSET {"script"}
    /\ wlExcused \subseteq InputFiles
    /\ wlPut \in 0..FileLimit /\ wlTrouble \in 0..TroubleLimit

WlInit ==
    /\ wlan = Idle(TRUE, {}) /\ wlShare = TRUE /\ wlScripts \in SUBSET {"script"}
    /\ wlExcused = {} /\ wlPut = 0 /\ wlTrouble = 0

\* A user puts a file there, or another one over it.
LanPut ==
    /\ wlShare /\ wlPut < FileLimit /\ wlPut' = wlPut + 1
    /\ \E f \in LanFiles :
          /\ wlan' = [wlan EXCEPT !.files = @ \cup {f}, !.unreadable = @ \ {f}, !.given[f] = 0]
          /\ wlExcused' = IF f = "script" /\ wlan.running THEN wlExcused \cup {f} ELSE wlExcused \ {f}
    /\ UNCHANGED <<wlShare, wlScripts, wlTrouble>>

\* LanWatchdog::timeout_handler.  The log folder may be missing: nothing can
\* be moved in this round.
LanTimeout ==
    /\ wlan.active /\ ~wlan.progress /\ wlShare
    /\ \E stuck \in {{}, wlan.files} :
          /\ stuck # {} => wlTrouble < TroubleLimit
          /\ wlTrouble' = IF stuck = {} THEN wlTrouble ELSE wlTrouble + 1
          /\ wlan' = Process(wlan, wlan.files, stuck, wlScripts)
          /\ wlExcused' = wlExcused \cup stuck
    /\ UNCHANGED <<wlShare, wlScripts, wlPut>>

\* The script ends or is killed after ten minutes.  Without the share there
\* is no file to move, and none is read.  A second script that is missing
\* would end the program here; all that use one name are one file.
LanScriptEnds ==
    /\ wlan.running
    /\ wlan' = IF wlShare THEN ScriptEnds(wlan)
               ELSE [ScriptEnds([wlan EXCEPT !.files = {}]) EXCEPT !.files = wlan.files]
    /\ UNCHANGED <<wlShare, wlScripts, wlExcused, wlPut, wlTrouble>>

LanTrouble == wlTrouble < TroubleLimit /\ wlTrouble' = wlTrouble + 1

LanShareChanges ==
    /\ LanTrouble
    /\ wlShare' = ~wlShare
    /\ wlExcused' = wlExcused \cup wlan.files
    /\ UNCHANGED <<wlan, wlScripts, wlPut>>

\* A batch file cannot be read, for its rights or an error of the share, or
\* can be read again.
LanReadability ==
    /\ LanTrouble
    /\ \E f \in wlan.files \cap (Batches \ {"empty"}) :
          wlan' = [wlan EXCEPT !.unreadable = IF f \in @ THEN @ \ {f} ELSE @ \cup {f}]
    /\ UNCHANGED <<wlShare, wlScripts, wlExcused, wlPut>>

\* WatchdogManager::on_config_changed for lanFolder.
LanEnable ==
    /\ LanTrouble
    /\ wlan' = [wlan EXCEPT !.active = ~@]
    /\ UNCHANGED <<wlShare, wlScripts, wlExcused, wlPut>>

\* For another path or timer the watchdogs are made anew; a script that runs
\* is nobody's.
LanReconfigure ==
    /\ LanTrouble
    /\ wlan' = [Idle(wlan.active, wlan.files) EXCEPT !.given = wlan.given, !.unreadable = wlan.unreadable]
    /\ wlExcused' = IF wlan.running THEN wlExcused \cup {"script"} ELSE wlExcused
    /\ UNCHANGED <<wlShare, wlScripts, wlPut>>

WlNext ==
    \/ LanPut \/ LanTimeout \/ LanScriptEnds
    \/ LanShareChanges \/ LanReadability \/ LanEnable \/ LanReconfigure

----------------------------------------------------------------------------
(***************************************************************************)
(* The stick.  The signals of udisks come after what they tell.  Its files *)
(* can be read: one that cannot is only given on less often.               *)
(***************************************************************************)
VARIABLES
    wusb,       \* the watchdog, its device, timer and state
    wuPlugged,  \* the sticks plugged in: how each can be mounted
    wuSignals,  \* signals of udisks that have not been handled
    wuPlugs

wuVars == <<wusb, wuPlugged, wuSignals, wuPlugs>>

Sticks == {"s", "t"}
NoStick == "none"
Mounts == {"rw", "remounted", "ro", "broken"}
InputFolder == {"Bulk", "script"}
StickFiles == {"Bulk", "script", "update"}

Usb == [dog : WatchdogState, current : Sticks \cup {NoStick}, mounted : BOOLEAN, timer : BOOLEAN,
        state : {"nodevice", "mountedro", "mountedrw"}]

WuTypeOK ==
    /\ wusb \in Usb
    /\ wusb.mounted => wusb.current # NoStick
    /\ DOMAIN wuPlugged \subseteq Sticks /\ \A s \in DOMAIN wuPlugged : wuPlugged[s] \in Mounts
    /\ wuSignals \in Seq({"DeviceAdded", "DeviceRemoved"} \X Sticks)
    /\ wuPlugs \in 0..PlugLimit

\* After rescan() without a stick.
WuInit ==
    /\ wusb = [dog |-> Idle(TRUE, {}), current |-> NoStick, mounted |-> FALSE, timer |-> FALSE, state |-> "nodevice"]
    /\ wuPlugged = <<>> /\ wuSignals = <<>> /\ wuPlugs = 0

UsbPlug ==
    /\ wuPlugs < PlugLimit /\ wuPlugs' = wuPlugs + 1
    /\ \E s \in Sticks \ DOMAIN wuPlugged : \E how \in Mounts :
          /\ wuPlugged' = [t \in DOMAIN wuPlugged \cup {s} |-> IF t = s THEN how ELSE wuPlugged[t]]
          /\ wuSignals' = Append(wuSignals, <<"DeviceAdded", s>>)
    /\ UNCHANGED wusb

UsbPull ==
    /\ \E s \in DOMAIN wuPlugged :
          /\ wuPlugged' = [t \in DOMAIN wuPlugged \ {s} |-> wuPlugged[t]]
          /\ wuSignals' = Append(wuSignals, <<"DeviceRemoved", s>>)
          /\ wusb' = IF wusb.current = s /\ wusb.mounted THEN [wusb EXCEPT !.dog.files = {}] ELSE wusb
    /\ UNCHANGED wuPlugs

\* usb_handler: the whole input at plugging in, then the update folder only.
UsbHandler(u, update_only) ==
    IF ~u.dog.active \/ u.dog.progress THEN u
    ELSE [u EXCEPT !.dog = Process(@, IF update_only THEN @.files \ InputFolder ELSE @.files, {}, {"script"})]

\* udisks_device_added; a stick that is gone has no properties to read.
UdisksDeviceAdded(u, s) ==
    LET mounted == [u EXCEPT !.current = s, !.mounted = TRUE,
                             !.dog.files = StickFiles, !.dog.given = [f \in InputFiles |-> 0]]
    IN IF s \notin DOMAIN wuPlugged \/ u.current # NoStick THEN u
       ELSE CASE wuPlugged[s] = "broken" -> [u EXCEPT !.current = s]
              [] wuPlugged[s] = "ro" -> [mounted EXCEPT !.state = "mountedro"]
              [] OTHER -> UsbHandler([mounted EXCEPT !.state = "mountedrw", !.timer = TRUE], FALSE)

\* Mutant: The removal of any stick clears the state of the current one.
UdisksDeviceRemovedAny(u, s) ==
    IF u.current = NoStick THEN u
    ELSE [u EXCEPT !.current = NoStick, !.mounted = FALSE, !.state = "nodevice", !.dog.files = {}]

UdisksDeviceRemoved(u, s) ==
    IF u.current # s THEN u
    ELSE [u EXCEPT !.current = NoStick, !.mounted = FALSE, !.timer = FALSE, !.state = "nodevice", !.dog.files = {}]

UsbSignal ==
    /\ wuSignals # <<>> /\ wuSignals' = Tail(wuSignals)
    /\ LET s == Head(wuSignals)[2]
       IN wusb' = IF Head(wuSignals)[1] = "DeviceAdded" THEN UdisksDeviceAdded(wusb, s)
                  ELSE UdisksDeviceRemoved(wusb, s)
    /\ UNCHANGED <<wuPlugged, wuPlugs>>

\* UsbWatchdog::timeout_handler, every minute
UsbTimeout ==
    /\ wusb.timer /\ wusb.current # NoStick
    /\ wusb' = UsbHandler(wusb, TRUE)
    /\ UNCHANGED <<wuPlugged, wuSignals, wuPlugs>>

UsbScriptEnds ==
    /\ wusb.dog.running
    /\ wusb' = [wusb EXCEPT !.dog = ScriptEnds(@)]
    /\ UNCHANGED <<wuPlugged, wuSignals, wuPlugs>>

WuNext == UsbPlug \/ UsbPull \/ UsbSignal \/ UsbTimeout \/ UsbScriptEnds

WlSpec == WlInit /\ [][WlNext]_wlVars

WuSpec == WuInit /\ [][WuNext]_wuVars

----------------------------------------------------------------------------
(* A small file of the shared folder is given on once, over any number of    *)
(* rounds (move_or_copy_xml_to_log_dir is called twice for a batch file).    *)
(* It may be given on again after it could not be moved, after the share was *)
(* lost, or when its watchdog was made anew while its script ran.            *)
TakenOnce == \A f \in Small \ wlExcused : wlan.given[f] <= 1

(* A small file leaves the input folder only after it was given on.  Moved   *)
(* without it are one that the scheduler or no input processor wants, one    *)
(* that was put over another while its script ran, and a batch file that     *)
(* cannot be read at that moment: forward_entry_to_zix only logs it          *)
(* (watchdog.cc:107-110, 119-122), and next() takes it away (:191).          *)
MovedWasTaken ==
    [][\A f \in wlan.files \ wlan'.files :
          \/ f \in {"empty", "stray"} \cup wlan.unreadable
          \/ f = "script" /\ f \in wlExcused
          \/ wlan'.given[f] > 0]_wlVars

(* Every file that is put into the shared folder is given on or moved, while *)
(* the share is there, the watchdog active, the file can be read and the     *)
(* script exists: a missing script in front of it stops every round.  One    *)
(* that waits for ever would be there, not given on, from some time on.      *)
FilesAreTaken == \A f \in LanFiles \ {"empty"} :
    []<>(\/ f \notin wlan.files \/ wlan.given[f] > 0
         \/ ~wlShare \/ ~wlan.active \/ f \in wlan.unreadable \/ "script" \notin wlScripts)

(* statusUsbFolder tells of the current stick, and the stick that it tells   *)
(* of is plugged in when all signals have been handled: whatever sticks came *)
(* and went meanwhile, also ones that cannot be mounted.                     *)
UsbStateTrue ==
    /\ wusb.state = "mountedrw" <=> wusb.timer
    /\ wusb.current = NoStick => wusb.state = "nodevice"
    /\ wuSignals = <<>> /\ wusb.current # NoStick =>
          /\ wusb.current \in DOMAIN wuPlugged
          /\ wusb.state = CASE wuPlugged[wusb.current] = "broken" -> "nodevice"
                            [] wuPlugged[wusb.current] = "ro" -> "mountedro"
                            [] OTHER -> "mountedrw"

(* The input of a stick is handled "only once at plugin" (usb_watchdog.h:19),*)
(* although the list of a stick that was pulled is still gone through when   *)
(* the next one is mounted at its place.                                     *)
UsbOncePerPlug == \A f \in InputFolder : wusb.dog.given[f] <= 1

(* A list that was begun comes to its end, also when its stick is pulled.    *)
UsbListEnds == []<>~wusb.dog.progress

(* No file of a share or a stick is given on twice, and the DC is told of    *)
(* the stick that is there.                                                  *)
WatchdogsAgree == TakenOnce /\ UsbOncePerPlug /\ UsbStateTrue
=============================================================================

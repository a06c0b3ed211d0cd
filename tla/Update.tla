------------------------------- MODULE Update -------------------------------
(***************************************************************************)
(* The function update (CoreFunctionUpdate) on the running device: images  *)
(* of the SIC are left to a script, after the DC was told; an image of the *)
(* DC is verified and sent, the DC restarts with it, and all states are    *)
(* replayed, since it has forgotten them.  The states go on changing       *)
(* meanwhile, so this module extends Boot with one update.                 *)
(*                                                                         *)
(* Assumed of the times in the code: the DC has begun its restart before   *)
(* the USB device is opened again (20 s), and has ended it before the      *)
(* replay (dcRebootDuration).                                              *)
(***************************************************************************)
EXTENDS Boot

CONSTANT Targets    \* "DC" for DCBL and DCF, "SICBL", "SIC" for the others

ASSUME UpdateAssumption == Targets \subseteq {"DC", "SICBL", "SIC"}

VARIABLES
    usb,        \* the DC is reached over USB, not RS422; chosen when it matters
    target,     \* of the update that has been started
    step,       \* where the update is
    result,     \* what its caller was answered
    alive,      \* no exception has left a callback
    flashed,    \* the DC has taken the image
    forgotten,  \* history: the DC has restarted since it was told the states
    crossed     \* history: variables with a query under way at the replay

updateVars == <<usb, target, step, result, alive, flashed, forgotten, crossed>>

allVars == <<deviceVars, updateVars>>

Steps == {"idle", "telling", "script", "rebooting", "verifying", "sending",
          "resetting", "waiting", "replaying", "done"}

Init ==
    /\ BootInit
    /\ usb = TRUE
    /\ target = None
    /\ step = "idle"
    /\ result = None
    /\ alive = TRUE
    /\ flashed = FALSE
    /\ forgotten = FALSE
    /\ crossed = {}

GoesTo(next) ==
    /\ step' = next
    /\ UNCHANGED <<usb, target, result, alive, flashed, forgotten, crossed>>

Answer(status) ==
    /\ step' = "done"
    /\ result' = status
    /\ UNCHANGED <<usb, target, alive, flashed, forgotten, crossed>>

Sends(tells) == wire' = Append(wire, [from |-> Updater, tells |-> tells])

quiet == <<sic, replied, dc, dcUp, bootVars>>

-----------------------------------------------------------------------------
(* start_call                                                              *)

\* handle_sic: the DC is told first.
HandleSic == step' = "telling" /\ Sends([v \in {Master} |-> "restart"])

\* handle_dc: the image is put into a file and its signature checked.
HandleDc == step' = "verifying" /\ UNCHANGED wire

StartUpdate(t) ==
    /\ stage = "running" /\ step = "idle"
    /\ Event
    /\ target' = t
    /\ usb' \in IF t = "DC" THEN BOOLEAN ELSE {TRUE}
    /\ IF t = "DC" THEN HandleDc ELSE HandleSic
    /\ UNCHANGED <<quiet, result, alive, flashed, forgotten, crossed>>

\* check_xml_and_get_values: from another interface, without a folder to take
\* the image from, or with parameters that do not fit.
Refused ==
    /\ stage = "running" /\ step = "idle"
    /\ Event
    /\ Answer("400")
    /\ UNCHANGED <<wire, quiet>>

\* The query of the update ends without a 200, for a lost connection (500)
\* or another reason.
Fails ==
    /\ Loses(Updater)
    /\ wire' = WireWithout(Updater)
    /\ UNCHANGED bootVars

Succeeds ==
    /\ Replies(Updater)
    /\ UNCHANGED <<wire, bootVars>>

\* The file for the script is written: the image, or where it is and how the
\* rescue system reaches it.  This or the start of the script may throw.
ScriptIsPrepared == GoesTo("script") \/ Answer("500")

\* on_reboot_query_finish
RebootIsTold ==
    /\ step = "telling"
    /\ Succeeds /\ UNCHANGED sic
    /\ ScriptIsPrepared

RebootIsNotTold ==
    /\ step = "telling"
    /\ Fails /\ UNCHANGED sic
    /\ Answer("failed")

\* on_update_script_finish: only the bootloader needs no restart of the SIC.
ScriptEnds ==
    /\ step = "script"
    /\ \/ Answer("500")
       \/ target = "SICBL" /\ Answer("200")
       \/ target = "SIC" /\ GoesTo("rebooting")
    /\ UNCHANGED <<sic, link, bootVars>>

\* UpdateSignatureCheckRequest: openssl does not agree, or cannot be started.
NotVerified == Answer("403")

\* on_dc_signature_verified: the image is read again to be sent, and may be
\* empty or gone by now (a stick was removed).
SignatureVerified ==
    /\ step = "verifying"
    /\ \/ GoesTo("sending") /\ Sends(<<>>)
       \/ (NotVerified \/ Answer("500")) /\ UNCHANGED wire
       \/ /\ alive' = FALSE
          /\ UNCHANGED <<wire, usb, target, step, result, flashed, forgotten, crossed>>
    /\ UNCHANGED <<quiet, events>>

\* reset_connection: the USB device is closed; the RS422 handler emits
\* resetted at once.
Reset ==
    IF usb
    THEN GoesTo("resetting") /\ sic' = [sic EXCEPT !.online = FALSE]
    ELSE GoesTo("waiting") /\ UNCHANGED sic

\* on_query_finish: a lost connection is taken for the restart of the DC.
ImageIsSent ==
    /\ step = "sending"
    /\ Succeeds \/ Fails
    /\ Reset

ImageIsNotSent ==
    /\ step = "sending"
    /\ Fails /\ UNCHANGED sic
    /\ Answer("failed")

\* on_reconnect_timeout, whose signal starts the waiting time.  Replies that
\* came while the device was closed are gone.
Reconnected ==
    /\ step = "resetting" /\ flashed = FALSE /\ dcUp
    /\ sic' = [sic EXCEPT !.online = TRUE]
    /\ replied' = {}
    /\ GoesTo("waiting")
    /\ UNCHANGED <<wire, dc, dcUp, events, bootVars>>

\* on_wait_dc_boot_timeout
Replay ==
    /\ step = "waiting" /\ flashed = FALSE /\ dcUp
    /\ step' = "replaying"
    /\ wire' = Append(wire, ReplayQuery(sic))
    /\ crossed' = crossed \cup sic.busy
    /\ UNCHANGED <<quiet, events, usb, target, result, alive, flashed, forgotten>>

\* on_query2_finish
ReplayEndsSilently ==
    /\ step = "replaying"
    /\ UNCHANGED sic
    /\ \/ Succeeds /\ Answer("200")
       \/ Fails /\ GoesTo("idle")

ReplayEnds ==
    /\ step = "replaying"
    /\ UNCHANGED sic
    /\ \/ Succeeds /\ Answer("200")
       \/ Fails /\ Answer("failed")

-----------------------------------------------------------------------------
(* The DC.                                                                 *)

DcReads ==
    /\ DcCarriesOut
    /\ flashed' = (flashed \/ (step = "sending" /\ Head(wire).from = Updater))
    /\ forgotten' = (forgotten /\ ~(step = "replaying" /\ Head(wire).from = Updater))
    /\ UNCHANGED <<bootVars, usb, target, step, result, alive, crossed>>

DcRestartsWithImage ==
    /\ flashed
    /\ DcRestarts
    /\ flashed' = FALSE
    /\ forgotten' = TRUE
    /\ UNCHANGED <<sic, bootVars, usb, target, step, result, alive, crossed>>

UpdateStep ==
    \/ RebootIsTold \/ RebootIsNotTold \/ ScriptEnds
    \/ SignatureVerified \/ ImageIsSent \/ ImageIsNotSent
    \/ Reconnected \/ Replay \/ ReplayEnds

Next ==
    /\ alive
    /\ \/ BootNext /\ UNCHANGED updateVars
       \/ \E t \in Targets : StartUpdate(t)
       \/ Refused
       \/ UpdateStep
       \/ DcReads \/ DcRestartsWithImage
       \/ DcIsUp /\ UNCHANGED <<bootVars, updateVars>>

\* The DC reads, restarts and comes up again, and the update goes on: its
\* process, queries and timers end.
Fairness ==
    /\ BootFairness
    /\ WF_allVars(DcReads)
    /\ WF_allVars(DcRestartsWithImage)
    /\ WF_allVars(DcIsUp /\ UNCHANGED <<bootVars, updateVars>>)
    /\ WF_allVars(UpdateStep)

Spec == Init /\ [][Next]_allVars /\ Fairness

-----------------------------------------------------------------------------
(* Properties.                                                             *)

\* The variables keep their types, and a query that has been answered or is
\* on the wire belongs to a variable that waits for it.
TypeOK ==
    /\ sic \in SicType /\ sic.sends = <<>>
    /\ wire \in Seq(Query)
    /\ replied \subseteq Sender
    /\ \A v \in Variable : OnWire(v) \/ v \in replied => v \in sic.busy
    /\ dc \in [Variable -> State \cup {Unknown, "restart"}]
    /\ stage \in Stages /\ retry \subseteq Callback
    /\ isMounted \in BOOLEAN /\ used \in Share \cup {""}
    /\ procs \subseteq [kind: {"mount", "umount", "remount"}, watched: BOOLEAN, nr: Nat]
    /\ mounts \in Nat
    /\ step \in Steps /\ target \in Targets \cup {None} /\ crossed \subseteq Variable

\* The master tells "ready" only when the interfaces and monitors have been
\* created, once, however often the folder was mounted meanwhile, and every
\* other state has been told: the DC may rely on the states from then on.
ReadyAfterAll ==
    dc[Master] = "ready" =>
        /\ stage = "running" /\ partThrees = 1
        /\ \A v \in Variable \ {Master} : sic.current[v] # Unknown

\* Between its queries, the DC knows the state that was set last of every
\* variable none of whose queries has failed, and it does so again after the
\* replay that follows its restart, unless a query crossed the replay.
StatesAreTold ==
    ~forgotten /\ target \in {None, "DC"} =>
        \A v \in Variable \ (sic.busy \cup sic.failed \cup crossed) :
            \/ dc[v] = sic.asked[v]
            \/ v = Master /\ sic.asked[v] = "ready" /\ sic.submitted # Variable

\* When nothing runs, the mounter is right about the share being mounted,
\* as long as its processes did not run at the same time.
MountStateIsTrue ==
    procs = {} /\ ~overlapped => isMounted = (mounts > 0)

\* If no query fails and processes can be started, the start is finished and
\* the DC is told.
BootFinishes ==
    <>(dc[Master] = "ready" \/ sic.failed # {} \/ unspawned \/ ~alive)

\* An update is answered, or the SIC restarts with it, or the image went away.
UpdateEnds == (target # None) ~> (step \in {"done", "rebooting"} \/ ~alive)

\* "if it failed, we retry the query in 10 seconds" (libzix.cc:217).
BootingIsRetried == ("query_booting_finished" \in retry) ~> (Master \in sic.busy)
=============================================================================

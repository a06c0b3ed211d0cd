-------------------------------- MODULE Boot --------------------------------
(***************************************************************************)
(* The start of the daemon (libzix.cc) and the mounter of the LAN folder   *)
(* (SambaMounter), on whose signal mount_ready the last part of the start  *)
(* waits.  Each part runs in a callback of the one before: the DC answers  *)
(* that it knows the SIC is booting, the mount ends, and then interfaces   *)
(* and monitors are created, whose first states (SetOther) are what the    *)
(* master's "ready" waits for.                                             *)
(*                                                                         *)
(* The configuration of the folder may change as soon as the mounter       *)
(* exists.  A ProcessRequest that is replaced by another one is destroyed  *)
(* with its callback, while its process goes on: such a process has no     *)
(* watcher.                                                                *)
(***************************************************************************)
EXTENDS StateVariables, FiniteSets

CONSTANTS
    Folder,       \* the state variable of the mounter, statusLanFolder
    Share         \* the shares the configuration may name, with their user

ASSUME BootAssumption ==
    /\ Folder \in Variable \ {Master}
    /\ {"nodevice", "mountedrw", "unmounted"} \subseteq State
    /\ "" \notin Share

Others == Variable \ {Master, Folder}

VARIABLES
    stage,       \* which part of the initialisation has been reached
    retry,       \* the timers that repeat a query to the DC
    isMounted,   \* _is_mounted
    used,        \* _share (with _user, _pass) of the last mount()
    procs,       \* running mount and umount processes
    conf,        \* the parameters of the folder
    mounts,      \* how often the share is mounted, for the system
    online,      \* the network has an address
    partThrees,  \* history: how often init_part3 has run
    overlapped,  \* history: a process was started while another one ran
    unspawned    \* history: a process could not be started

bootVars == <<stage, retry, isMounted, used, procs, conf, mounts, online,
              partThrees, overlapped, unspawned>>

deviceVars == <<sic, link, bootVars>>

mounter == <<isMounted, used, procs, mounts, overlapped>>

Stages == {"booting", "part2", "running"}

\* kind is what the process does and, for umount, whether mount() follows;
\* watched says whether its ProcessRequest still exists.
Process == [kind: {"mount", "umount", "remount"}, watched: BOOLEAN, nr: Nat]

BootInit ==
    LET s == SetStateAndCall(InitialSic, "booting", "query_booting_finished") IN
    /\ sic = [s EXCEPT !.sends = <<>>]
    /\ InitLink(s.sends)
    /\ stage = "booting"
    /\ retry = {}
    /\ isMounted = FALSE
    /\ used = ""
    /\ procs = {}
    /\ conf \in [enabled: BOOLEAN, share: Share \cup {""}]
    /\ mounts = 0
    /\ online \in BOOLEAN
    /\ partThrees = 0
    /\ overlapped = FALSE
    /\ unspawned = FALSE

-----------------------------------------------------------------------------
(* The processes of the mounter.  P is what runs when the new one starts.  *)

\* A new request of these kinds takes the place of the one before.
Unwatched(P, kinds) ==
    {IF p.kind \in kinds THEN [p EXCEPT !.watched = FALSE] ELSE p : p \in P}

NewNr(P) == CHOOSE n \in 0 .. Cardinality(P) : \A p \in P : p.nr # n

Spawn(P, kind, kinds) ==
    /\ procs' = Unwatched(P, kinds)
                \cup {[kind |-> kind, watched |-> TRUE, nr |-> NewNr(P)]}
    /\ overlapped' = (overlapped \/ P # {})
    /\ UNCHANGED unspawned

\* start_process throws; the request before is gone all the same.
CannotSpawn(P, kinds) ==
    /\ unspawned' = TRUE
    /\ procs' = Unwatched(P, kinds)
    /\ overlapped' = (overlapped \/ P # {})

SpawnNothing(P) == procs' = P /\ UNCHANGED <<overlapped, unspawned>>

-----------------------------------------------------------------------------
(* mount(), called when nothing is mounted, with the configuration c.      *)

\* "undone": the directory to mount at cannot be created, and the members
\* stay as they are.
NotMounted == {"refused", "undone"}
MountOutcome == NotMounted \cup {"started", "unspawned"}

Mount(o, c, P) ==
    /\ used' = IF o = "undone" THEN used ELSE c.share
    /\ CASE o = "undone"    -> SpawnNothing(P)
         [] o = "refused"   -> ~(c.enabled /\ c.share # "" /\ online) /\ SpawnNothing(P)
         [] o = "started"   -> c.enabled /\ c.share # "" /\ online /\ Spawn(P, "mount", {"mount"})
         [] o = "unspawned" -> c.enabled /\ c.share # "" /\ online /\ CannotSpawn(P, {"mount"})

\* The states it sets.  It emits mount_ready only if it has NotMounted.
MountStates(o, s) == IF o = "started" THEN s ELSE SetState(s, Folder, "nodevice")

\* The start listens to mount_ready until it heard it once; init_part3 ends
\* with run_query_ready.
Ready(s) == SetStateAndCall(s, "ready", "query_ready_finished")

MountReady(emitted, s) ==
    IF emitted /\ stage = "part2"
    THEN stage' = "running" /\ partThrees' = partThrees + 1 /\ Sic(Ready(s))
    ELSE UNCHANGED <<stage, partThrees>> /\ Sic(s)

\* on_mount_finished, or the end of a mount process nobody watches.
MountEnds(p, ok) ==
    /\ p \in procs /\ p.kind = "mount"
    /\ procs' = procs \ {p}
    /\ mounts' = mounts + (IF ok THEN 1 ELSE 0)
    /\ isMounted' = (isMounted \/ (p.watched /\ ok))
    /\ IF p.watched
       THEN MountReady(TRUE, SetState(sic, Folder, IF ok THEN "mountedrw" ELSE "nodevice"))
       ELSE UNCHANGED <<stage, partThrees, sic, wire>>
    /\ UNCHANGED <<replied, dc, dcUp, events, retry, used, conf, online, overlapped,
                   unspawned>>

\* on_umount_finished, followed by mount() for remount().
UmountSucceedsUnnoticed(p) ==
    /\ p \in procs /\ p.kind # "mount" /\ mounts > 0
    /\ mounts' = mounts - 1
    /\ SpawnNothing(procs \ {p})
    /\ Sic(SetState(sic, Folder, "unmounted"))
    /\ UNCHANGED <<replied, dc, dcUp, events, retry, conf, online, isMounted, used, stage,
                   partThrees>>

UmountSucceeds(p) ==
    /\ p \in procs /\ p.kind # "mount" /\ mounts > 0
    /\ mounts' = mounts - 1
    /\ isMounted' = (isMounted /\ ~p.watched)
    /\ LET s == IF p.watched THEN SetState(sic, Folder, "unmounted") ELSE sic IN
       IF p.watched /\ p.kind = "remount"
       THEN \E o \in MountOutcome :
               /\ Mount(o, conf, procs \ {p})
               /\ MountReady(o \in NotMounted, MountStates(o, s))
       ELSE /\ SpawnNothing(procs \ {p})
            /\ Sic(s)
            /\ UNCHANGED <<used, stage, partThrees>>
    /\ UNCHANGED <<replied, dc, dcUp, events, retry, conf, online>>

\* Nothing is mounted, or it is in use.
UmountFails(p) ==
    /\ p \in procs /\ p.kind # "mount"
    /\ procs' = procs \ {p}
    /\ UNCHANGED <<sic, link, stage, retry, isMounted, used, conf, mounts, online,
                   partThrees, overlapped, unspawned>>

\* The start of umount(): it shares one request for both kinds.
Umount(kind) ==
    Spawn(procs, kind, {"umount", "remount"}) \/ CannotSpawn(procs, {"umount", "remount"})

\* A parameter of the folder is set; confChanged calls on_conf_changed.
ChangeFolder(c) ==
    /\ stage # "booting" /\ c # conf
    /\ Event
    /\ conf' = c
    /\ \/ /\ c.enabled /\ ~isMounted
          /\ \E o \in MountOutcome :
                /\ Mount(o, c, procs)
                /\ MountReady(o \in NotMounted, MountStates(o, sic))
       \/ /\ ~c.enabled /\ isMounted /\ Umount("umount")
          /\ UNCHANGED <<sic, wire, stage, partThrees, used>>
       \/ /\ c.enabled /\ isMounted /\ c.share # used /\ Umount("remount")
          /\ UNCHANGED <<sic, wire, stage, partThrees, used>>
       \/ /\ c.enabled = isMounted /\ (isMounted => c.share = used)
          /\ SpawnNothing(procs)
          /\ UNCHANGED <<sic, wire, stage, partThrees, used>>
    /\ UNCHANGED <<replied, dc, dcUp, retry, isMounted, mounts, online>>

-----------------------------------------------------------------------------
(* Ends of the queries of the state variables.                             *)

unmoved == <<isMounted, mounts, conf, online>>

\* query_booting_finished with 200: init_part2, which creates the mounter
\* and mounts; all of it runs before on_query_finish goes on.
BootingIsKnown ==
    /\ sic.connected = "query_booting_finished"
    /\ Replies(Master)
    /\ \E o \in MountOutcome :
          LET s == MountStates(o, Promoted(sic, Master)) IN
          /\ Mount(o, conf, procs)
          /\ IF o \in NotMounted
             THEN /\ stage' = "running" /\ partThrees' = partThrees + 1
                  /\ Sic(AfterCallback(Ready(s), Master))
             ELSE /\ stage' = "part2" /\ UNCHANGED partThrees
                  /\ Sic(AfterCallback(s, Master))
    /\ UNCHANGED <<unmoved, retry>>

QuerySucceeds(v) ==
    /\ ~(v = Master /\ sic.connected = "query_booting_finished")
    /\ Replies(v)
    /\ Sic(AfterCallback(Promoted(sic, v), v))
    /\ UNCHANGED bootVars

\* Both callbacks of the start set a timer of 10 s when the query failed.
QueryFails(v) ==
    /\ v \in sic.busy
    /\ Loses(v)
    /\ sic' = QueryFailed(sic, v)
    /\ wire' = WireWithout(v)
    /\ retry' = IF v = Master THEN retry \cup ({sic.connected} \ {None}) ELSE retry
    /\ UNCHANGED <<unmoved, stage, used, procs, partThrees, overlapped, unspawned>>

\* run_query_booting and run_query_ready, when called by their timers.
RunQuery(callback, state) ==
    /\ callback \in retry
    /\ retry' = retry \ {callback}
    /\ Sic(SetStateAndCall(sic, state, callback))
    /\ UNCHANGED <<replied, dc, dcUp, events, unmoved, stage, used, procs, partThrees,
                   overlapped, unspawned>>

RunQueryBooting == RunQuery("query_booting_finished", "booting")
RunQueryReady == RunQuery("query_ready_finished", "ready")

\* A monitor learns a state.
FirstSet(v, state) ==
    /\ stage = "running" /\ sic.asked[v] = Unknown
    /\ Sic(SetState(sic, v, state))
    /\ UNCHANGED <<replied, dc, dcUp, events, bootVars>>

LaterSet(v, state) ==
    /\ sic.asked[v] # Unknown
    /\ Event
    /\ Sic(SetState(sic, v, state))
    /\ UNCHANGED <<replied, dc, dcUp, bootVars>>

Network ==
    /\ online' = ~online
    /\ Event
    /\ UNCHANGED <<sic, wire, replied, dc, dcUp, stage, retry, mounter, conf,
                   partThrees, unspawned>>

MountProcessEnds(p) == MountEnds(p, TRUE) \/ MountEnds(p, FALSE)

\* The states that a monitor reports: that of the USB stick has two.
Reported == {"nodevice", "mountedrw"}

QueryEnds(v) == QuerySucceeds(v) \/ (v = Master /\ BootingIsKnown) \/ QueryFails(v)

\* The steps of the daemon and its environment, without the DC.
BootNext ==
    \/ \E v \in Variable : QueryEnds(v)
    \/ RunQueryBooting \/ RunQueryReady
    \/ \E p \in procs : MountProcessEnds(p) \/ UmountSucceeds(p) \/ UmountFails(p)
    \/ \E c \in [enabled: BOOLEAN, share: Share \cup {""}] : ChangeFolder(c)
    \/ \E v \in Others, state \in Reported : FirstSet(v, state) \/ LaterSet(v, state)
    \/ Network

\* Timers run out, queries and processes end (they have a timeout), and
\* every monitor reports once.
BootFairness ==
    /\ \A v \in Variable : WF_deviceVars(QueryEnds(v))
    /\ WF_deviceVars(RunQueryBooting)
    /\ WF_deviceVars(RunQueryReady)
    /\ WF_deviceVars(\E p \in procs : MountProcessEnds(p) \/ UmountSucceeds(p) \/ UmountFails(p))
    /\ \A v \in Others : WF_deviceVars(\E state \in Reported : FirstSet(v, state))

=============================================================================

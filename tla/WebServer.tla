------------------------------ MODULE WebServer ------------------------------
(* The web service (webservice.cc, start_stoppable.cc): the configuration of *)
(* lighttpd is edited by sed and its init script run.  Two objects run that  *)
(* script: the interface handler LAN:webservice, when the parameter          *)
(* lanWebservice changes, and Webservice, when its sed has ended.            *)
EXTENDS Integers, FiniteSets

CONSTANT WebLimit       \* bound: changes of the configuration

ASSUME WebConstant == WebLimit \in Nat

Ports == {"none", "p", "q"}            \* "none": the empty string
Runners == {"handler", "service"}
Commands == {"start", "stop", "restart"}
Nothing == "nothing"

VARIABLES
    ws,         \* parameters, processes, the file and the server
    wsOrphans,  \* seds that were replaced while they ran: the ports they write
    wsBroken,   \* history: something of the last change went wrong, see ServerFollows
    wsChanges

wsVars == <<ws, wsOrphans, wsBroken, wsChanges>>

WsTypeOK ==
    /\ ws \in [enabled : BOOLEAN, port : Ports,     \* the parameters
               current : BOOLEAN,                   \* _current_state of the handler
               proc : [Runners -> Commands \cup {Nothing}],
               sed : Ports \cup {Nothing},
               file : Ports,                        \* lighttpd_ws.conf
               server : Ports \cup {Nothing}]       \* the port lighttpd listens at
    /\ wsOrphans \subseteq Ports
    /\ wsBroken \in BOOLEAN /\ wsChanges \in 0..WebLimit

Free(w, who) == w.proc[who] = Nothing

\* StartStoppable::process: a command is dropped while another one runs, and
\* given up when the script cannot be started.
Command(w, who, command, starts) ==
    IF Free(w, who) /\ starts THEN [w EXCEPT !.proc[who] = command] ELSE w

\* updateConfig: what throws is caught, before the running sed is replaced or
\* when the new one cannot be started; "sed": it runs.
Updates == {"throws", "unstarted", "sed"}

UpdateConfig(w, how) ==
    [w EXCEPT !.sed = CASE how = "throws" -> @ [] how = "unstarted" -> Nothing [] how = "sed" -> w.port]

\* Both constructors, the second with updateConfig.
WsInit ==
    /\ \E enabled, starts \in BOOLEAN, port \in Ports, how \in Updates :
          LET w == [enabled |-> enabled, port |-> port, current |-> enabled,
                    proc |-> [r \in Runners |-> Nothing], sed |-> Nothing, file |-> "p", server |-> Nothing]
          IN /\ ws = UpdateConfig(IF enabled THEN Command(w, "handler", "start", starts) ELSE w, how)
             /\ wsBroken = (how # "sed")
    /\ wsOrphans = {} /\ wsChanges = 0

\* StartStoppable::on_config_changed, called with the announcement
OnConfigChanged(w, starts) ==
    IF w.current = w.enabled THEN w
    ELSE [Command(w, "handler", IF w.enabled THEN "start" ELSE "stop", starts) EXCEPT !.current = w.enabled]

Runs == ws.sed # Nothing \/ wsOrphans # {} \/ \E r \in Runners : ~Free(ws, r)

\* A setConf: the announcement of each, and updateConfig at its end.
WsSetConf ==
    /\ wsChanges < WebLimit /\ wsChanges' = wsChanges + 1
    /\ \E enabled, starts \in BOOLEAN, port \in Ports, how \in Updates :
          /\ <<enabled, port>> # <<ws.enabled, ws.port>>
          /\ ws' = UpdateConfig(OnConfigChanged([ws EXCEPT !.enabled = enabled, !.port = port], starts), how)
          /\ wsOrphans' = IF how = "throws" THEN wsOrphans ELSE wsOrphans \cup ({ws.sed} \ {Nothing})
          /\ wsBroken' = \/ Runs /\ wsBroken
                         \/ how # "sed" \/ ws.sed # Nothing
                         \/ enabled # ws.current /\ ~Free(ws, "handler")

\* Mutant: A server that runs is not restarted with its new port.
ConfiguredStart(w, starts) ==
    Command(w, "service", IF w.port = "none" \/ ~w.enabled THEN "stop" ELSE "start", starts)

\* on_sed_finished with a sed that succeeded
Configured(w, starts) ==
    Command(w, "service", IF w.port = "none" \/ ~w.enabled THEN "stop" ELSE "restart", starts)

WsSedFinished ==
    /\ ws.sed # Nothing
    /\ \E starts \in BOOLEAN :
          /\ ws' = Configured([ws EXCEPT !.file = ws.sed, !.sed = Nothing], starts)
          /\ wsBroken' = (wsBroken \/ ~starts \/ ~Free(ws, "service"))
    /\ UNCHANGED <<wsOrphans, wsChanges>>

\* Without success nothing is restarted; sed was killed at its timeout or has
\* failed, before or after it has put the new file at its place.
WsSedFails ==
    /\ ws.sed # Nothing
    /\ \E port \in {ws.file, ws.sed} : ws' = [ws EXCEPT !.file = port, !.sed = Nothing]
    /\ wsBroken' = TRUE
    /\ UNCHANGED <<wsOrphans, wsChanges>>

WsOrphanEnds ==
    /\ \E port \in wsOrphans, written \in BOOLEAN :
          /\ ws' = IF written THEN [ws EXCEPT !.file = port] ELSE ws
          /\ wsOrphans' = wsOrphans \ {port}
    /\ UNCHANGED <<wsBroken, wsChanges>>

\* What the init script does; a server that runs is not started again, and
\* none starts without a port.
Listens(port) == IF port = "none" THEN Nothing ELSE port

ServerAfter(command) ==
    CASE command = "start" -> IF ws.server = Nothing THEN Listens(ws.file) ELSE ws.server
      [] command = "stop" -> Nothing
      [] command = "restart" -> Listens(ws.file)

WsProcFinished(who) ==
    /\ ~Free(ws, who)
    /\ ws' = [ws EXCEPT !.server = ServerAfter(ws.proc[who]), !.proc[who] = Nothing]
    /\ UNCHANGED <<wsOrphans, wsBroken, wsChanges>>

\* A script that fails is only logged: it has done nothing, or of a restart
\* the stop.
WsProcFails(who) ==
    /\ ~Free(ws, who)
    /\ \E server \in IF ws.proc[who] = "restart" THEN {ws.server, Nothing} ELSE {ws.server} :
          ws' = [ws EXCEPT !.server = server, !.proc[who] = Nothing]
    /\ wsBroken' = (wsBroken \/ who = "service")
    /\ UNCHANGED <<wsOrphans, wsChanges>>

WsNext ==
    \/ WsSetConf \/ WsSedFinished \/ WsSedFails \/ WsOrphanEnds
    \/ \E r \in Runners : WsProcFinished(r) \/ WsProcFails(r)

WsSpec == WsInit /\ [][WsNext]_wsVars

----------------------------------------------------------------------------
(* When everything has ended the server listens at the configured port       *)
(* exactly when it is enabled, in whatever order sed and the scripts of both *)
(* objects end, and whether the script of the handler succeeds or not.  Not  *)
(* so when, since the last change that came while nothing ran,               *)
(*   - updateConfig or its sed failed (webservice.cc:76-81, 87-90), or the   *)
(*     script of the service could not be started or failed                  *)
(*     (start_stoppable.cc:57-60, 113-115): none of them is tried again,     *)
(*   - a command was dropped, because the one before it still ran            *)
(*     (start_stoppable.cc:31-32), or a sed replaced that still ran.         *)
(* The next change that comes while nothing runs mends each of them.         *)
ServerFollows ==
    ~Runs /\ ~wsBroken => ws.server = IF ws.enabled THEN Listens(ws.port) ELSE Nothing
=============================================================================

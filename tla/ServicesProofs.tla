--------------------------- MODULE ServicesProofs ---------------------------
(* What the parts of the daemon that MCServices checks one by one promise    *)
(* for every value of their bounds; each theorem is about the specification  *)
(* of one part.                                                              *)
EXTENDS WebServer, FunctionCalls, Watchdogs, Alarms, Configuration,
        SequenceTheorems, FiniteSetTheorems, TLAPS

(***************************************************************************)
(* WebServer.  Unless something went wrong sed writes the port that is     *)
(* configured and no sed is replaced, the script of the handler is that of *)
(* the state it has, and once sed has ended only the script of the service *)
(* stands between the server and the configuration: the one of the handler *)
(* then finds its work done.                                               *)
(***************************************************************************)
WsWanted == IF ws.enabled THEN Listens(ws.port) ELSE Nothing

WsOrderly ==
    /\ wsOrphans = {}
    /\ ws.proc["handler"] \in {Nothing, IF ws.enabled THEN "start" ELSE "stop"}
    /\ IF ws.sed # Nothing THEN ws.sed = ws.port
       ELSE /\ ws.file = ws.port
            /\ \/ ws.proc["service"] = IF ws.port = "none" \/ ~ws.enabled THEN "stop" ELSE "restart"
               \/ ws.proc["service"] = Nothing /\ ws.server = WsWanted

WsIInv == WsTypeOK /\ ws.current = ws.enabled /\ (~wsBroken => WsOrderly)

LEMMA WsInitHolds == WsInit => WsIInv
<1> SUFFICES ASSUME WsInit PROVE WsIInv
  OBVIOUS
<1> USE WebConstant DEF Ports, Runners, Commands, Nothing
<1>1. PICK enabled \in BOOLEAN, starts \in BOOLEAN, port \in Ports, how \in Updates :
         LET w == [enabled |-> enabled, port |-> port, current |-> enabled,
                   proc |-> [r \in Runners |-> Nothing], sed |-> Nothing, file |-> "p", server |-> Nothing]
         IN /\ ws = UpdateConfig(IF enabled THEN Command(w, "handler", "start", starts) ELSE w, how)
            /\ wsBroken = (how # "sed")
  BY Zenon DEF WsInit
<1> DEFINE sed == IF how = "sed" THEN port ELSE Nothing
<1>2. ws = [enabled |-> enabled, port |-> port, current |-> enabled,
            proc |-> [r \in Runners |-> IF r = "handler" /\ enabled /\ starts THEN "start" ELSE Nothing],
            sed |-> sed, file |-> "p", server |-> Nothing]
  BY <1>1 DEF Command, Free, UpdateConfig, Updates
<1>3. ws.current = ws.enabled
  BY <1>2, Zenon
<1>4. ws.proc \in [Runners -> Commands \cup {Nothing}]
  BY <1>2
<1>5. WsTypeOK
  <2>1. wsOrphans = {} /\ wsChanges = 0
    BY Zenon DEF WsInit
  <2>2. wsBroken \in BOOLEAN
    BY <1>1, Zenon
  <2>3. wsChanges \in 0..WebLimit
    BY <2>1
  <2> QED BY <1>2, <1>4, <2>1, <2>2, <2>3 DEF WsTypeOK
<1>6. ~wsBroken => WsOrderly
  <2>1. wsOrphans = {} /\ (~wsBroken => how = "sed")
    BY <1>1, Zenon DEF WsInit
  <2> QED BY <1>2, <2>1 DEF WsOrderly
<1> QED BY <1>3, <1>5, <1>6 DEF WsIInv

LEMMA WsSetConfHow ==
  WsSetConf =>
    \E enabled \in BOOLEAN, starts \in BOOLEAN, port \in Ports, how \in Updates :
         /\ ws' = UpdateConfig(OnConfigChanged([ws EXCEPT !.enabled = enabled, !.port = port], starts), how)
         /\ wsOrphans' = IF how = "throws" THEN wsOrphans ELSE wsOrphans \cup ({ws.sed} \ {Nothing})
         /\ wsBroken' = \/ Runs /\ wsBroken
                        \/ how # "sed" \/ ws.sed # Nothing
                        \/ enabled # ws.current /\ ~Free(ws, "handler")
BY Zenon DEF WsSetConf

LEMMA WsStepKeeps == WsIInv /\ [WsNext]_wsVars => WsIInv'
<1> SUFFICES ASSUME WsIInv, [WsNext]_wsVars PROVE WsIInv'
  OBVIOUS
<1> USE WebConstant DEF WsIInv, WsTypeOK, Ports, Runners, Commands, Nothing, Free
<1>1. CASE WsSetConf
  <2>1. PICK enabled \in BOOLEAN, starts \in BOOLEAN, port \in Ports, how \in Updates :
           /\ ws' = UpdateConfig(OnConfigChanged([ws EXCEPT !.enabled = enabled, !.port = port], starts), how)
           /\ wsOrphans' = IF how = "throws" THEN wsOrphans ELSE wsOrphans \cup ({ws.sed} \ {Nothing})
           /\ wsBroken' = \/ Runs /\ wsBroken
                          \/ how # "sed" \/ ws.sed # Nothing
                          \/ enabled # ws.current /\ ~Free(ws, "handler")
    BY <1>1, WsSetConfHow
  <2> DEFINE w == [ws EXCEPT !.enabled = enabled, !.port = port]
             command == IF enabled THEN "start" ELSE "stop"
             proc == IF ws.enabled # enabled /\ ws.proc["handler"] = Nothing /\ starts
                     THEN [ws.proc EXCEPT !["handler"] = command] ELSE ws.proc
             sed == IF how = "throws" THEN ws.sed ELSE IF how = "unstarted" THEN Nothing ELSE port
  <2>2. OnConfigChanged(w, starts) = [w EXCEPT !.proc = proc, !.current = enabled]
    <3>1. CASE ws.enabled = enabled
      BY <3>1 DEF OnConfigChanged
    <3>2. CASE ws.enabled # enabled
      BY <3>2 DEF OnConfigChanged, Command
    <3> QED BY <3>1, <3>2
  <2>3. ws' = [w EXCEPT !.proc = proc, !.current = enabled, !.sed = sed]
    BY <2>1, <2>2 DEF UpdateConfig, Updates
  <2>4. proc \in [Runners -> Commands \cup {Nothing}] /\ sed \in Ports \cup {Nothing}
    OBVIOUS
  <2>5. wsOrphans' \subseteq Ports
    BY <2>1
  <2>6. wsBroken' \in BOOLEAN
    BY <2>1, Zenon
  <2>7. wsChanges' \in 0..WebLimit
    BY <1>1 DEF WsSetConf
  <2>8. WsTypeOK' /\ (ws.current = ws.enabled)'
    <3> HIDE DEF proc, sed
    <3> QED BY <2>3, <2>4, <2>5, <2>6, <2>7
  <2>9. ASSUME ~wsBroken' PROVE WsOrderly'
    <3>1. /\ how = "sed" /\ ws.sed = Nothing /\ (enabled # ws.current => ws.proc["handler"] = Nothing)
          /\ ~Runs \/ ~wsBroken
      BY <2>1, <2>9, Zenon DEF Free
    <3>2. wsOrphans = {} /\ ws.proc["handler"] \in {Nothing, IF ws.enabled THEN "start" ELSE "stop"}
      BY <3>1 DEF Runs, WsOrderly
    <3>3. wsOrphans' = {}
      BY <2>1, <3>1, <3>2
    <3>4. proc["handler"] \in {Nothing, command}
      BY <3>1, <3>2
    <3>5. sed = port
      BY <3>1
    <3> HIDE DEF proc, sed
    <3> QED BY <2>3, <3>3, <3>4, <3>5 DEF WsOrderly
  <2> QED BY <2>8, <2>9 DEF WsIInv
<1>2. CASE WsSedFinished
  <2>1. PICK starts \in BOOLEAN :
           /\ ws' = Configured([ws EXCEPT !.file = ws.sed, !.sed = Nothing], starts)
           /\ wsBroken' = (wsBroken \/ ~starts \/ ~Free(ws, "service"))
    BY <1>2, Zenon DEF WsSedFinished
  <2>2. ws.sed # Nothing /\ wsOrphans' = wsOrphans /\ wsChanges' = wsChanges
    BY <1>2 DEF WsSedFinished
  <2>3. wsBroken' \in BOOLEAN
    BY <2>1, Zenon
  <2> DEFINE command == IF ws.port = "none" \/ ~ws.enabled THEN "stop" ELSE "restart"
             w == [ws EXCEPT !.file = ws.sed, !.sed = Nothing]
  <2>4. CASE ws.proc["service"] = Nothing /\ starts
    <3>1. ws' = [w EXCEPT !.proc["service"] = command]
      BY <2>1, <2>4 DEF Configured, Command
    <3>2. ~wsBroken' => ~wsBroken
      BY <2>1, Zenon
    <3> QED BY <2>2, <2>3, <3>1, <3>2 DEF WsOrderly
  <2>5. CASE ~(ws.proc["service"] = Nothing /\ starts)
    <3>1. ws' = w
      BY <2>1, <2>5 DEF Configured, Command
    <3>2. wsBroken'
      BY <2>1, <2>5
    <3> QED BY <2>2, <2>3, <3>1, <3>2
  <2> QED BY <2>4, <2>5
<1>3. CASE WsSedFails
  <2>1. PICK port \in {ws.file, ws.sed} : ws' = [ws EXCEPT !.file = port, !.sed = Nothing]
    BY <1>3 DEF WsSedFails
  <2>2. ws.sed # Nothing /\ wsBroken' = TRUE /\ wsOrphans' = wsOrphans /\ wsChanges' = wsChanges
    BY <1>3 DEF WsSedFails
  <2> QED BY <2>1, <2>2
<1>4. CASE WsOrphanEnds
  <2>1. PICK port \in wsOrphans, written \in BOOLEAN :
           /\ ws' = IF written THEN [ws EXCEPT !.file = port] ELSE ws
           /\ wsOrphans' = wsOrphans \ {port}
    BY <1>4 DEF WsOrphanEnds
  <2>2. wsBroken' = wsBroken /\ wsChanges' = wsChanges
    BY <1>4 DEF WsOrphanEnds
  <2> QED BY <2>1, <2>2 DEF WsOrderly
<1>5. ASSUME NEW r \in Runners, WsProcFinished(r) PROVE WsIInv'
  BY <1>5 DEF WsProcFinished, ServerAfter, Listens, WsOrderly, WsWanted
<1>6. ASSUME NEW r \in Runners, WsProcFails(r) PROVE WsIInv'
  <2>1. PICK server \in IF ws.proc[r] = "restart" THEN {ws.server, Nothing} ELSE {ws.server} :
           ws' = [ws EXCEPT !.server = server, !.proc[r] = Nothing]
    BY <1>6 DEF WsProcFails
  <2>2. /\ ws.proc[r] # Nothing /\ wsBroken' = (wsBroken \/ r = "service")
        /\ wsOrphans' = wsOrphans /\ wsChanges' = wsChanges
    BY <1>6 DEF WsProcFails
  <2>3. wsBroken' \in BOOLEAN
    BY <2>2, Zenon
  <2>4. WsTypeOK' /\ (ws.current = ws.enabled)'
    BY <2>1, <2>2, <2>3
  <2>5. ASSUME ~wsBroken' PROVE WsOrderly'
    <3>1. r = "handler" /\ ~wsBroken
      BY <2>2, <2>5, Zenon DEF Runners
    <3>2. server = ws.server
      BY <2>1, <3>1 DEF WsOrderly
    <3> QED BY <2>1, <2>2, <3>1, <3>2 DEF WsOrderly, WsWanted
  <2> QED BY <2>4, <2>5 DEF WsIInv
<1>7. CASE UNCHANGED wsVars
  BY <1>7 DEF wsVars, WsOrderly, WsWanted
<1> QED BY <1>1, <1>2, <1>3, <1>4, <1>5, <1>6, <1>7 DEF WsNext

LEMMA WsInvariant == WsSpec => []WsIInv
BY WsInitHolds, WsStepKeeps, PTL DEF WsSpec

(* When sed and the scripts of both objects have ended, the server listens   *)
(* at the configured port exactly when it is enabled, for any number of      *)
(* changes, whether they come while something runs or not: unless, since the *)
(* last one that came while nothing ran, a command was dropped, a sed        *)
(* replaced, or a step towards the script of the service has failed          *)
(* (webservice.cc, start_stoppable.cc).                                      *)
THEOREM ServerAlwaysFollows == WsSpec => []ServerFollows
<1>1. WsIInv => ServerFollows
  BY DEF WsIInv, WsOrderly, WsWanted, ServerFollows, Runs, Free, Runners, Nothing
<1> QED BY <1>1, WsInvariant, PTL

----------------------------------------------------------------------------
(***************************************************************************)
(* FunctionCalls, for calls with any lists of files and restrictions.  The *)
(* order of the checks is in the phases: what a phase knows of its call is *)
(* what the checks before it have found, and a call is handled from file   *)
(* to file, so that its place in the list counts what was done.            *)
(***************************************************************************)
CaAnyInit ==
    \E fid \in Fids, channel \in Channels, restrictions \in Seq(Seq(Ids)), signature \in {"good", "bad", "none"},
       host \in Hosts, files \in Seq(Hosts), dest \in {"none", "file", "bad"} :
       ca = NewCall(fid, channel, restrictions, signature, host, files, dest)

CaAnySpec == CaAnyInit /\ [][CaNext]_caVars

Accessible(c) == c.fid \in AccessCheckMap(c.channel)

Unrestricted(c) ==
    c.fid \in RestCheckMap(c.channel) /\ c.restrictions # <<>> =>
        \E i \in DOMAIN c.restrictions :
            \A k \in DOMAIN c.restrictions[i] : c.values[c.restrictions[i][k]] = "holds"

Restricted(c) == c.fid \in RestCheckMap(c.channel) /\ c.restrictions # <<>>

Untold(c) == \A x \in Ids : c.values[x] = "missing"

SomeFails(c) == \E x \in Ids : c.values[x] # "holds"

Verified(c) == c.fid \in SigCheckMap(c.channel) => c.signature = "good"

Checked(c) == Accessible(c) /\ Unrestricted(c) /\ Verified(c)

\* What the answer of a call tells of its checks.
Tells(c, status) ==
    /\ ~Accessible(c) => status = 400
    /\ Accessible(c) /\ ~Unrestricted(c) => status = 200 /\ c.done = <<>>
    /\ ~Verified(c) => status \in {200, 400}
    /\ status = 200 /\ c.done = <<>> => Restricted(c) /\ SomeFails(c)

\* The files that were handled are the first ones, each at its own host.
InOrder(c) ==
    c.fid \in FileFunctions =>
        \A i \in DOMAIN c.done :
            /\ c.done[i][2] = i
            /\ i <= Len(c.files) =>
                 c.done[i][1] = IF c.host = "DC" \/ (c.host = "none" /\ c.files[i] \in {"none", "DC"})
                                THEN "DC" ELSE "SIC"

Untouched(c) == c.done = <<>> /\ c.at = 1

\* A call that has not been answered and has no temporary files.
Going(c) ==
    /\ c \in Call /\ c.answers = 0 /\ c.temps = 0 /\ c.status = 0
    /\ Len(c.done) <= Len(c.files) + 1
    /\ c.done # <<>> => Checked(c)
    /\ InOrder(c)

\* At a file of the list, or without one.
AtFile(c) ==
    /\ c.fid \in FileFunctions => c.at = Len(c.done) + 1
    /\ c.fid \notin FileFunctions => c.done = <<>>
    /\ c.at \in 1..Len(c.files) \/ c.at = 1

CallOK(c) ==
    /\ c \in Call
    /\ Len(c.done) <= Len(c.files) + 1
    /\ c.done # <<>> => Checked(c)
    /\ InOrder(c)
    /\ c.phase = "answered" => c.answers = 1 /\ c.temps = 0 /\ Tells(c, c.status)
    /\ c.phase = "answered" /\ c.status = 200 /\ c.fid \in FileFunctions /\ c.done # <<>> =>
           Len(c.done) >= Len(c.files)
    /\ c.phase # "answered" => c.answers = 0 /\ c.status = 0
    /\ c.phase # "signature" => c.temps = 0
    /\ c.phase \in {"new", "restriction", "signature"} => Untouched(c)
    /\ c.phase \in {"new", "restriction"} => Untold(c)
    /\ c.phase = "restriction" => Restricted(c)
    /\ c.phase \in {"restriction", "signature", "main"} => Accessible(c)
    /\ c.phase \in {"signature", "main"} => Unrestricted(c)
    /\ c.phase = "main" => Verified(c) /\ AtFile(c)

LEMMA SameCall ==
    ASSUME NEW c, NEW d,
           d.fid = c.fid, d.channel = c.channel, d.restrictions = c.restrictions, d.signature = c.signature,
           d.host = c.host, d.files = c.files, d.values = c.values
    PROVE  /\ Accessible(c) => Accessible(d)
           /\ Unrestricted(c) => Unrestricted(d)
           /\ Verified(c) => Verified(d)
           /\ Checked(c) => Checked(d)
           /\ d.done = c.done /\ InOrder(c) => InOrder(d)
           /\ Restricted(c) => Restricted(d)
           /\ Untold(c) => Untold(d)
           /\ d.done = c.done => \A status : Tells(c, status) => Tells(d, status)
<1>1. Accessible(c) => Accessible(d)
  BY DEF Accessible
<1>2. Unrestricted(c) => Unrestricted(d)
  BY Zenon DEF Unrestricted
<1>3. Verified(c) => Verified(d)
  BY DEF Verified
<1>4. d.done = c.done /\ InOrder(c) => InOrder(d)
  BY Zenon DEF InOrder
<1>5. (Restricted(c) <=> Restricted(d)) /\ (Untold(c) => Untold(d)) /\ (SomeFails(c) <=> SomeFails(d))
  BY Zenon DEF Restricted, Untold, SomeFails
<1>6. (Accessible(c) <=> Accessible(d)) /\ (Unrestricted(c) <=> Unrestricted(d)) /\ (Verified(c) <=> Verified(d))
  BY Zenon DEF Accessible, Unrestricted, Verified
<1>7. ASSUME d.done = c.done, NEW status, Tells(c, status) PROVE Tells(d, status)
  BY <1>5, <1>6, <1>7, Zenon DEF Tells
<1> QED BY <1>1, <1>2, <1>3, <1>4, <1>5, <1>7 DEF Checked

LEMMA AnswerOK ==
    ASSUME NEW c, Going(c), NEW status \in Nat, Tells(c, status),
           status = 200 /\ c.fid \in FileFunctions /\ c.done # <<>> => Len(c.done) >= Len(c.files)
    PROVE  CallOK(Answer(c, status))
<1> DEFINE d == [c EXCEPT !.phase = "answered", !.status = status, !.answers = 1, !.temps = 0]
<1>1. c \in Call /\ c.answers = 0 /\ c.temps = 0
  BY DEF Going
<1>2. Answer(c, status) = d
  <2>1. c.answers + 1 = 1
    BY <1>1
  <2>2. [c EXCEPT !.temps = 0] = c
    BY <1>1 DEF Call
  <2> QED BY <1>1, <2>1, <2>2 DEF Answer, Call
<1>3. /\ d \in Call /\ d.phase = "answered" /\ d.status = status /\ d.answers = 1 /\ d.temps = 0
      /\ d.fid = c.fid /\ d.channel = c.channel /\ d.restrictions = c.restrictions
      /\ d.signature = c.signature /\ d.host = c.host /\ d.files = c.files /\ d.dest = c.dest
      /\ d.values = c.values /\ d.at = c.at /\ d.done = c.done
  BY <1>1 DEF Call
<1> HIDE DEF d
<1>4. (Checked(c) => Checked(d)) /\ (InOrder(c) => InOrder(d))
  BY <1>3, SameCall
<1>5. d.done # <<>> => Checked(d)
  BY <1>3, <1>4 DEF Going
<1>6. d \in Call /\ Len(d.done) <= Len(d.files) + 1 /\ InOrder(d)
  BY <1>3, <1>4 DEF Going
<1>7. d.fid \in FileFunctions /\ d.status = 200 /\ d.done # <<>> => Len(d.done) >= Len(d.files)
  BY <1>3
<1>8. Tells(d, status)
  BY <1>3, SameCall
<1>9. CallOK(d)
  BY <1>3, <1>5, <1>6, <1>7, <1>8 DEF CallOK
<1> QED BY <1>2, <1>9

\* Of a call that its checks have passed, or that goes on to the signature, a
\* failure tells nothing wrong.
LEMMA TellsFailure ==
    ASSUME NEW c, Accessible(c), Unrestricted(c), NEW status,
           status = 400 \/ Verified(c), status = 200 => c.done # <<>>
    PROVE  Tells(c, status)
BY DEF Tells

\* A phase in which the call goes on, or stops for good.
LEMMA PhaseOK ==
    ASSUME NEW c, Going(c), NEW phase \in {"restriction", "main", "silent", "dies"},
           phase = "restriction" => Accessible(c) /\ Untouched(c) /\ Untold(c) /\ Restricted(c),
           phase = "main" => Checked(c) /\ AtFile(c)
    PROVE  CallOK([c EXCEPT !.phase = phase])
<1> DEFINE d == [c EXCEPT !.phase = phase]
<1>1. /\ d \in Call /\ d.phase = phase /\ d.status = c.status /\ d.answers = c.answers /\ d.temps = c.temps
      /\ d.fid = c.fid /\ d.channel = c.channel /\ d.restrictions = c.restrictions
      /\ d.signature = c.signature /\ d.host = c.host /\ d.files = c.files /\ d.dest = c.dest
      /\ d.values = c.values /\ d.at = c.at /\ d.done = c.done
  BY DEF Going, Call
<1> HIDE DEF d
<1>2. /\ Checked(c) => Checked(d) /\ Accessible(d) /\ Unrestricted(d) /\ Verified(d)
      /\ Accessible(c) => Accessible(d)
      /\ InOrder(c) => InOrder(d)
      /\ (Untold(c) => Untold(d)) /\ (Restricted(c) => Restricted(d))
  BY <1>1, SameCall DEF Checked
<1>3. (AtFile(c) => AtFile(d)) /\ (Untouched(c) => Untouched(d))
  BY <1>1 DEF AtFile, Untouched
<1>4. CallOK(d)
  BY <1>1, <1>2, <1>3 DEF CallOK, Going
<1> QED BY <1>4 DEF d

LEMMA ThrowsOK ==
    ASSUME NEW c, Going(c), Checked(c)
    PROVE  CallOK(Throws(c))
<1>1. CallOK(Answer(c, 400))
  BY AnswerOK, TellsFailure DEF Checked
<1>2. CallOK([c EXCEPT !.phase = "dies"])
  BY PhaseOK
<1> QED BY <1>1, <1>2 DEF Throws

LEMMA CallFinishedOK ==
    ASSUME NEW c, Going(c), Checked(c), NEW status \in Nat,
           status = 200 => c.done # <<>> /\ (c.fid \in FileFunctions => Len(c.done) >= Len(c.files))
    PROVE  CallOK(CallFinished(c, status))
BY AnswerOK, ThrowsOK, TellsFailure DEF CallFinished, Checked

LEMMA HandleOneFileOK ==
    ASSUME NEW c, Going(c), Checked(c), AtFile(c)
    PROVE  CallOK(HandleOneFile(c))
<1>1. CallOK([c EXCEPT !.phase = "silent"]) /\ CallOK([c EXCEPT !.phase = "main"])
  BY PhaseOK
<1> QED BY <1>1 DEF HandleOneFile

LEMMA FileHandledOK ==
    ASSUME NEW c, Going(c), Checked(c), AtFile(c), c.fid \in FileFunctions
    PROVE  CallOK(FileHandled(c, IF AtDc(c) THEN "DC" ELSE "SIC"))
<1> DEFINE where == IF AtDc(c) THEN "DC" ELSE "SIC"
           done == Append(c.done, <<where, c.at>>)
           d == [c EXCEPT !.done = done, !.at = c.at + 1]
<1>1. /\ c \in Call /\ c.done \in Seq({"DC", "SIC"} \X Nat) /\ c.at \in Nat /\ c.files \in Seq(Hosts)
      /\ c.at = Len(c.done) + 1 /\ Len(c.done) \in Nat /\ Len(c.files) \in Nat
  BY DEF Going, Call, AtFile
<1>2. /\ done \in Seq({"DC", "SIC"} \X Nat) /\ Len(done) = c.at
      /\ done[c.at] = <<where, c.at>> /\ DOMAIN done = 1..c.at
      /\ \A i \in 1..Len(c.done) : done[i] = c.done[i]
  <2>1. <<where, c.at>> \in {"DC", "SIC"} \X Nat
    BY <1>1
  <2> HIDE DEF where
  <2> QED BY <1>1, <2>1, AppendProperties
<1>3. NextFile(c, where) = d
  BY DEF NextFile
<1>4. where = IF c.host = "DC" \/ (c.host = "none" /\ (c.files = <<>> \/ c.files[c.at] \in {"none", "DC"}))
              THEN "DC" ELSE "SIC"
  BY DEF AtDc, HostOf
<1> HIDE DEF where, done
<1>5. /\ d \in Call /\ d.phase = c.phase /\ d.status = c.status /\ d.answers = c.answers /\ d.temps = c.temps
      /\ d.fid = c.fid /\ d.channel = c.channel /\ d.restrictions = c.restrictions
      /\ d.signature = c.signature /\ d.host = c.host /\ d.files = c.files /\ d.dest = c.dest
      /\ d.values = c.values /\ d.at = c.at + 1 /\ d.done = done
  <2>1. c.at + 1 \in Nat /\ done \in Seq({"DC", "SIC"} \X Nat)
    BY <1>1, <1>2
  <2> DEFINE at == c.at + 1
  <2> HIDE DEF at
  <2>2. d = [c EXCEPT !.done = done, !.at = at] /\ at \in Nat
    BY <2>1 DEF at, d
  <2>3. /\ d \in Call /\ d.phase = c.phase /\ d.status = c.status /\ d.answers = c.answers /\ d.temps = c.temps
        /\ d.fid = c.fid /\ d.channel = c.channel /\ d.restrictions = c.restrictions
        /\ d.signature = c.signature /\ d.host = c.host /\ d.files = c.files /\ d.dest = c.dest
        /\ d.values = c.values /\ d.at = at /\ d.done = done
    BY <1>1, <2>1, <2>2 DEF Call
  <2> QED BY <2>3 DEF at
<1> HIDE DEF d
<1>6. Checked(d)
  BY <1>5, SameCall
<1>7. InOrder(d)
  <2> SUFFICES ASSUME NEW i \in 1..c.at
               PROVE  /\ done[i][2] = i
                      /\ i <= Len(c.files) =>
                           done[i][1] = IF c.host = "DC" \/ (c.host = "none" /\ c.files[i] \in {"none", "DC"})
                                        THEN "DC" ELSE "SIC"
    BY <1>2, <1>5 DEF InOrder
  <2>1. CASE i = c.at
    <3>1. c.at <= Len(c.files) => c.files # <<>>
      BY <1>1
    <3> QED BY <1>1, <1>2, <1>4, <2>1, <3>1
  <2>2. CASE i # c.at
    <3>1. i \in 1..Len(c.done) /\ i \in DOMAIN c.done
      BY <1>1, <2>2
    <3> QED BY <1>2, <3>1 DEF Going, InOrder
  <2> QED BY <2>1, <2>2
<1>8. Going(d)
  <2>1. c.at \in 1..Len(c.files) \/ c.at = 1
    BY DEF AtFile
  <2> QED BY <1>1, <1>2, <1>5, <1>6, <1>7, <2>1 DEF Going
<1>9. CASE d.at <= Len(d.files)
  <2>1. AtFile(d)
    BY <1>1, <1>2, <1>5, <1>9 DEF AtFile
  <2>2. CallOK(HandleOneFile(d))
    BY <1>6, <1>8, <2>1, HandleOneFileOK
  <2>3. FileHandled(c, where) = HandleOneFile(d)
    BY <1>3, <1>5, <1>9 DEF FileHandled
  <2> QED BY <2>2, <2>3 DEF where
<1>10. CASE ~(d.at <= Len(d.files))
  <2>1. Len(d.done) >= Len(d.files) /\ d.done # <<>>
    BY <1>1, <1>2, <1>5, <1>10
  <2>2. CallOK(CallFinished(d, 200))
    BY <1>6, <1>8, <2>1, CallFinishedOK
  <2>3. FileHandled(c, where) = CallFinished(d, 200)
    BY <1>3, <1>5, <1>10 DEF FileHandled
  <2> QED BY <2>2, <2>3 DEF where
<1> QED BY <1>9, <1>10

LEMMA StartCallOK ==
    ASSUME NEW c, Going(c), Checked(c), Untouched(c)
    PROVE  CallOK(StartCall(c))
<1>1. AtFile(c)
  BY DEF AtFile, Untouched
<1>2. CallOK(CallFinished(c, 400))
  BY CallFinishedOK
<1>3. CallOK([c EXCEPT !.phase = "dies"]) /\ CallOK([c EXCEPT !.phase = "main"])
  BY <1>1, PhaseOK
<1>4. CallOK(HandleOneFile(c))
  BY <1>1, HandleOneFileOK
<1> QED BY <1>2, <1>3, <1>4 DEF StartCall, StartFileFunction, StartFilesList

LEMMA StartSignatureCheckOK ==
    ASSUME NEW c, Going(c), Accessible(c), Unrestricted(c), Untouched(c)
    PROVE  CallOK(StartSignatureCheck(c))
<1>1. CASE c.fid \notin SigCheckMap(c.channel)
  <2>1. Checked(c)
    BY <1>1 DEF Checked, Verified
  <2> QED BY <1>1, <2>1, StartCallOK DEF StartSignatureCheck
<1>2. CASE c.fid \in SigCheckMap(c.channel) /\ c.signature = "none"
  BY <1>2, AnswerOK, TellsFailure DEF StartSignatureCheck
<1>3. CASE c.fid \in SigCheckMap(c.channel) /\ c.signature # "none"
  <2> DEFINE d == [c EXCEPT !.phase = "signature", !.temps = 2]
  <2>1. /\ d \in Call /\ d.phase = "signature" /\ d.status = c.status /\ d.answers = c.answers
        /\ d.fid = c.fid /\ d.channel = c.channel /\ d.restrictions = c.restrictions
        /\ d.signature = c.signature /\ d.host = c.host /\ d.files = c.files
        /\ d.values = c.values /\ d.at = c.at /\ d.done = c.done
    <3>1. c \in Call /\ 2 \in 0..2
      BY DEF Going
    <3> QED BY <3>1 DEF Call
  <2>2. StartSignatureCheck(c) = d
    BY <1>3 DEF StartSignatureCheck
  <2> HIDE DEF d
  <2>3. Accessible(d) /\ Unrestricted(d) /\ Untouched(d) /\ InOrder(d) /\ d.done = <<>>
    BY <2>1, SameCall DEF Going, Untouched
  <2>4. CallOK(d)
    BY <2>1, <2>3 DEF CallOK, Going
  <2> QED BY <2>2, <2>4
<1> QED BY <1>1, <1>2, <1>3

LEMMA StartRestrictionCheckOK ==
    ASSUME NEW c, Going(c), Accessible(c), Untouched(c), Untold(c)
    PROVE  CallOK(StartRestrictionCheck(c))
<1>1. CASE c.restrictions = <<>> \/ c.fid \notin RestCheckMap(c.channel)
  <2>1. Unrestricted(c)
    BY <1>1 DEF Unrestricted
  <2> QED BY <1>1, <2>1, StartSignatureCheckOK DEF StartRestrictionCheck
<1>2. CASE ~(c.restrictions = <<>> \/ c.fid \notin RestCheckMap(c.channel))
  <2>1. Restricted(c)
    BY <1>2 DEF Restricted
  <2>2. CallOK([c EXCEPT !.phase = "restriction"])
    BY <2>1, PhaseOK
  <2> QED BY <1>2, <2>2 DEF StartRestrictionCheck
<1> QED BY <1>1, <1>2

\* Within execute or later: sync is none of what the invariant tells.
LEMMA SyncOK ==
    ASSUME NEW c, CallOK(c), NEW sync \in BOOLEAN
    PROVE  CallOK([c EXCEPT !.sync = sync])
<1> DEFINE d == [c EXCEPT !.sync = sync]
<1>1. /\ d \in Call /\ d.phase = c.phase /\ d.status = c.status /\ d.answers = c.answers /\ d.temps = c.temps
      /\ d.fid = c.fid /\ d.channel = c.channel /\ d.restrictions = c.restrictions
      /\ d.signature = c.signature /\ d.host = c.host /\ d.files = c.files
      /\ d.values = c.values /\ d.at = c.at /\ d.done = c.done
  <2>1. c \in Call
    BY DEF CallOK
  <2> QED BY <2>1, Zenon DEF Call
<1> HIDE DEF d
<1>2. /\ Accessible(c) => Accessible(d)
      /\ Unrestricted(c) => Unrestricted(d)
      /\ Verified(c) => Verified(d)
      /\ Checked(c) => Checked(d)
      /\ InOrder(c) => InOrder(d)
      /\ (Untold(c) => Untold(d)) /\ (Restricted(c) => Restricted(d))
      /\ Tells(c, c.status) => Tells(d, d.status)
  BY <1>1, SameCall
<1>3. (AtFile(c) => AtFile(d)) /\ (Untouched(c) => Untouched(d))
  BY <1>1 DEF AtFile, Untouched
<1>4. CallOK(d)
  BY <1>1, <1>2, <1>3 DEF CallOK
<1> QED BY <1>4 DEF d

LEMMA IsGoing ==
    ASSUME NEW c, CallOK(c), c.phase \notin {"answered", "signature"}
    PROVE  Going(c)
BY DEF CallOK, Going

LEMMA RestrictionReplyOK ==
    ASSUME NEW c, CallOK(c), c.phase = "restriction", NEW values \in [Ids -> {"holds", "fails", "missing"}],
           EvaluateRestrictions([c EXCEPT !.values = values])
    PROVE  CallOK(StartSignatureCheck([c EXCEPT !.values = values]))
<1> DEFINE d == [c EXCEPT !.values = values]
<1>1. /\ d \in Call /\ d.phase = c.phase /\ d.status = c.status /\ d.answers = c.answers /\ d.temps = c.temps
      /\ d.fid = c.fid /\ d.channel = c.channel /\ d.restrictions = c.restrictions
      /\ d.signature = c.signature /\ d.host = c.host /\ d.files = c.files
      /\ d.at = c.at /\ d.done = c.done
  <2>1. c \in Call
    BY DEF CallOK
  <2> QED BY <2>1 DEF Call
<1>2. EvaluateRestrictions(d)
  OBVIOUS
<1> HIDE DEF d
<1>3. Unrestricted(d)
  <2>1. PICK r \in {d.restrictions[i] : i \in DOMAIN d.restrictions} : Holds(d, r)
    BY <1>2 DEF EvaluateRestrictions
  <2>2. PICK i \in DOMAIN d.restrictions : r = d.restrictions[i]
    BY <2>1
  <2> QED BY <2>1, <2>2 DEF Unrestricted, Holds
<1>4. Accessible(d) /\ Untouched(d) /\ d.done = <<>> /\ d.temps = 0 /\ d.answers = 0 /\ d.status = 0
  BY <1>1 DEF CallOK, Accessible, Untouched
<1>5. Going(d)
  BY <1>1, <1>4 DEF Going, InOrder, CallOK
<1>6. CallOK(StartSignatureCheck(d))
  BY <1>3, <1>4, <1>5, StartSignatureCheckOK
<1> QED BY <1>6 DEF d

\* Restrictions all of whose parameters hold are fulfilled.
LEMMA FailsSomewhere ==
    ASSUME NEW c \in Call, c.restrictions # <<>>, ~EvaluateRestrictions(c)
    PROVE  SomeFails(c)
<1> SUFFICES ASSUME \A x \in Ids : c.values[x] = "holds" PROVE FALSE
  BY DEF SomeFails
<1>1. c.restrictions \in Seq(Seq(Ids))
  BY DEF Call
<1>2. ASSUME NEW i \in DOMAIN c.restrictions
      PROVE  Holds(c, c.restrictions[i]) /\ ~ThrowsIn(c, c.restrictions[i])
  <2>1. c.restrictions[i] \in Seq(Ids)
    BY <1>1
  <2>2. \A k \in DOMAIN c.restrictions[i] : c.restrictions[i][k] \in Ids
    BY <2>1
  <2> QED BY <2>2 DEF Holds, ThrowsIn
<1>3. 1 \in DOMAIN c.restrictions
  BY <1>1
<1> QED BY <1>2, <1>3 DEF EvaluateRestrictions

LEMMA GpgFinishesOK ==
    ASSUME NEW c, CallOK(c), c.phase = "signature"
    PROVE  /\ CallOK(Answer(Cleanup(c), 400))
           /\ c.signature = "good" => CallOK(StartCall(Cleanup(c)))
<1> DEFINE d == Cleanup(c)
<1>1. /\ d \in Call /\ d.phase = c.phase /\ d.status = c.status /\ d.answers = c.answers /\ d.temps = 0
      /\ d.fid = c.fid /\ d.channel = c.channel /\ d.restrictions = c.restrictions
      /\ d.signature = c.signature /\ d.host = c.host /\ d.files = c.files
      /\ d.values = c.values /\ d.at = c.at /\ d.done = c.done
  <2>1. c \in Call /\ 0 \in 0..2
    BY DEF CallOK
  <2> QED BY <2>1 DEF Call, Cleanup
<1> HIDE DEF d
<1>2. Accessible(d) /\ Unrestricted(d) /\ Untouched(d) /\ d.done = <<>> /\ d.answers = 0 /\ d.status = 0
  BY <1>1, SameCall DEF CallOK, Untouched
<1>3. Going(d)
  <2>1. Len(d.done) <= Len(d.files) + 1
    BY <1>1 DEF CallOK
  <2>2. InOrder(d)
    BY <1>2 DEF InOrder
  <2> QED BY <1>1, <1>2, <2>1, <2>2 DEF Going
<1>4. CallOK(Answer(d, 400))
  BY <1>2, <1>3, AnswerOK, TellsFailure
<1>5. ASSUME c.signature = "good" PROVE CallOK(StartCall(d))
  <2>1. Checked(d)
    BY <1>1, <1>2, <1>5 DEF Checked, Verified
  <2> QED BY <1>2, <1>3, <2>1, StartCallOK
<1> QED BY <1>4, <1>5 DEF d

LEMMA FileDoneOK ==
    ASSUME NEW c, CallOK(c), c.phase = "main", c.fid \in FileFunctions
    PROVE  /\ CallOK(FileHandled(c, IF AtDc(c) THEN "DC" ELSE "SIC"))
           /\ CallOK(CallFinished(c, FailedStatus(c)))
<1>1. Going(c) /\ Checked(c) /\ AtFile(c)
  BY IsGoing DEF CallOK, Checked
<1>2. FailedStatus(c) \in Nat /\ FailedStatus(c) # 200
  BY DEF FailedStatus
<1> QED BY <1>1, <1>2, FileHandledOK, CallFinishedOK

LEMMA OtherDoneOK ==
    ASSUME NEW c, CallOK(c), c.phase = "main", c.fid \notin FileFunctions,
           NEW done \in Seq({"DC", "SIC"} \X Nat), Len(done) = 1, NEW failed \in {400, 404, 408}
    PROVE  /\ CallOK(CallFinished([c EXCEPT !.done = done], 200))
           /\ CallOK(CallFinished(c, failed))
<1> DEFINE d == [c EXCEPT !.done = done]
<1>1. Going(c) /\ Checked(c) /\ c \in Call
  BY IsGoing DEF CallOK, Checked
<1>2. CallOK(CallFinished(c, failed))
  BY <1>1, CallFinishedOK
<1>4. /\ d \in Call /\ d.phase = c.phase /\ d.status = c.status /\ d.answers = c.answers /\ d.temps = c.temps
      /\ d.fid = c.fid /\ d.channel = c.channel /\ d.restrictions = c.restrictions
      /\ d.signature = c.signature /\ d.host = c.host /\ d.files = c.files
      /\ d.values = c.values /\ d.at = c.at /\ d.done = done
  BY <1>1 DEF Call
<1>5. Len(d.files) \in Nat
  BY <1>4 DEF Call
<1> HIDE DEF d
<1>6. Checked(d)
  BY <1>1, <1>4, SameCall
<1>7. Going(d)
  <2>1. InOrder(d)
    BY <1>4 DEF InOrder
  <2>2. Len(d.done) = 1
    BY <1>4, Zenon
  <2>3. Len(d.done) <= Len(d.files) + 1
    BY <1>5, <2>2
  <2> QED BY <1>1, <1>4, <1>6, <2>1, <2>3 DEF Going
<1>8. CallOK(CallFinished(d, 200))
  <2>1. d.done # <<>> /\ d.fid \notin FileFunctions
    <3>1. done # <<>>
      OBVIOUS
    <3>2. d.done = done /\ d.fid = c.fid
      BY <1>4, Zenon
    <3> QED BY <3>1, <3>2
  <2> QED BY <1>6, <1>7, <2>1, CallFinishedOK
<1> QED BY <1>2, <1>8 DEF d

LEMMA CaStepKeeps == CallOK(ca) /\ [CaNext]_caVars => CallOK(ca)'
<1> SUFFICES ASSUME CallOK(ca), [CaNext]_caVars
             PROVE  CallOK(ca')
  OBVIOUS
<1>1. CASE CaExecute
  <2>1. ca.phase = "new" /\ Going(ca) /\ Untouched(ca) /\ Untold(ca)
    BY <1>1, IsGoing DEF CaExecute, CallOK
  <2>2. CASE ca.fid \notin AccessCheckMap(ca.channel)
    <3>1. Tells(ca, 400)
      BY <2>2 DEF Tells, Accessible
    <3> QED BY <1>1, <2>1, <2>2, <3>1, AnswerOK DEF CaExecute
  <2>3. CASE ca.fid \in AccessCheckMap(ca.channel)
    <3> DEFINE started == StartRestrictionCheck(ca)
               sync == started.phase = "main" /\ Immediate(started)
    <3>1. CallOK(started)
      BY <2>1, <2>3, StartRestrictionCheckOK DEF Accessible
    <3>2. sync \in BOOLEAN
      OBVIOUS
    <3>3. ca' = [started EXCEPT !.sync = sync]
      BY <1>1, <2>3 DEF CaExecute
    <3> HIDE DEF started, sync
    <3> QED BY <3>1, <3>2, <3>3, SyncOK
  <2> QED BY <2>2, <2>3
<1>2. CASE CaRestrictionReply
  <2>1. PICK ok \in BOOLEAN, values \in [Ids -> {"holds", "fails", "missing"}] :
            LET told == IF ok THEN [ca EXCEPT !.values = values] ELSE ca
            IN ca' = IF ok /\ EvaluateRestrictions(told) THEN StartSignatureCheck(told) ELSE Answer(told, 200)
    BY <1>2 DEF CaRestrictionReply
  <2>2. ca.phase = "restriction" /\ Going(ca) /\ Untouched(ca) /\ Untold(ca) /\ Restricted(ca) /\ Accessible(ca)
    BY <1>2, IsGoing DEF CaRestrictionReply, CallOK
  <2> DEFINE told == [ca EXCEPT !.values = values]
  <2>3. CASE ok /\ EvaluateRestrictions(told)
    BY <2>1, <2>2, <2>3, RestrictionReplyOK
  <2>4. CASE ~ok
    <3>1. "x" \in Ids
      BY DEF Ids
    <3>2. SomeFails(ca)
      BY <2>2, <3>1 DEF SomeFails, Untold
    <3>3. Tells(ca, 200)
      BY <2>2, <3>2 DEF Tells, Untouched
    <3> QED BY <2>1, <2>2, <2>4, <3>3, AnswerOK DEF Untouched
  <2>5. CASE ok /\ ~EvaluateRestrictions(told)
    <3>1. /\ told \in Call /\ told.answers = 0 /\ told.temps = 0 /\ told.status = 0 /\ told.done = <<>>
          /\ told.files = ca.files /\ told.fid = ca.fid /\ told.restrictions = ca.restrictions
      BY <2>2 DEF Going, Untouched, Call
    <3>2. ca' = Answer(told, 200)
      BY <2>1, <2>5
    <3>3. SomeFails(told)
      <4>1. ~EvaluateRestrictions(told)
        BY <2>5
      <4>2. told \in Call /\ told.restrictions # <<>>
        BY <2>2, <3>1 DEF Restricted
      <4> HIDE DEF told
      <4> QED BY <4>1, <4>2, FailsSomewhere
    <3>4. Accessible(told) /\ Restricted(told)
      BY <2>2 DEF Going, Call, Accessible, Restricted
    <3> HIDE DEF told
    <3>5. Going(told)
      BY <2>2, <3>1 DEF Going, InOrder, Untouched
    <3>6. Tells(told, 200)
      BY <3>1, <3>3, <3>4 DEF Tells
    <3> QED BY <3>1, <3>2, <3>5, <3>6, AnswerOK
  <2> QED BY <2>3, <2>4, <2>5
<1>3. CASE CaGpgFinishes
  BY <1>3, GpgFinishesOK DEF CaGpgFinishes
<1>4. CASE CaFileDone
  <2> DEFINE here == IF ca.fid = "delFile" /\ ~AtDc(ca) THEN ca ELSE [ca EXCEPT !.sync = FALSE]
  <2>1. CallOK(here)
    BY SyncOK
  <2>2. here.phase = "main" /\ here.fid \in FileFunctions /\ (AtDc(here) <=> AtDc(ca))
        /\ FailedStatus(here) = FailedStatus(ca)
    <3>1. ca \in Call
      BY DEF CallOK
    <3>2. here.phase = ca.phase /\ here.fid = ca.fid /\ here.host = ca.host /\ here.files = ca.files /\ here.at = ca.at
      BY <3>1 DEF Call
    <3> HIDE DEF here
    <3> QED BY <1>4, <3>2 DEF CaFileDone, AtDc, HostOf, FailedStatus
  <2>3. ca' \in {FileHandled(here, IF AtDc(ca) THEN "DC" ELSE "SIC"), CallFinished(here, FailedStatus(ca))}
    BY <1>4 DEF CaFileDone
  <2> HIDE DEF here
  <2>4. CallOK(FileHandled(here, IF AtDc(here) THEN "DC" ELSE "SIC")) /\ CallOK(CallFinished(here, FailedStatus(here)))
    BY <2>1, <2>2, FileDoneOK
  <2> QED BY <2>2, <2>3, <2>4
<1>5. CASE CaOtherDone
  <2>1. PICK failed \in {400, 404, 408} :
            ca' \in {CallFinished([ca EXCEPT !.done = <<<<Place(ca), 1>>>>], 200), CallFinished(ca, failed)}
    BY <1>5 DEF CaOtherDone
  <2>2. ca.phase = "main" /\ ca.fid \notin FileFunctions /\ Place(ca) \in {"DC", "SIC"}
    BY <1>5 DEF CaOtherDone, Place
  <2>3. CallOK(CallFinished([ca EXCEPT !.done = <<<<Place(ca), 1>>>>], 200)) /\ CallOK(CallFinished(ca, failed))
    <3> DEFINE done == <<<<Place(ca), 1>>>>
    <3>1. done \in Seq({"DC", "SIC"} \X Nat) /\ Len(done) = 1
      BY <2>2
    <3> HIDE DEF done
    <3>2. CallOK(CallFinished([ca EXCEPT !.done = done], 200)) /\ CallOK(CallFinished(ca, failed))
      BY <2>2, <3>1, OtherDoneOK
    <3> QED BY <3>2 DEF done
  <2> QED BY <2>1, <2>3
<1>6. CASE UNCHANGED caVars
  BY <1>6 DEF caVars
<1> QED BY <1>1, <1>2, <1>3, <1>4, <1>5, <1>6 DEF CaNext

LEMMA CaInitIsAny == CaInit => CaAnyInit
<1> SUFFICES ASSUME CaInit PROVE CaAnyInit
  OBVIOUS
<1>1. FileFunctions \cup {"getFilesList", "getParameter"} \subseteq Fids /\ PassedToDc \subseteq Fids
      /\ {"setFile", "getFile", "delTemplate", "getConf", "procedure"} \subseteq Fids
  BY DEF FileFunctions, Fids, PassedToDc, ReadAtDc, ChangedAtDc
<1>2. "Debug" \in Channels /\ "none" \in Hosts
  BY DEF Channels, Hosts
<1>3. Lists \subseteq Seq(Hosts) /\ <<>> \in Seq(Hosts) /\ <<"DC", "SIC">> \in Seq(Hosts)
  <2>1. ASSUME NEW pair, pair \in Hosts \X Hosts PROVE pair \in Seq(Hosts)
    <3>1. pair = <<pair[1], pair[2]>> /\ pair[1] \in Hosts /\ pair[2] \in Hosts
      BY <2>1
    <3>2. ASSUME NEW h \in Hosts, NEW k \in Hosts PROVE <<h, k>> \in Seq(Hosts)
      OBVIOUS
    <3> QED BY <3>1, <3>2
  <2>2. <<>> \in Seq(Hosts) /\ \A h \in Hosts : <<h>> \in Seq(Hosts)
    OBVIOUS
  <2>3. <<"DC", "SIC">> \in Hosts \X Hosts
    BY DEF Hosts
  <2> QED BY <2>1, <2>2, <2>3 DEF Lists
<1>4. Restrictions \subseteq Seq(Seq(Ids)) /\ {<<>>, <<<<"x">>>>} \subseteq Seq(Seq(Ids)) /\ <<>> \in Seq(Seq(Ids))
  <2>1. "x" \in Ids /\ "y" \in Ids
    BY DEF Ids
  <2>2. <<"x">> \in Seq(Ids) /\ <<"y">> \in Seq(Ids) /\ <<"x", "y">> \in Seq(Ids) /\ <<>> \in Seq(Ids)
    BY <2>1
  <2> DEFINE S == Seq(Ids)
  <2> HIDE DEF S
  <2>3. <<>> \in Seq(S) /\ \A r, t \in S : <<r>> \in Seq(S) /\ <<r, t>> \in Seq(S)
    OBVIOUS
  <2> QED BY <2>2, <2>3 DEF Restrictions, S
<1>5. CASE \E fid \in FileFunctions \cup {"getFilesList", "getParameter"}, host \in Hosts, files \in Lists,
               dest \in {"none", "file", "bad"} :
               ca = NewCall(fid, "Debug", <<>>, "none", host, files, dest)
  BY <1>1, <1>2, <1>3, <1>4, <1>5 DEF CaAnyInit
<1>6. CASE \E fid \in PassedToDc, channel \in Channels, restrictions \in {<<>>, <<<<"x">>>>},
               signature \in {"good", "bad", "none"} :
               ca = NewCall(fid, channel, restrictions, signature, "none", <<>>, "none")
  <2>1. PICK fid \in PassedToDc, channel \in Channels, restrictions \in {<<>>, <<<<"x">>>>},
             signature \in {"good", "bad", "none"} :
             ca = NewCall(fid, channel, restrictions, signature, "none", <<>>, "none")
    BY <1>6
  <2>2. fid \in Fids /\ restrictions \in Seq(Seq(Ids)) /\ "none" \in {"none", "file", "bad"}
    BY <1>1, <1>4
  <2> QED BY <1>2, <1>3, <2>1, <2>2 DEF CaAnyInit
<1>7. CASE \E fid \in {"setFile", "getFile", "delTemplate", "getConf", "procedure"}, channel \in Channels,
               restrictions \in Restrictions, signature \in {"good", "bad", "none"} :
               ca = NewCall(fid, channel, restrictions, signature, "none", <<"DC", "SIC">>, "none")
  <2>1. PICK fid \in {"setFile", "getFile", "delTemplate", "getConf", "procedure"}, channel \in Channels,
             restrictions \in Restrictions, signature \in {"good", "bad", "none"} :
             ca = NewCall(fid, channel, restrictions, signature, "none", <<"DC", "SIC">>, "none")
    BY <1>7
  <2>2. fid \in Fids /\ restrictions \in Seq(Seq(Ids)) /\ "none" \in {"none", "file", "bad"}
    BY <1>1, <1>4
  <2> QED BY <1>2, <1>3, <2>1, <2>2 DEF CaAnyInit
<1> QED BY <1>5, <1>6, <1>7 DEF CaInit

LEMMA CaInitHolds == CaAnyInit => CallOK(ca)
<1> SUFFICES ASSUME NEW fid \in Fids, NEW channel \in Channels, NEW restrictions \in Seq(Seq(Ids)),
                    NEW signature \in {"good", "bad", "none"}, NEW host \in Hosts, NEW files \in Seq(Hosts),
                    NEW dest \in {"none", "file", "bad"}
             PROVE  CallOK(NewCall(fid, channel, restrictions, signature, host, files, dest))
  BY DEF CaAnyInit
<1> DEFINE c == NewCall(fid, channel, restrictions, signature, host, files, dest)
<1>1. c \in Call
  <2>1. [i \in Ids |-> "missing"] \in [Ids -> {"holds", "fails", "missing"}]
    OBVIOUS
  <2>2. <<>> \in Seq({"DC", "SIC"} \X Nat) /\ 0 \in 0..2 /\ 0 \in Nat /\ 1 \in Nat /\ TRUE \in BOOLEAN
    OBVIOUS
  <2> QED BY <2>1, <2>2 DEF NewCall, Call
<1>2. /\ c.phase = "new" /\ c.done = <<>> /\ c.at = 1 /\ c.status = 0 /\ c.answers = 0 /\ c.temps = 0
      /\ c.files = files /\ c.values = [i \in Ids |-> "missing"]
  BY DEF NewCall
<1> HIDE DEF c
<1>3. CallOK(c)
  BY <1>1, <1>2 DEF CallOK, InOrder, Untouched, Untold
<1> QED BY <1>3 DEF c

LEMMA CaInvariant == CaAnySpec => []CallOK(ca)
<1>1. CallOK(ca) /\ UNCHANGED caVars => CallOK(ca)'
  BY DEF caVars
<1> QED BY <1>1, CaInitHolds, CaStepKeeps, PTL DEF CaAnySpec

LEMMA CallOKMeans == CallOK(ca) => CallsAreChecked /\ CaTypeOK
<1> SUFFICES ASSUME CallOK(ca) PROVE CallsAreChecked /\ CaTypeOK
  OBVIOUS
<1>1. ca \in Call /\ ca.phase \in {"new", "restriction", "signature", "main", "answered", "silent", "dies"}
      /\ Len(ca.files) \in Nat
  BY DEF CallOK, Call
<1>2. AnswerTellsEffects
  <2>1. ca.answers = IF ca.phase = "answered" THEN 1 ELSE 0
    BY DEF CallOK
  <2>2. ca.status = 200 /\ ca.fid \in FileFunctions /\ ca.done # <<>> => Len(ca.done) >= Len(ca.files)
    BY DEF CallOK
  <2> QED BY <2>1, <2>2 DEF AnswerTellsEffects, CallOK, InOrder
<1>3. NothingUnchecked
  BY DEF CallOK, NothingUnchecked, Checked, Accessible, Unrestricted, Verified, Permitted, IsRestricted
<1>4. NoTempLeft
  BY DEF CallOK, NoTempLeft
<1>5. CaTypeOK
  BY <1>1 DEF CallOK, CaTypeOK, AtFile
<1>6. RefusalIsTold
  <2>1. Permitted(ca) <=> Unrestricted(ca)
    BY Zenon DEF Permitted, IsRestricted, Unrestricted
  <2>2. IsRestricted(ca) <=> Restricted(ca)
    BY DEF IsRestricted, Restricted
  <2>3. ca.phase = "answered" => Tells(ca, ca.status)
    BY DEF CallOK
  <2> QED BY <2>1, <2>2, <2>3 DEF RefusalIsTold, Tells, Accessible, Verified, SomeFails
<1> QED BY <1>2, <1>3, <1>4, <1>5, <1>6 DEF CallsAreChecked

(* Whatever call is made, with any list of files, restrictions and           *)
(* signature: nothing is done before all its checks have passed, files are   *)
(* handled in order at their hosts, the answer is given once, is 200 only    *)
(* for all of them or when the restrictions failed, is 400 for another check *)
(* that failed, and no temporary file outlives its check.                    *)
THEOREM AnyCallIsChecked == CaAnySpec => [](CallsAreChecked /\ CaTypeOK)
BY CaInvariant, CallOKMeans, PTL

(* The same of the calls that the run starts with.                           *)
THEOREM CallsAlwaysChecked == CaSpec => []CallsAreChecked
<1>1. CaSpec => CaAnySpec
  BY CaInitIsAny DEF CaSpec, CaAnySpec
<1> QED BY <1>1, AnyCallIsChecked, PTL

----------------------------------------------------------------------------
(***************************************************************************)
(* The shared folder.  A small file that is there and not excused has not  *)
(* been given on, except for the script that runs; without the share every *)
(* file is excused.                                                        *)
(***************************************************************************)
LanFilesOK ==
    /\ \A f \in Small \ wlExcused :
          /\ wlan.given[f] <= 1
          /\ f \in wlan.files => wlan.given[f] = 0 \/ (f = "script" /\ wlan.running = TRUE)
    /\ wlan.running = TRUE => "script" \in wlan.list /\ wlan.list \cap SortedBeforeScript = {}
    /\ wlan.running = TRUE => wlan.given["script"] > 0 \/ "script" \in wlExcused

WlIInv ==
    /\ wlan \in WatchdogState /\ (wlan.running = TRUE <=> wlan.progress = TRUE)
    /\ wlShare \in BOOLEAN /\ wlScripts \in SUBSET {"script"} /\ wlExcused \subseteq InputFiles
    /\ wlPut \in 0..FileLimit /\ wlTrouble \in 0..TroubleLimit
    /\ LanFilesOK
    /\ wlShare = FALSE => wlan.files \subseteq wlExcused

(***************************************************************************)
(* The stick.  What udisks has still to tell of a stick alternates and     *)
(* ends with how it is; for the stick that is mounted it begins with its   *)
(* removal.                                                                *)
(***************************************************************************)
About(i) == wuSignals[i][2]

StateOf(how) == CASE how = "broken" -> "nodevice" [] how = "ro" -> "mountedro" [] OTHER -> "mountedrw"

Alternate(Q) == \A i, j \in DOMAIN Q :
    i < j /\ Q[i][2] = Q[j][2] /\ (\A k \in DOMAIN Q : i < k /\ k < j => Q[k][2] # Q[i][2]) => Q[i][1] # Q[j][1]

EndWith(Q, plugged) == \A i \in DOMAIN Q :
    (\A k \in DOMAIN Q : i < k => Q[k][2] # Q[i][2]) => (Q[i][1] = "DeviceAdded" <=> Q[i][2] \in plugged)

BeginWithRemoval(Q, current) == \A i \in DOMAIN Q :
    Q[i][2] = current /\ (\A k \in DOMAIN Q : k < i => Q[k][2] # Q[i][2]) => Q[i][1] = "DeviceRemoved"

SignalsOK ==
    Alternate(wuSignals) /\ EndWith(wuSignals, DOMAIN wuPlugged) /\ BeginWithRemoval(wuSignals, wusb.current)

\* The input of the stick was handled at most once, and what is left of a
\* list has none of it.
StickListOK(d) ==
    /\ d \in WatchdogState
    /\ d.running = TRUE <=> d.progress = TRUE
    /\ d.running = TRUE => d.list \cap SortedBeforeScript = {}
    /\ \A f \in InputFolder : d.given[f] <= 1

UsbOK(u) ==
    /\ u \in Usb
    /\ StickListOK(u.dog)
    /\ u.state = "mountedrw" <=> u.timer = TRUE
    /\ u.current = NoStick => u.state = "nodevice"
    /\ u.mounted = TRUE => u.current # NoStick

Plugged ==
    /\ DOMAIN wuPlugged \subseteq Sticks
    /\ \A s \in DOMAIN wuPlugged : wuPlugged[s] \in Mounts
    /\ wuSignals \in Seq({"DeviceAdded", "DeviceRemoved"} \X Sticks)
    /\ wuPlugs \in 0..PlugLimit

WuIInv ==
    /\ UsbOK(wusb) /\ Plugged /\ SignalsOK
    /\ wusb.current # NoStick /\ (\A i \in DOMAIN wuSignals : About(i) # wusb.current) =>
          wusb.current \in DOMAIN wuPlugged /\ wusb.state = StateOf(wuPlugged[wusb.current])

----------------------------------------------------------------------------
LEMMA GiveOK ==
    ASSUME NEW w \in WatchdogState, NEW fs
    PROVE  /\ Give(w, fs) \in WatchdogState
           /\ Give(w, fs).files = w.files /\ Give(w, fs).unreadable = w.unreadable
           /\ \A f \in InputFiles :
                 Give(w, fs).given[f] = IF f \in fs /\ f \in w.files /\ w.given[f] < 2 THEN w.given[f] + 1 ELSE w.given[f]
<1> DEFINE given == [f \in InputFiles |-> IF f \in fs \cap w.files /\ w.given[f] < 2 THEN w.given[f] + 1 ELSE w.given[f]]
<1>1. given \in [InputFiles -> 0..2]
  <2> SUFFICES ASSUME NEW f \in InputFiles
               PROVE  (IF f \in fs \cap w.files /\ w.given[f] < 2 THEN w.given[f] + 1 ELSE w.given[f]) \in 0..2
    OBVIOUS
  <2>1. w.given[f] \in 0..2
    BY DEF WatchdogState
  <2> QED BY <2>1
<1>2. Give(w, fs) = [w EXCEPT !.given = given]
  BY DEF Give
<1>3. \A f \in InputFiles :
          given[f] = IF f \in fs /\ f \in w.files /\ w.given[f] < 2 THEN w.given[f] + 1 ELSE w.given[f]
  OBVIOUS
<1> HIDE DEF given
<1>4. Give(w, fs) \in WatchdogState /\ Give(w, fs).files = w.files /\ Give(w, fs).given = given
      /\ Give(w, fs).unreadable = w.unreadable
  BY <1>1, <1>2 DEF WatchdogState
<1> QED BY <1>3, <1>4

LEMMA MoveOrCopyOK ==
    ASSUME NEW w \in WatchdogState, NEW fs, NEW stuck
    PROVE  /\ MoveOrCopy(w, fs, stuck) \in WatchdogState
           /\ MoveOrCopy(w, fs, stuck).given = w.given
           /\ MoveOrCopy(w, fs, stuck).list = w.list /\ MoveOrCopy(w, fs, stuck).unreadable = w.unreadable
           /\ MoveOrCopy(w, fs, stuck).files = w.files \ ((fs \cap Small) \ stuck)
<1> DEFINE files == w.files \ ((fs \cap Small) \ stuck)
<1>1. files \subseteq InputFiles
  BY DEF WatchdogState
<1>2. files = w.files \ ((fs \cap Small) \ stuck)
  OBVIOUS
<1> HIDE DEF files
<1>3. [w EXCEPT !.files = files] \in WatchdogState /\ [w EXCEPT !.files = files].given = w.given
      /\ [w EXCEPT !.files = files].files = files /\ [w EXCEPT !.files = files].list = w.list
      /\ [w EXCEPT !.files = files].unreadable = w.unreadable
  BY <1>1 DEF WatchdogState
<1> QED BY <1>2, <1>3 DEF MoveOrCopy

\* What one pass over a list does to the watchdog w, up to its script or to its end.
Seen(list) == IF "script" \in list THEN list \cap SortedBeforeScript ELSE list

DogWaits(list, scripts) == "script" \in list /\ "script" \in scripts

PassedFiles(w, list, stuck, scripts, p) ==
    /\ p.running = TRUE <=> DogWaits(list, scripts)
    /\ p.progress = TRUE <=> DogWaits(list, scripts)
    /\ DogWaits(list, scripts) => p.list = list \ SortedBeforeScript
    /\ p.files = w.files \ ((Seen(list) \cap Small) \ stuck)

PassedGiven(w, list, scripts, p) ==
    /\ \A f \in InputFiles \ {"script"} :
          p.given[f] = IF f \in Seen(list) /\ f \in Batches /\ f # "empty" /\ f \notin w.unreadable
                          /\ f \in w.files /\ w.given[f] < 2
                       THEN w.given[f] + 1 ELSE w.given[f]
    /\ p.given["script"] = IF DogWaits(list, scripts) /\ "script" \in w.files /\ w.given["script"] < 2
                           THEN w.given["script"] + 1 ELSE w.given["script"]

LEMMA ProcessOK ==
    ASSUME NEW w \in WatchdogState, NEW list \in SUBSET InputFiles, NEW stuck, NEW scripts,
           NEW p, p = Process(w, list, stuck, scripts)
    PROVE  p \in WatchdogState /\ PassedFiles(w, list, stuck, scripts, p) /\ PassedGiven(w, list, scripts, p)
<1> DEFINE seen == Seen(list)
<1>0. seen = IF "script" \in list THEN list \cap SortedBeforeScript ELSE list
  BY DEF Seen
<1> HIDE DEF seen
<1> DEFINE given == Give(w, (seen \cap (Batches \ {"empty"})) \ w.unreadable)
           done == ForwardToZix(w, seen, stuck)
           called == Give(done, {"script"})
<1>1. done = MoveOrCopy(given, seen, stuck)
  BY DEF ForwardToZix
<1>2. given \in WatchdogState /\ given.files = w.files
      /\ \A f \in InputFiles : given.given[f] = IF f \in (seen \cap (Batches \ {"empty"})) \ w.unreadable
                                                  /\ f \in w.files /\ w.given[f] < 2
                                               THEN w.given[f] + 1 ELSE w.given[f]
  <2> DEFINE fs == (seen \cap (Batches \ {"empty"})) \ w.unreadable
  <2> HIDE DEF fs
  <2>1. Give(w, fs) \in WatchdogState /\ Give(w, fs).files = w.files
        /\ \A f \in InputFiles : Give(w, fs).given[f] = IF f \in fs /\ f \in w.files /\ w.given[f] < 2
                                                       THEN w.given[f] + 1 ELSE w.given[f]
    BY GiveOK
  <2> QED BY <2>1 DEF fs
<1>3. p = IF "script" \notin list \cap scripts THEN [done EXCEPT !.progress = FALSE, !.list = {}, !.running = FALSE]
          ELSE [called EXCEPT !.progress = TRUE, !.running = TRUE, !.list = list \ SortedBeforeScript]
  BY <1>0 DEF Process
<1> HIDE DEF given, done
<1>4. done \in WatchdogState /\ done.given = given.given
      /\ done.files = w.files \ ((seen \cap Small) \ stuck)
  <2>1. given \in WatchdogState
    BY <1>2
  <2>2. /\ MoveOrCopy(given, seen, stuck) \in WatchdogState
        /\ MoveOrCopy(given, seen, stuck).given = given.given
        /\ MoveOrCopy(given, seen, stuck).files = given.files \ ((seen \cap Small) \ stuck)
    BY <2>1, MoveOrCopyOK
  <2> QED BY <1>1, <1>2, <2>2
<1>5. called \in WatchdogState /\ called.files = done.files
      /\ \A f \in InputFiles : called.given[f] = IF f \in {"script"} /\ f \in done.files /\ done.given[f] < 2
                                                THEN done.given[f] + 1 ELSE done.given[f]
  <2> DEFINE fs == {"script"}
  <2> HIDE DEF fs
  <2>1. Give(done, fs) \in WatchdogState /\ Give(done, fs).files = done.files
        /\ \A f \in InputFiles : Give(done, fs).given[f] = IF f \in fs /\ f \in done.files /\ done.given[f] < 2
                                                       THEN done.given[f] + 1 ELSE done.given[f]
    BY <1>4, GiveOK
  <2> QED BY <2>1 DEF fs
<1> HIDE DEF called
<1>6. "script" \in InputFiles /\ "script" \notin SortedBeforeScript
  BY DEF InputFiles, SortedBeforeScript
<1>7. CASE "script" \in list /\ "script" \in scripts
  <2> DEFINE rest == list \ SortedBeforeScript
  <2>1. rest \subseteq InputFiles /\ rest = list \ SortedBeforeScript
    OBVIOUS
  <2>2. p = [called EXCEPT !.progress = TRUE, !.running = TRUE, !.list = rest]
    BY <1>3, <1>7
  <2> HIDE DEF rest
  <2>3. p \in WatchdogState /\ p.running = TRUE /\ p.progress = TRUE /\ p.list = rest
        /\ p.files = called.files /\ p.given = called.given
    BY <1>5, <2>1, <2>2 DEF WatchdogState
  <2>4. "script" \in done.files <=> "script" \in w.files
    <3>1. "script" \notin seen
      BY <1>0, <1>6, <1>7
    <3> QED BY <1>4, <3>1
  <2>5. given.given["script"] = w.given["script"]
    <3>1. "script" \notin seen
      BY <1>0, <1>6, <1>7
    <3> QED BY <1>2, <1>6, <3>1
  <2>6. p.given["script"] = IF "script" \in w.files /\ w.given["script"] < 2
                           THEN w.given["script"] + 1 ELSE w.given["script"]
    BY <1>4, <1>5, <1>6, <2>3, <2>4, <2>5
  <2>7. \A f \in InputFiles \ {"script"} : p.given[f] = given.given[f]
    BY <1>4, <1>5, <2>3
  <2>8. DogWaits(list, scripts) /\ "script" \notin seen
    BY <1>0, <1>6, <1>7 DEF DogWaits
  <2>9. PassedFiles(w, list, stuck, scripts, p)
    BY <1>4, <1>5, <2>1, <2>3, <2>8 DEF PassedFiles, seen
  <2>10. PassedGiven(w, list, scripts, p)
    BY <1>2, <2>6, <2>7, <2>8 DEF PassedGiven, seen
  <2> QED BY <2>3, <2>9, <2>10
<1>8. CASE ~("script" \in list /\ "script" \in scripts)
  <2>1. p = [done EXCEPT !.progress = FALSE, !.list = {}, !.running = FALSE]
    BY <1>3, <1>8
  <2>2. p \in WatchdogState /\ p.running = FALSE /\ p.progress = FALSE
        /\ p.files = done.files /\ p.given = done.given
    BY <1>4, <2>1 DEF WatchdogState
  <2>3. given.given["script"] = w.given["script"]
    <3>1. "script" \notin Batches
      BY DEF Batches
    <3> QED BY <1>2, <1>6, <3>1
  <2>4. ~DogWaits(list, scripts)
    BY <1>8 DEF DogWaits
  <2>5. PassedFiles(w, list, stuck, scripts, p)
    BY <1>4, <2>2, <2>4 DEF PassedFiles, seen
  <2>6. PassedGiven(w, list, scripts, p)
    BY <1>2, <1>4, <2>2, <2>3, <2>4 DEF PassedGiven, seen
  <2> QED BY <2>2, <2>5, <2>6
<1> QED BY <1>7, <1>8
----------------------------------------------------------------------------
LEMMA WlInitHolds == WlInit => WlIInv
<1> SUFFICES ASSUME WlInit PROVE WlIInv
  OBVIOUS
<1>1. Idle(TRUE, {}) \in WatchdogState
  BY DEF Idle, WatchdogState
<1>2. wlan.running = FALSE /\ wlan.progress = FALSE /\ wlan.files = {} /\ wlan.given = [f \in InputFiles |-> 0]
  BY DEF WlInit, Idle
<1>3. LanFilesOK
  BY <1>2 DEF LanFilesOK, Small
<1>4. wlShare \in BOOLEAN /\ wlScripts \in SUBSET {"script"} /\ wlExcused \subseteq InputFiles
      /\ wlPut \in 0..FileLimit /\ wlTrouble \in 0..TroubleLimit /\ wlShare # FALSE
  BY WatchdogConstants DEF WlInit
<1> QED BY <1>1, <1>2, <1>3, <1>4 DEF WlInit, WlIInv

\* What the timer and the end of the script do to the folder.
LanPassed(w, p, excused) ==
    /\ p \in WatchdogState
    /\ p.running = TRUE <=> p.progress = TRUE
    /\ \A f \in Small \ excused :
          /\ p.given[f] <= 1
          /\ f \in p.files => p.given[f] = 0 \/ (f = "script" /\ p.running = TRUE)
    /\ p.running = TRUE => "script" \in p.list /\ p.list \cap SortedBeforeScript = {}
    /\ p.running = TRUE => p.given["script"] > 0 \/ "script" \in excused
    /\ p.files \subseteq w.files
    /\ \A f \in w.files \ p.files : f \in {"empty", "stray"} \cup wlan.unreadable \/ p.given[f] > 0

LEMMA LanPassOK ==
    ASSUME WlIInv, wlShare = TRUE, NEW list \in SUBSET InputFiles, NEW stuck, NEW scripts,
           NEW w \in WatchdogState, w.given = wlan.given, w.files \subseteq wlan.files, w.unreadable = wlan.unreadable,
           "script" \in w.files => wlan.running = FALSE \/ "script" \in wlExcused,
           "script" \in list => list \subseteq w.files,
           NEW p, p = Process(w, list, stuck, scripts),
           NEW excused, excused \subseteq InputFiles, wlExcused \subseteq excused, stuck = {} \/ wlan.files \subseteq excused
    PROVE  LanPassed(w, p, excused)
<1> DEFINE seen == Seen(list)
<1>1. seen = IF "script" \in list THEN list \cap SortedBeforeScript ELSE list
  BY DEF Seen
<1>2. /\ p \in WatchdogState
      /\ p.running = TRUE <=> "script" \in list /\ "script" \in scripts
      /\ p.progress = TRUE <=> "script" \in list /\ "script" \in scripts
      /\ "script" \in list /\ "script" \in scripts => p.list = list \ SortedBeforeScript
      /\ p.files = w.files \ ((seen \cap Small) \ stuck)
      /\ \A f \in InputFiles \ {"script"} :
            p.given[f] = IF f \in seen /\ f \in Batches /\ f # "empty" /\ f \notin w.unreadable
                            /\ f \in w.files /\ w.given[f] < 2
                         THEN w.given[f] + 1 ELSE w.given[f]
      /\ p.given["script"] = IF "script" \in list /\ "script" \in scripts /\ "script" \in w.files /\ w.given["script"] < 2
                             THEN w.given["script"] + 1 ELSE w.given["script"]
  <2>1. p \in WatchdogState /\ PassedFiles(w, list, stuck, scripts, p) /\ PassedGiven(w, list, scripts, p)
    BY ProcessOK
  <2>2. p \in WatchdogState /\ PassedFiles(w, list, stuck, scripts, p)
    BY <2>1
  <2>3. PassedGiven(w, list, scripts, p)
    BY <2>1
  <2> QED BY <2>2, <2>3 DEF PassedFiles, PassedGiven, DogWaits
<1> HIDE DEF seen
<1>3. "script" \in Small /\ "script" \in InputFiles /\ "script" \notin SortedBeforeScript /\ Small \subseteq InputFiles
      /\ "script" \notin Batches /\ \A f \in InputFiles : f \in Small \ {"empty", "stray", "script"} => f \in Batches
  BY DEF Small, InputFiles, SortedBeforeScript, Batches
<1>4. \A f \in InputFiles : w.given[f] \in 0..2 /\ p.given[f] \in 0..2
  BY <1>2 DEF WatchdogState
<1>5. \A f \in Small \ excused :
          /\ w.given[f] <= 1
          /\ f \in w.files => w.given[f] = 0 \/ (f = "script" /\ wlan.running = TRUE)
  BY DEF WlIInv, LanFilesOK
<1>6. ASSUME NEW f \in Small \ excused
      PROVE  p.given[f] <= 1 /\ (f \in p.files => p.given[f] = 0 \/ (f = "script" /\ p.running = TRUE))
  <2>1. CASE f # "script"
    <3>1. f \in w.files => w.given[f] = 0
      BY <1>5, <2>1
    <3>2. p.given[f] <= 1
      BY <1>2, <1>3, <1>4, <1>5, <2>1, <3>1
    <3>3. f \in p.files => f \in w.files /\ f \notin seen
      <4>1. CASE wlan.files \subseteq excused
        <5>1. f \notin wlan.files
          BY <4>1
        <5> QED BY <1>2, <4>1, <5>1
      <4>2. CASE stuck = {}
        BY <1>2, <4>2
      <4> QED BY <4>1, <4>2
    <3>4. f \in p.files => p.given[f] = 0
      BY <1>2, <1>3, <2>1, <3>1, <3>3
    <3> QED BY <3>2, <3>4
  <2>2. CASE f = "script"
    <3>1. "script" \in w.files => w.given["script"] = 0
      <4>1. "script" \notin wlExcused
        BY <2>2
      <4> QED BY <1>5, <2>2, <4>1
    <3>2. p.given["script"] <= 1
      BY <1>2, <1>3, <1>4, <1>5, <2>2, <3>1
    <3>3. "script" \in p.files => "script" \in w.files
      BY <1>2
    <3>5. "script" \in p.files => p.given["script"] = 0 \/ p.running = TRUE
      BY <1>2, <3>1, <3>3
    <3> QED BY <2>2, <3>2, <3>5
  <2> QED BY <2>1, <2>2
<1>7. p.running = TRUE => "script" \in p.list /\ p.list \cap SortedBeforeScript = {}
  BY <1>1, <1>2, <1>3
<1>8. p.running = TRUE => p.given["script"] > 0
  <2> SUFFICES ASSUME "script" \in list /\ "script" \in scripts PROVE p.given["script"] > 0
    BY <1>2
  <2>1. "script" \in w.files
    BY <1>1
  <2> QED BY <1>2, <1>3, <1>4, <2>1
<1>9. ASSUME NEW f \in w.files \ p.files PROVE f \in {"empty", "stray"} \cup wlan.unreadable \/ p.given[f] > 0
  <2>1. f \in seen /\ f \in Small
    BY <1>2, <1>9
  <2>2. f # "script"
    BY <1>1, <1>3, <2>1
  <2>3. f \in {"empty", "stray"} \/ (f \in Batches /\ f # "empty")
    BY <1>3, <2>1, <2>2
  <2> QED BY <1>2, <1>3, <1>4, <2>1, <2>2, <2>3
<1> QED BY <1>2, <1>6, <1>7, <1>8, <1>9 DEF LanPassed
Moves(w, q) == \A f \in w.files \ q.files :
    \/ f \in {"empty", "stray"} \cup w.unreadable
    \/ f = "script" /\ f \in wlExcused
    \/ q.given[f] > 0

LEMMA LanTimeoutOK == ASSUME WlIInv, LanTimeout PROVE WlIInv' /\ Moves(wlan, wlan')
<1>1. PICK stuck \in {{}, wlan.files} :
          /\ stuck # {} => wlTrouble < TroubleLimit
          /\ wlTrouble' = IF stuck = {} THEN wlTrouble ELSE wlTrouble + 1
          /\ wlan' = Process(wlan, wlan.files, stuck, wlScripts)
          /\ wlExcused' = wlExcused \cup stuck
  BY DEF LanTimeout
<1>2. wlan \in WatchdogState /\ wlan.files \in SUBSET InputFiles /\ wlShare = TRUE /\ wlan.running = FALSE
  <2>1. wlan \in WatchdogState /\ wlan.progress # TRUE /\ wlShare = TRUE
    BY Zenon DEF LanTimeout, WlIInv
  <2>2. wlan.running # TRUE
    BY <2>1, Zenon DEF WlIInv
  <2> QED BY <2>1, <2>2 DEF WatchdogState
<1> DEFINE p == wlan'
           excused == wlExcused'
<1>3. excused \subseteq InputFiles /\ wlExcused \subseteq excused /\ (stuck = {} \/ wlan.files \subseteq excused)
  BY <1>1, <1>2 DEF WlIInv
<1>4. p = Process(wlan, wlan.files, stuck, wlScripts)
  BY <1>1
<1> HIDE DEF p, excused
<1>5. /\ p \in WatchdogState
      /\ p.running = TRUE <=> p.progress = TRUE
      /\ \A f \in Small \ excused :
            /\ p.given[f] <= 1
            /\ f \in p.files => p.given[f] = 0 \/ (f = "script" /\ p.running = TRUE)
      /\ p.running = TRUE => "script" \in p.list /\ p.list \cap SortedBeforeScript = {}
      /\ p.running = TRUE => p.given["script"] > 0 \/ "script" \in excused
      /\ p.files \subseteq wlan.files
      /\ \A f \in wlan.files \ p.files : f \in {"empty", "stray"} \cup wlan.unreadable \/ p.given[f] > 0
  <2>1. LanPassed(wlan, p, excused)
    BY <1>2, <1>3, <1>4, LanPassOK
  <2> QED BY <2>1 DEF LanPassed
<1>6. LanFilesOK'
  BY <1>5 DEF LanFilesOK, p, excused
<1>7. wlTrouble' \in 0..TroubleLimit
  BY <1>1, WatchdogConstants DEF WlIInv
<1>8. UNCHANGED <<wlShare, wlScripts, wlPut>>
  BY DEF LanTimeout
<1>9. WlIInv'
  <2>1. wlan' \in WatchdogState /\ (wlan'.running = TRUE <=> wlan'.progress = TRUE) /\ wlExcused' \subseteq InputFiles
    BY <1>3, <1>5 DEF p, excused
  <2>2. wlShare' = TRUE /\ wlScripts' \in SUBSET {"script"} /\ wlPut' \in 0..FileLimit
    BY <1>2, <1>8 DEF WlIInv
  <2> QED BY <1>6, <1>7, <2>1, <2>2 DEF WlIInv
<1>10. Moves(wlan, p)
  BY <1>5 DEF Moves
<1> QED BY <1>9, <1>10 DEF p

LEMMA LanScriptEndsOK == ASSUME WlIInv, LanScriptEnds PROVE WlIInv' /\ Moves(wlan, wlan')
<1>1. wlan \in WatchdogState /\ wlan.running = TRUE /\ wlan.list \in SUBSET InputFiles /\ wlan.files \in SUBSET InputFiles
  BY DEF LanScriptEnds, WlIInv, WatchdogState
<1>2. UNCHANGED <<wlShare, wlScripts, wlExcused, wlPut, wlTrouble>>
  BY DEF LanScriptEnds
<1> DEFINE list == wlan.list \ {"script"}
<1>3. list \in SUBSET InputFiles /\ "script" \notin list
  BY <1>1
<1> HIDE DEF list
<1>4. CASE wlShare = TRUE
  <2> DEFINE w == MoveOrCopy(wlan, {"script"}, {})
             p == wlan'
  <2>1. w \in WatchdogState /\ w.given = wlan.given /\ w.files = wlan.files \ {"script"}
        /\ w.unreadable = wlan.unreadable
    <3> DEFINE fs == {"script"}
               stuck == {}
    <3>1. (fs \cap Small) \ stuck = {"script"}
      BY DEF Small, InputFiles
    <3> HIDE DEF fs, stuck
    <3>2. /\ MoveOrCopy(wlan, fs, stuck) \in WatchdogState
          /\ MoveOrCopy(wlan, fs, stuck).given = wlan.given
          /\ MoveOrCopy(wlan, fs, stuck).files = wlan.files \ ((fs \cap Small) \ stuck)
          /\ MoveOrCopy(wlan, fs, stuck).unreadable = wlan.unreadable
      BY <1>1, MoveOrCopyOK
    <3> QED BY <3>1, <3>2 DEF fs, stuck
  <2>2. p = Process(w, list, {}, {"script"})
    BY <1>4 DEF LanScriptEnds, ScriptEnds, list
  <2> HIDE DEF w, p
  <2> DEFINE stuck == {}
             scripts == {"script"}
  <2>3. stuck = {} /\ p = Process(w, list, stuck, scripts)
    BY <2>2
  <2> HIDE DEF stuck, scripts
  <2>4. w.files \subseteq wlan.files /\ "script" \notin w.files /\ wlExcused \subseteq InputFiles
    BY <2>1 DEF WlIInv
  <2>5. /\ p \in WatchdogState
        /\ p.running = TRUE <=> p.progress = TRUE
        /\ \A f \in Small \ wlExcused :
              /\ p.given[f] <= 1
              /\ f \in p.files => p.given[f] = 0 \/ (f = "script" /\ p.running = TRUE)
        /\ p.running = TRUE => "script" \in p.list /\ p.list \cap SortedBeforeScript = {}
        /\ p.running = TRUE => p.given["script"] > 0 \/ "script" \in wlExcused
        /\ p.files \subseteq w.files
        /\ \A f \in w.files \ p.files : f \in {"empty", "stray"} \cup wlan.unreadable \/ p.given[f] > 0
    <3> DEFINE excused == wlExcused
    <3>1. excused \subseteq InputFiles /\ wlExcused \subseteq excused
      BY <2>4
    <3> HIDE DEF excused
    <3>2. LanPassed(w, p, excused)
      BY <1>3, <1>4, <2>1, <2>3, <2>4, <3>1, LanPassOK
    <3> QED BY <3>2 DEF LanPassed, excused
  <2>6. LanFilesOK'
    BY <1>2, <2>5 DEF LanFilesOK, p
  <2>7. WlIInv'
    BY <1>2, <1>4, <2>5, <2>6 DEF WlIInv, p
  <2>8. p.given["script"] > 0 \/ "script" \in wlExcused
    <3>1. p.given["script"] >= wlan.given["script"]
      <4>1. PassedGiven(w, list, scripts, p)
        BY <1>3, <2>1, <2>3, ProcessOK
      <4>2. wlan.given["script"] \in 0..2
        BY <1>1 DEF WatchdogState, InputFiles
      <4> QED BY <2>1, <4>1, <4>2 DEF PassedGiven
    <3>2. wlan.given["script"] > 0 \/ "script" \in wlExcused
      BY <1>1 DEF WlIInv, LanFilesOK
    <3>3. wlan.given["script"] \in 0..2 /\ p.given["script"] \in 0..2
      BY <1>1, <2>5 DEF WatchdogState, InputFiles
    <3> QED BY <3>1, <3>2, <3>3
  <2>9. Moves(wlan, p)
    BY <2>1, <2>5, <2>8 DEF Moves
  <2> QED BY <2>7, <2>9 DEF p
<1>5. CASE wlShare = FALSE
  <2> DEFINE without == [wlan EXCEPT !.files = {}]
             w == MoveOrCopy(without, {"script"}, {})
             q == Process(w, list, {}, {"script"})
  <2>1. without \in WatchdogState /\ without.given = wlan.given /\ without.files = {} /\ without.list = wlan.list
    BY <1>1 DEF WatchdogState
  <2> HIDE DEF without
  <2>2. w \in WatchdogState /\ w.given = wlan.given /\ w.files = {}
    <3> DEFINE fs == {"script"}
               stuck == {}
    <3> HIDE DEF fs, stuck
    <3>2. /\ MoveOrCopy(without, fs, stuck) \in WatchdogState
          /\ MoveOrCopy(without, fs, stuck).given = without.given
          /\ MoveOrCopy(without, fs, stuck).files = without.files \ ((fs \cap Small) \ stuck)
      BY <2>1, MoveOrCopyOK
    <3> QED BY <2>1, <3>2 DEF fs, stuck
  <2>3. wlan' = [q EXCEPT !.files = wlan.files]
    BY <1>5, <2>1 DEF LanScriptEnds, ScriptEnds, list, without
  <2> HIDE DEF w
  <2>4. q \in WatchdogState /\ PassedFiles(w, list, {}, {"script"}, q) /\ PassedGiven(w, list, {"script"}, q)
    <3> DEFINE stuck == {}
               scripts == {"script"}
               p == Process(w, list, stuck, scripts)
    <3>1. p = Process(w, list, stuck, scripts)
      OBVIOUS
    <3>2. q = p
      OBVIOUS
    <3> HIDE DEF p, stuck, scripts, q
    <3>3. p \in WatchdogState /\ PassedFiles(w, list, stuck, scripts, p) /\ PassedGiven(w, list, scripts, p)
      BY <1>3, <2>2, <3>1, ProcessOK
    <3> QED BY <3>2, <3>3 DEF stuck, scripts
  <2> HIDE DEF q
  <2>5. q.running # TRUE /\ q.progress # TRUE
    BY <1>3, <2>4 DEF PassedFiles, DogWaits
  <2>6. \A f \in InputFiles : q.given[f] = wlan.given[f]
    BY <2>2, <2>4 DEF PassedGiven
  <2>7. wlan' \in WatchdogState /\ wlan'.files = wlan.files /\ wlan'.running # TRUE /\ wlan'.progress # TRUE
        /\ wlan'.given = q.given
    BY <1>1, <2>3, <2>4, <2>5 DEF WatchdogState
  <2>8. LanFilesOK'
    <3>1. wlan.files \subseteq wlExcused
      BY <1>5 DEF WlIInv
    <3>2. Small \subseteq InputFiles
      BY DEF Small
    <3> QED BY <1>2, <2>6, <2>7, <3>1, <3>2 DEF LanFilesOK, WlIInv
  <2>9. WlIInv'
    BY <1>2, <2>7, <2>8 DEF WlIInv
  <2>10. Moves(wlan, wlan')
    BY <2>7 DEF Moves
  <2> QED BY <2>9, <2>10
<1> QED BY <1>4, <1>5 DEF WlIInv

LEMMA LanPutOK == ASSUME WlIInv, LanPut PROVE WlIInv' /\ wlan.files \subseteq wlan'.files
<1>1. PICK f \in LanFiles :
          /\ wlan' = [wlan EXCEPT !.files = @ \cup {f}, !.unreadable = @ \ {f}, !.given[f] = 0]
          /\ wlExcused' = IF f = "script" /\ wlan.running THEN wlExcused \cup {f} ELSE wlExcused \ {f}
  BY DEF LanPut
<1>2. wlan \in WatchdogState /\ f \in InputFiles /\ wlan.files \subseteq InputFiles
      /\ wlan.given \in [InputFiles -> 0..2]
  BY DEF WlIInv, WatchdogState, LanFiles
<1> DEFINE files == wlan.files \cup {f}
           given == [wlan.given EXCEPT ![f] = 0]
           unreadable == wlan.unreadable \ {f}
<1>3. files \in SUBSET InputFiles /\ given \in [InputFiles -> 0..2] /\ given[f] = 0
      /\ \A g \in InputFiles \ {f} : given[g] = wlan.given[g]
  BY <1>2
<1>4. wlan' = [wlan EXCEPT !.files = files, !.unreadable = unreadable, !.given = given]
      /\ unreadable \in SUBSET InputFiles
  BY <1>1, <1>2 DEF WatchdogState
<1> HIDE DEF files, given, unreadable
<1>5. wlan' \in WatchdogState /\ wlan'.files = files /\ wlan'.given = given /\ wlan'.list = wlan.list
  BY <1>2, <1>3, <1>4 DEF WatchdogState
<1>6. wlan'.running = wlan.running /\ wlan'.progress = wlan.progress
  BY <1>2, <1>4, Zenon DEF WatchdogState
<1>7. UNCHANGED <<wlShare, wlScripts, wlTrouble>> /\ wlShare = TRUE /\ wlPut' \in 0..FileLimit
  BY WatchdogConstants DEF LanPut, WlIInv
<1>8. wlExcused' \subseteq InputFiles /\ (\A g \in InputFiles \ {f} : g \in wlExcused' <=> g \in wlExcused)
  BY <1>1, <1>2 DEF WlIInv
<1>9. (wlan.running = TRUE /\ f = "script") => f \in wlExcused'
  BY <1>1
<1>10. LanFilesOK'
  <2>1. Small \subseteq InputFiles /\ "script" \in InputFiles
    BY DEF Small, InputFiles
  <2>2. \A g \in Small \ wlExcused' :
          /\ wlan'.given[g] <= 1
          /\ g \in wlan'.files => wlan'.given[g] = 0 \/ (g = "script" /\ wlan'.running = TRUE)
    <3> TAKE g \in Small \ wlExcused'
    <3>1. CASE g = f
      BY <1>3, <1>5, <3>1
    <3>2. CASE g # f
      <4>1. g \notin wlExcused
        BY <1>8, <2>1, <3>2
      <4>2. wlan.given[g] <= 1 /\ (g \in wlan.files => wlan.given[g] = 0 \/ (g = "script" /\ wlan.running = TRUE))
        BY <4>1 DEF WlIInv, LanFilesOK
      <4>3. g \in wlan'.files <=> g \in wlan.files
        BY <1>5, <3>2 DEF files
      <4>4. wlan'.given[g] = wlan.given[g]
        BY <1>3, <1>5, <2>1, <3>2
      <4>5. wlan.running = TRUE => wlan'.running = TRUE
        BY <1>6
      <4> QED BY <4>2, <4>3, <4>4, <4>5
    <3> QED BY <3>1, <3>2
  <2>3. wlan'.running = TRUE => "script" \in wlan'.list /\ wlan'.list \cap SortedBeforeScript = {}
    BY <1>5, <1>6, Zenon DEF WlIInv, LanFilesOK
  <2>4. wlan'.running = TRUE => wlan'.given["script"] > 0 \/ "script" \in wlExcused'
    <3>0. wlan'.running = TRUE => wlan.running = TRUE
      BY <1>6, Zenon
    <3>1. CASE f = "script"
      BY <1>9, <3>0, <3>1
    <3>2. CASE f # "script"
      BY <1>3, <1>5, <1>8, <2>1, <3>0, <3>2 DEF WlIInv, LanFilesOK
    <3> QED BY <3>1, <3>2
  <2> QED BY <2>2, <2>3, <2>4 DEF LanFilesOK
<1>11. WlIInv'
  <2>1. wlan'.running = TRUE <=> wlan'.progress = TRUE
    BY <1>6, Zenon DEF WlIInv
  <2>2. wlShare' = TRUE /\ wlScripts' \in SUBSET {"script"} /\ wlTrouble' \in 0..TroubleLimit
    BY <1>7 DEF WlIInv
  <2> QED BY <1>5, <1>7, <1>8, <1>10, <2>1, <2>2 DEF WlIInv
<1> QED BY <1>5, <1>11 DEF files
LEMMA LanShareChangesOK == ASSUME WlIInv, LanShareChanges PROVE WlIInv'
<1>1. wlan' = wlan /\ wlScripts' = wlScripts /\ wlPut' = wlPut /\ wlExcused' = wlExcused \cup wlan.files
      /\ wlShare' \in BOOLEAN /\ wlTrouble' \in 0..TroubleLimit
  BY WatchdogConstants DEF LanShareChanges, LanTrouble, WlIInv
<1>2. wlan.files \subseteq InputFiles
  BY DEF WlIInv, WatchdogState
<1>3. LanFilesOK'
  BY <1>1 DEF WlIInv, LanFilesOK
<1> QED BY <1>1, <1>2, <1>3 DEF WlIInv

LEMMA LanEnableOK == ASSUME WlIInv, LanEnable PROVE WlIInv' /\ wlan'.files = wlan.files
<1>1. wlShare' = wlShare /\ wlScripts' = wlScripts /\ wlPut' = wlPut /\ wlExcused' = wlExcused
      /\ wlTrouble' \in 0..TroubleLimit
  BY WatchdogConstants DEF LanEnable, LanTrouble, WlIInv
<1> DEFINE active == ~wlan.active
<1>2. wlan' = [wlan EXCEPT !.active = active] /\ active \in BOOLEAN /\ wlan \in WatchdogState
  BY DEF LanEnable, WlIInv
<1> HIDE DEF active
<1>3. wlan' \in WatchdogState /\ wlan'.files = wlan.files /\ wlan'.given = wlan.given /\ wlan'.list = wlan.list
      /\ wlan'.running = wlan.running /\ wlan'.progress = wlan.progress
  BY <1>2, Zenon DEF WatchdogState
<1>4. (wlan'.running = TRUE <=> wlan.running = TRUE) /\ (wlan'.progress = TRUE <=> wlan.progress = TRUE)
  BY <1>3, Zenon
<1>5. LanFilesOK'
  BY <1>1, <1>3, <1>4, Zenon DEF WlIInv, LanFilesOK
<1>6. wlan'.running = TRUE <=> wlan'.progress = TRUE
  BY <1>4, Zenon DEF WlIInv
<1> QED BY <1>1, <1>3, <1>5, <1>6, Zenon DEF WlIInv

LEMMA LanReadabilityOK == ASSUME WlIInv, LanReadability PROVE WlIInv' /\ wlan'.files = wlan.files
<1>1. wlShare' = wlShare /\ wlScripts' = wlScripts /\ wlPut' = wlPut /\ wlExcused' = wlExcused
      /\ wlTrouble' \in 0..TroubleLimit
  BY WatchdogConstants DEF LanReadability, LanTrouble, WlIInv
<1>2. PICK f \in wlan.files \cap (Batches \ {"empty"}) :
        wlan' = [wlan EXCEPT !.unreadable = IF f \in @ THEN @ \ {f} ELSE @ \cup {f}]
  BY DEF LanReadability
<1> DEFINE unreadable == IF f \in wlan.unreadable THEN wlan.unreadable \ {f} ELSE wlan.unreadable \cup {f}
<1>3. wlan' = [wlan EXCEPT !.unreadable = unreadable] /\ wlan \in WatchdogState
  BY <1>2 DEF WlIInv
<1>4. unreadable \in SUBSET InputFiles
  BY <1>3 DEF WatchdogState
<1> HIDE DEF unreadable
<1>5. wlan' \in WatchdogState /\ wlan'.files = wlan.files /\ wlan'.given = wlan.given /\ wlan'.list = wlan.list
      /\ wlan'.running = wlan.running /\ wlan'.progress = wlan.progress
  BY <1>3, <1>4, Zenon DEF WatchdogState
<1>6. (wlan'.running = TRUE <=> wlan.running = TRUE) /\ (wlan'.progress = TRUE <=> wlan.progress = TRUE)
  BY <1>5, Zenon
<1>7. LanFilesOK'
  BY <1>1, <1>5, <1>6, Zenon DEF WlIInv, LanFilesOK
<1>8. wlan'.running = TRUE <=> wlan'.progress = TRUE
  BY <1>6, Zenon DEF WlIInv
<1> QED BY <1>1, <1>5, <1>7, <1>8, Zenon DEF WlIInv

LEMMA LanReconfigureOK == ASSUME WlIInv, LanReconfigure PROVE WlIInv' /\ wlan'.files = wlan.files
<1>1. wlShare' = wlShare /\ wlScripts' = wlScripts /\ wlPut' = wlPut /\ wlTrouble' \in 0..TroubleLimit
  BY WatchdogConstants DEF LanReconfigure, LanTrouble, WlIInv
<1>2. wlan \in WatchdogState
  BY DEF WlIInv
<1>3. wlExcused' = IF wlan.running = TRUE THEN wlExcused \cup {"script"} ELSE wlExcused
  BY <1>2 DEF LanReconfigure, WatchdogState
<1> DEFINE idle == Idle(wlan.active, wlan.files)
<1>4. idle \in WatchdogState /\ idle.files = wlan.files /\ idle.running = FALSE /\ idle.progress = FALSE
  BY <1>2 DEF Idle, WatchdogState
<1>5. wlan' = [idle EXCEPT !.given = wlan.given, !.unreadable = wlan.unreadable]
  BY DEF LanReconfigure
<1> HIDE DEF idle
<1>6. wlan' \in WatchdogState /\ wlan'.files = wlan.files /\ wlan'.running # TRUE /\ wlan'.progress # TRUE
      /\ wlan'.given = wlan.given
  BY <1>2, <1>4, <1>5 DEF WatchdogState
<1>7. LanFilesOK'
  BY <1>3, <1>6 DEF WlIInv, LanFilesOK
<1>8. wlExcused' \subseteq InputFiles
  BY <1>3 DEF WlIInv, InputFiles
<1>9. wlShare = FALSE => wlan.files \subseteq wlExcused'
  BY <1>3 DEF WlIInv
<1> QED BY <1>1, <1>6, <1>7, <1>8, <1>9 DEF WlIInv

LEMMA WlStepKeeps == WlIInv /\ [WlNext]_wlVars => WlIInv' /\ (UNCHANGED wlVars \/ Moves(wlan, wlan'))
<1> SUFFICES ASSUME WlIInv, [WlNext]_wlVars PROVE WlIInv' /\ (UNCHANGED wlVars \/ Moves(wlan, wlan'))
  OBVIOUS
<1>1. CASE LanPut
  BY <1>1, LanPutOK DEF Moves
<1>2. CASE LanTimeout
  BY <1>2, LanTimeoutOK
<1>3. CASE LanScriptEnds
  BY <1>3, LanScriptEndsOK
<1>4. CASE LanShareChanges
  <2>1. wlan' = wlan
    BY <1>4 DEF LanShareChanges
  <2> QED BY <1>4, <2>1, LanShareChangesOK DEF Moves
<1>5. CASE LanEnable
  BY <1>5, LanEnableOK DEF Moves
<1>6. CASE LanReconfigure
  BY <1>6, LanReconfigureOK DEF Moves
<1>7. CASE UNCHANGED wlVars
  BY <1>7 DEF wlVars, WlIInv, LanFilesOK
<1>8. CASE LanReadability
  BY <1>8, LanReadabilityOK DEF Moves
<1> QED BY <1>1, <1>2, <1>3, <1>4, <1>5, <1>6, <1>7, <1>8 DEF WlNext

LEMMA WlInvariant == WlSpec => []WlIInv
BY WlInitHolds, WlStepKeeps, PTL DEF WlSpec

(* No small file of the shared folder is given on twice, whatever the user,  *)
(* the share, the log folder and the configuration do meanwhile, and over    *)
(* any number of rounds.                                                     *)
THEOREM SmallFilesTakenOnce == WlSpec => []TakenOnce
<1>1. WlIInv => TakenOnce
  BY DEF WlIInv, LanFilesOK, TakenOnce
<1> QED BY <1>1, WlInvariant, PTL

(* No file leaves the shared folder unread, unless nobody wants it, another  *)
(* one was put over the script that runs, or it cannot be read: that one is  *)
(* moved although it was not given on.                                       *)
THEOREM MovedAlwaysTaken == WlSpec => MovedWasTaken
<1>1. WlIInv /\ [WlNext]_wlVars =>
        [\A f \in wlan.files \ wlan'.files :
            \/ f \in {"empty", "stray"} \cup wlan.unreadable
            \/ f = "script" /\ f \in wlExcused
            \/ wlan'.given[f] > 0]_wlVars
  BY WlStepKeeps DEF Moves
<1> QED BY <1>1, WlInvariant, PTL DEF WlSpec, MovedWasTaken

----------------------------------------------------------------------------
LEMMA StickPassOK ==
    ASSUME NEW d \in WatchdogState, NEW list \in SUBSET InputFiles, NEW p, p = Process(d, list, {}, {"script"}),
           \A f \in InputFolder : d.given[f] <= 1 /\ (f \in list => d.given[f] = 0)
    PROVE  StickListOK(p)
<1> DEFINE stuck == {}
           scripts == {"script"}
<1>1. p = Process(d, list, stuck, scripts)
  OBVIOUS
<1> HIDE DEF stuck, scripts
<1>2. p \in WatchdogState /\ PassedFiles(d, list, stuck, scripts, p) /\ PassedGiven(d, list, scripts, p)
  BY <1>1, ProcessOK
<1>3. p.running = TRUE <=> p.progress = TRUE
  BY <1>2 DEF PassedFiles
<1>4. p.running = TRUE => p.list \cap SortedBeforeScript = {}
  BY <1>2 DEF PassedFiles
<1>5. "Bulk" \in InputFiles /\ "Bulk" \in SortedBeforeScript /\ "script" \in InputFiles
      /\ InputFolder = {"Bulk", "script"} /\ d.given["Bulk"] \in 0..2 /\ d.given["script"] \in 0..2
  BY DEF InputFiles, SortedBeforeScript, InputFolder, WatchdogState
<1>6. p.given["Bulk"] <= 1
  <2>1. "Bulk" \in Seen(list) => "Bulk" \in list
    BY DEF Seen
  <2> QED BY <1>2, <1>5, <2>1 DEF PassedGiven
<1>7. p.given["script"] <= 1
  <2>1. DogWaits(list, scripts) => "script" \in list
    BY DEF DogWaits
  <2> QED BY <1>2, <1>5, <2>1 DEF PassedGiven
<1> QED BY <1>2, <1>3, <1>4, <1>5, <1>6, <1>7 DEF StickListOK

LEMMA UsbHandlerOK ==
    ASSUME NEW u, UsbOK(u), NEW q, q = UsbHandler(u, TRUE) \/ (q = UsbHandler(u, FALSE) /\ \A f \in InputFolder : u.dog.given[f] = 0)
    PROVE  UsbOK(q) /\ q.current = u.current /\ q.state = u.state
<1>1. CASE ~u.dog.active \/ u.dog.progress
  BY <1>1 DEF UsbHandler
<1>2. CASE ~(~u.dog.active \/ u.dog.progress)
  <2>1. PICK list \in SUBSET InputFiles :
            /\ q = [u EXCEPT !.dog = Process(u.dog, list, {}, {"script"})]
            /\ \A f \in InputFolder : f \in list => u.dog.given[f] = 0
    <3>1. u.dog.files \in SUBSET InputFiles
      BY DEF UsbOK, StickListOK, WatchdogState
    <3>2. CASE q = UsbHandler(u, TRUE)
      <4> USE <3>1
      <4> WITNESS u.dog.files \ InputFolder \in SUBSET InputFiles
      <4> QED BY <1>2, <3>2 DEF UsbHandler
    <3>3. CASE q = UsbHandler(u, FALSE) /\ \A f \in InputFolder : u.dog.given[f] = 0
      <4> USE <3>1
      <4> WITNESS u.dog.files \in SUBSET InputFiles
      <4> QED BY <1>2, <3>3 DEF UsbHandler
    <3> QED BY <3>2, <3>3
  <2> DEFINE p == Process(u.dog, list, {}, {"script"})
  <2>2. StickListOK(p)
    <3>1. u.dog \in WatchdogState /\ \A f \in InputFolder : u.dog.given[f] <= 1
      BY DEF UsbOK, StickListOK
    <3>2. p = Process(u.dog, list, {}, {"script"})
      OBVIOUS
    <3> HIDE DEF p
    <3> QED BY <2>1, <3>1, <3>2, StickPassOK
  <2>3. q = [u EXCEPT !.dog = p]
    BY <2>1
  <2> HIDE DEF p
  <2>4. u \in Usb /\ p \in WatchdogState
    BY <2>2 DEF UsbOK, StickListOK
  <2>5. q \in Usb /\ q.dog = p /\ q.current = u.current /\ q.state = u.state
        /\ q.timer = u.timer /\ q.mounted = u.mounted
    BY <2>3, <2>4, Zenon DEF Usb
  <2>6. (q.timer = TRUE <=> u.timer = TRUE) /\ (q.mounted = TRUE <=> u.mounted = TRUE)
    BY <2>5, Zenon
  <2>7. UsbOK(q)
    BY <2>2, <2>5, <2>6 DEF UsbOK
  <2> QED BY <2>5, <2>7
<1> QED BY <1>1, <1>2

LEMMA UdisksDeviceAddedOK ==
    ASSUME NEW u, UsbOK(u), Plugged, NEW s \in Sticks, NEW q, q = UdisksDeviceAdded(u, s)
    PROVE  /\ UsbOK(q)
           /\ s \in DOMAIN wuPlugged /\ u.current = NoStick => q.current = s /\ q.state = StateOf(wuPlugged[s])
           /\ ~(s \in DOMAIN wuPlugged /\ u.current = NoStick) => q = u
<1>1. CASE ~(s \in DOMAIN wuPlugged /\ u.current = NoStick)
  BY <1>1 DEF UdisksDeviceAdded
<1>2. CASE s \in DOMAIN wuPlugged /\ u.current = NoStick
  <2> DEFINE fresh == [f \in InputFiles |-> 0]
             dog == [u.dog EXCEPT !.files = StickFiles, !.given = fresh]
             mounted == [u EXCEPT !.current = s, !.mounted = TRUE, !.dog = dog]
  <2>1. s # NoStick /\ s \in Sticks \cup {NoStick} /\ wuPlugged[s] \in Mounts
    BY <1>2 DEF Sticks, NoStick, Plugged
  <2>2. u \in Usb /\ u.dog \in WatchdogState /\ u.state = "nodevice" /\ u.timer # TRUE
    BY <1>2 DEF UsbOK, StickListOK
  <2>3. StickListOK(dog) /\ \A f \in InputFolder : dog.given[f] = 0
    <3>1. fresh \in [InputFiles -> 0..2] /\ \A f \in InputFolder : fresh[f] = 0
      BY DEF InputFiles, InputFolder
    <3>2. StickFiles \in SUBSET InputFiles
      BY DEF StickFiles, InputFiles
    <3> HIDE DEF fresh
    <3>3. dog \in WatchdogState /\ dog.given = fresh /\ dog.list = u.dog.list
      BY <2>2, <3>1, <3>2 DEF WatchdogState
    <3>4. dog.running = u.dog.running /\ dog.progress = u.dog.progress
      BY <2>2, Zenon DEF WatchdogState
    <3>5. (dog.running = TRUE <=> u.dog.running = TRUE) /\ (dog.progress = TRUE <=> u.dog.progress = TRUE)
      BY <3>4, Zenon
    <3> HIDE DEF dog
    <3> QED BY <3>1, <3>3, <3>5 DEF UsbOK, StickListOK
  <2>4. mounted = [u EXCEPT !.current = s, !.mounted = TRUE, !.dog.files = StickFiles, !.dog.given = fresh]
    BY <2>2 DEF Usb, WatchdogState
  <2> HIDE DEF dog
  <2>5. mounted \in Usb /\ mounted.current = s /\ mounted.dog = dog /\ mounted.state = "nodevice"
    BY <2>1, <2>2, <2>3 DEF Usb, StickListOK
  <2> HIDE DEF fresh
  <2>6. CASE wuPlugged[s] = "broken"
    <3>1. q = [u EXCEPT !.current = s]
      BY <1>2, <2>6 DEF UdisksDeviceAdded
    <3>2. q \in Usb /\ q.current = s /\ q.dog = u.dog /\ q.state = u.state /\ q.timer = u.timer
      BY <2>1, <2>2, <3>1, Zenon DEF Usb
    <3>3. q.timer # TRUE
      BY <2>2, <3>2, Zenon
    <3> QED BY <1>2, <2>1, <2>2, <2>6, <3>2, <3>3 DEF UsbOK, StateOf
  <2>7. CASE wuPlugged[s] = "ro"
    <3>1. q = [mounted EXCEPT !.state = "mountedro"]
      BY <1>2, <2>4, <2>7 DEF UdisksDeviceAdded, fresh
    <3>2. u.timer = mounted.timer
      BY <2>2, Zenon DEF Usb
    <3> HIDE DEF mounted
    <3>3. q \in Usb /\ q.current = s /\ q.dog = dog /\ q.state = "mountedro"
      BY <2>5, <3>1 DEF Usb
    <3>4. q.timer = mounted.timer
      BY <2>5, <3>1, Zenon DEF Usb
    <3>5. q.timer # TRUE
      BY <2>2, <3>2, <3>4, Zenon
    <3> QED BY <1>2, <2>1, <2>3, <2>7, <3>3, <3>5 DEF UsbOK, StateOf
  <2>8. CASE wuPlugged[s] \notin {"broken", "ro"}
    <3> DEFINE rw == [mounted EXCEPT !.state = "mountedrw", !.timer = TRUE]
    <3>1. q = UsbHandler(rw, FALSE)
      BY <1>2, <2>4, <2>8 DEF UdisksDeviceAdded, fresh
    <3> HIDE DEF mounted
    <3>2. rw \in Usb /\ rw.current = s /\ rw.dog = dog /\ rw.state = "mountedrw" /\ rw.timer = TRUE
      BY <2>5 DEF Usb
    <3> HIDE DEF rw
    <3>3. UsbOK(rw)
      BY <2>1, <2>3, <3>2 DEF UsbOK
    <3>4. UsbOK(q) /\ q.current = rw.current /\ q.state = rw.state
      BY <2>3, <3>1, <3>2, <3>3, UsbHandlerOK
    <3> QED BY <1>2, <2>8, <3>2, <3>4 DEF StateOf
  <2> QED BY <2>6, <2>7, <2>8
<1> QED BY <1>1, <1>2

LEMMA UdisksDeviceRemovedOK ==
    ASSUME NEW u, UsbOK(u), NEW s \in Sticks, NEW q, q = UdisksDeviceRemoved(u, s)
    PROVE  UsbOK(q) /\ (u.current = s => q.current = NoStick) /\ (u.current # s => q = u)
<1>1. CASE u.current # s
  BY <1>1 DEF UdisksDeviceRemoved
<1>2. CASE u.current = s
  <2> DEFINE dog == [u.dog EXCEPT !.files = {}]
  <2>1. u \in Usb /\ u.dog \in WatchdogState
    BY DEF UsbOK, StickListOK
  <2>2. dog \in WatchdogState /\ dog.given = u.dog.given /\ dog.list = u.dog.list
    BY <2>1 DEF WatchdogState
  <2>3. dog.running = u.dog.running /\ dog.progress = u.dog.progress
    BY <2>1, Zenon DEF WatchdogState
  <2>4. (dog.running = TRUE <=> u.dog.running = TRUE) /\ (dog.progress = TRUE <=> u.dog.progress = TRUE)
    BY <2>3, Zenon
  <2>5. q = [u EXCEPT !.current = NoStick, !.mounted = FALSE, !.timer = FALSE, !.state = "nodevice", !.dog = dog]
    BY <1>2, <2>1 DEF UdisksDeviceRemoved, Usb
  <2> HIDE DEF dog
  <2>6. q \in Usb /\ q.current = NoStick /\ q.timer = FALSE /\ q.state = "nodevice" /\ q.dog = dog
        /\ q.mounted = FALSE
    BY <2>1, <2>2, <2>5 DEF Usb
  <2>7. StickListOK(dog)
    BY <2>2, <2>4 DEF UsbOK, StickListOK
  <2> QED BY <1>2, <2>6, <2>7 DEF UsbOK
<1> QED BY <1>1, <1>2

----------------------------------------------------------------------------
Names == {"DeviceAdded", "DeviceRemoved"}

LEMMA WuInitHolds == WuInit => WuIInv
<1> SUFFICES ASSUME WuInit PROVE WuIInv
  OBVIOUS
<1>1. Idle(TRUE, {}) \in WatchdogState
  BY DEF Idle, WatchdogState
<1>2. Idle(TRUE, {}).running = FALSE /\ Idle(TRUE, {}).progress = FALSE
      /\ \A f \in InputFolder : Idle(TRUE, {}).given[f] <= 1
  BY DEF Idle, InputFolder, InputFiles
<1> DEFINE dog == Idle(TRUE, {})
<1> HIDE DEF dog
<1>3. StickListOK(dog)
  <2>1. dog.running # TRUE /\ dog.progress # TRUE
    BY <1>2 DEF dog
  <2> QED BY <1>1, <1>2, <2>1 DEF StickListOK, dog
<1>4. wusb = [dog |-> dog, current |-> NoStick, mounted |-> FALSE, timer |-> FALSE, state |-> "nodevice"]
  BY DEF WuInit, dog
<1>5. wusb \in Usb /\ wusb.dog = dog /\ wusb.current = NoStick /\ wusb.mounted = FALSE /\ wusb.timer = FALSE
      /\ wusb.state = "nodevice"
  BY <1>3, <1>4 DEF Usb, StickListOK
<1>6. UsbOK(wusb)
  BY <1>3, <1>5 DEF UsbOK
<1>7. Plugged /\ DOMAIN wuSignals = {}
  BY WatchdogConstants DEF Plugged, WuInit
<1> QED BY <1>5, <1>6, <1>7 DEF WuIInv, SignalsOK, Alternate, EndWith, BeginWithRemoval, About

\* A stick is plugged in or pulled, and udisks is going to tell it.
LEMMA SignalAppended ==
    ASSUME WuIInv, NEW s \in Sticks, NEW name \in Names,
           name = "DeviceAdded" <=> s \notin DOMAIN wuPlugged,
           wuSignals' = Append(wuSignals, <<name, s>>),
           wusb'.current = wusb.current, wusb'.state = wusb.state,
           \A t \in Sticks \ {s} : t \in DOMAIN wuPlugged <=> t \in DOMAIN wuPlugged',
           \A t \in DOMAIN wuPlugged \ {s} : wuPlugged'[t] = wuPlugged[t],
           s \in DOMAIN wuPlugged' <=> s \notin DOMAIN wuPlugged
    PROVE  /\ SignalsOK'
           /\ wuSignals' \in Seq(Names \X Sticks)
           /\ wusb'.current # NoStick /\ (\A i \in DOMAIN wuSignals' : wuSignals'[i][2] # wusb'.current) =>
                 wusb'.current \in DOMAIN wuPlugged' /\ wusb'.state = StateOf(wuPlugged'[wusb'.current])
<1> DEFINE n == Len(wuSignals)
           Q == wuSignals'
<1>1. wuSignals \in Seq(Names \X Sticks) /\ n \in Nat /\ DOMAIN wuSignals = 1..n
      /\ wusb.current \in Sticks \cup {NoStick}
  BY DEF WuIInv, Plugged, Names, UsbOK, Usb
<1>2. Q \in Seq(Names \X Sticks) /\ DOMAIN Q = 1..(n + 1) /\ Q[n + 1] = <<name, s>>
      /\ \A i \in 1..n : Q[i] = wuSignals[i]
  <2>1. <<name, s>> \in Names \X Sticks
    OBVIOUS
  <2> QED BY <1>1, <2>1, AppendProperties
<1>3. \A i \in 1..n : wuSignals[i][1] \in Names /\ wuSignals[i][2] \in Sticks
  BY <1>1
<1>4. Q[n + 1][1] = name /\ Q[n + 1][2] = s
  BY <1>2
<1> HIDE DEF Q
<1>5. ASSUME NEW i \in 1..(n + 1), NEW j \in 1..(n + 1), i < j, Q[i][2] = Q[j][2],
             \A k \in 1..(n + 1) : i < k /\ k < j => Q[k][2] # Q[i][2]
      PROVE  Q[i][1] # Q[j][1]
  <2>1. i \in 1..n
    BY <1>1, <1>5
  <2>2. CASE j \in 1..n
    <3>1. ASSUME NEW k \in 1..n, i < k, k < j PROVE wuSignals[k][2] # wuSignals[i][2]
      <4>1. k \in 1..(n + 1) /\ Q[k] = wuSignals[k] /\ Q[i] = wuSignals[i]
        BY <1>1, <1>2, <2>1
      <4> QED BY <1>5, <3>1, <4>1
    <3>2. Q[i] = wuSignals[i] /\ Q[j] = wuSignals[j]
      BY <1>2, <2>1, <2>2
    <3>3. Alternate(wuSignals) /\ wuSignals[i][2] = wuSignals[j][2] /\ i < j
      BY <1>5, <3>2 DEF WuIInv, SignalsOK
    <3>4. wuSignals[i][1] # wuSignals[j][1]
      BY <1>1, <2>1, <2>2, <3>1, <3>3 DEF Alternate
    <3> QED BY <3>2, <3>4
  <2>3. CASE j = n + 1
    <3>1. ASSUME NEW k \in 1..n, i < k PROVE wuSignals[k][2] # wuSignals[i][2]
      <4>1. k \in 1..(n + 1) /\ Q[k] = wuSignals[k] /\ Q[i] = wuSignals[i] /\ k < j
        BY <1>1, <1>2, <2>1, <2>3
      <4> QED BY <1>5, <3>1, <4>1
    <3>2. wuSignals[i][1] = "DeviceAdded" <=> About(i) \in DOMAIN wuPlugged
      BY <1>1, <2>1, <3>1 DEF WuIInv, SignalsOK, Alternate, EndWith, BeginWithRemoval, About
    <3>3. About(i) = s
      BY <1>2, <1>4, <1>5, <2>1, <2>3 DEF About
    <3> QED BY <1>2, <1>4, <2>1, <2>3, <3>2, <3>3 DEF Names
  <2> QED BY <1>1, <2>2, <2>3
<1>6. ASSUME NEW i \in 1..(n + 1), \A k \in 1..(n + 1) : i < k => Q[k][2] # Q[i][2]
      PROVE  Q[i][1] = "DeviceAdded" <=> Q[i][2] \in DOMAIN wuPlugged'
  <2>1. CASE i = n + 1
    BY <1>4, <2>1
  <2>2. CASE i \in 1..n
    <3>1. ASSUME NEW k \in 1..n, i < k PROVE wuSignals[k][2] # wuSignals[i][2]
      <4>1. k \in 1..(n + 1) /\ Q[k] = wuSignals[k] /\ Q[i] = wuSignals[i]
        BY <1>1, <1>2, <2>2
      <4> QED BY <1>6, <3>1, <4>1
    <3>2. wuSignals[i][1] = "DeviceAdded" <=> About(i) \in DOMAIN wuPlugged
      BY <1>1, <2>2, <3>1 DEF WuIInv, SignalsOK, Alternate, EndWith, BeginWithRemoval, About
    <3>3. Q[i][2] # s
      BY <1>1, <1>4, <1>6, <2>2
    <3> QED BY <1>2, <1>3, <2>2, <3>2, <3>3 DEF About
  <2> QED BY <1>1, <2>1, <2>2
<1>7. ASSUME NEW i \in 1..(n + 1), Q[i][2] = wusb.current, \A k \in 1..(n + 1) : k < i => Q[k][2] # Q[i][2]
      PROVE  Q[i][1] = "DeviceRemoved"
  <2>1. CASE i \in 1..n
    <3>1. ASSUME NEW k \in 1..n, k < i PROVE wuSignals[k][2] # wuSignals[i][2]
      <4>1. k \in 1..(n + 1) /\ Q[k] = wuSignals[k] /\ Q[i] = wuSignals[i]
        BY <1>1, <1>2, <2>1
      <4> QED BY <1>7, <3>1, <4>1
    <3>2. Q[i] = wuSignals[i]
      BY <1>2, <2>1
    <3> QED BY <1>1, <1>7, <2>1, <3>1, <3>2 DEF WuIInv, SignalsOK, Alternate, EndWith, BeginWithRemoval, About
  <2>2. CASE i = n + 1
    <3>1. wusb.current = s /\ s # NoStick
      BY <1>4, <1>7, <2>2 DEF Sticks, NoStick
    <3>2. ASSUME NEW k \in 1..n PROVE About(k) # wusb.current
      <4>1. k \in 1..(n + 1) /\ Q[k] = wuSignals[k] /\ k < i
        BY <1>1, <1>2, <2>2
      <4> QED BY <1>7, <4>1 DEF About
    <3>3. s \in DOMAIN wuPlugged
      BY <1>1, <3>1, <3>2 DEF WuIInv
    <3> QED BY <1>4, <2>2, <3>3 DEF Names
  <2> QED BY <1>1, <2>1, <2>2
<1> HIDE DEF n
<1>8. SignalsOK'
  <2>1. Alternate(Q)
    <3> SUFFICES ASSUME NEW i \in DOMAIN Q, NEW j \in DOMAIN Q, i < j, Q[i][2] = Q[j][2],
                        \A k \in DOMAIN Q : i < k /\ k < j => Q[k][2] # Q[i][2]
                 PROVE  Q[i][1] # Q[j][1]
      BY DEF Alternate
    <3>1. i \in 1..(n + 1) /\ j \in 1..(n + 1) /\ \A k \in 1..(n + 1) : i < k /\ k < j => Q[k][2] # Q[i][2]
      BY <1>2
    <3> QED BY <1>5, <3>1
  <2>2. EndWith(Q, DOMAIN wuPlugged')
    BY <1>2, <1>6 DEF EndWith
  <2>3. BeginWithRemoval(Q, wusb.current)
    BY <1>2, <1>7 DEF BeginWithRemoval
  <2> QED BY <2>1, <2>2, <2>3 DEF SignalsOK, Q
<1>9. ASSUME wusb.current # NoStick, \A i \in 1..(n + 1) : Q[i][2] # wusb.current
      PROVE  wusb.current \in DOMAIN wuPlugged' /\ wusb.state = StateOf(wuPlugged'[wusb.current])
  <2>1. \A i \in 1..n : About(i) # wusb.current
    BY <1>1, <1>2, <1>9 DEF About
  <2>2. wusb.current \in DOMAIN wuPlugged /\ wusb.state = StateOf(wuPlugged[wusb.current])
    BY <1>1, <1>9, <2>1 DEF WuIInv
  <2>3. s # wusb.current
    BY <1>1, <1>4, <1>9
  <2> QED BY <1>1, <1>9, <2>2, <2>3
<1> QED BY <1>2, <1>8, <1>9 DEF Q

LEMMA UsbPlugOK == ASSUME WuIInv, UsbPlug PROVE WuIInv'
<1>1. PICK s \in Sticks \ DOMAIN wuPlugged : \E how \in Mounts :
          /\ wuPlugged' = [t \in DOMAIN wuPlugged \cup {s} |-> IF t = s THEN how ELSE wuPlugged[t]]
          /\ wuSignals' = Append(wuSignals, <<"DeviceAdded", s>>)
  BY DEF UsbPlug
<1>2. wusb' = wusb /\ wuPlugs' \in 0..PlugLimit
  BY WatchdogConstants DEF UsbPlug, WuIInv, Plugged
<1>3. DOMAIN wuPlugged' \subseteq Sticks /\ (\A t \in DOMAIN wuPlugged' : wuPlugged'[t] \in Mounts)
  BY <1>1 DEF WuIInv, Plugged
<1>4. /\ SignalsOK'
      /\ wuSignals' \in Seq(Names \X Sticks)
      /\ wusb'.current # NoStick /\ (\A i \in DOMAIN wuSignals' : wuSignals'[i][2] # wusb'.current) =>
            wusb'.current \in DOMAIN wuPlugged' /\ wusb'.state = StateOf(wuPlugged'[wusb'.current])
  <2>1. "DeviceAdded" \in Names
    BY DEF Names
  <2> QED BY <1>1, <1>2, <2>1, SignalAppended
<1>5. Plugged' /\ UsbOK(wusb')
  BY <1>2, <1>3, <1>4 DEF Plugged, Names, WuIInv
<1> QED BY <1>4, <1>5 DEF WuIInv, About

LEMMA UsbPullOK == ASSUME WuIInv, UsbPull PROVE WuIInv'
<1>1. PICK s \in DOMAIN wuPlugged :
          /\ wuPlugged' = [t \in DOMAIN wuPlugged \ {s} |-> wuPlugged[t]]
          /\ wuSignals' = Append(wuSignals, <<"DeviceRemoved", s>>)
          /\ wusb' = IF wusb.current = s /\ wusb.mounted THEN [wusb EXCEPT !.dog.files = {}] ELSE wusb
  BY DEF UsbPull
<1>2. wuPlugs' \in 0..PlugLimit /\ s \in Sticks
  BY <1>1 DEF UsbPull, WuIInv, Plugged
<1>3. DOMAIN wuPlugged' \subseteq Sticks /\ (\A t \in DOMAIN wuPlugged' : wuPlugged'[t] \in Mounts)
  BY <1>1 DEF WuIInv, Plugged
<1>4. UsbOK(wusb') /\ wusb'.current = wusb.current /\ wusb'.state = wusb.state
  <2>1. CASE wusb' = wusb
    BY <2>1 DEF WuIInv
  <2>2. CASE wusb' = [wusb EXCEPT !.dog.files = {}]
    <3> DEFINE dog == [wusb.dog EXCEPT !.files = {}]
    <3>1. wusb \in Usb /\ wusb.dog \in WatchdogState /\ UsbOK(wusb) /\ StickListOK(wusb.dog)
      BY DEF WuIInv, UsbOK, StickListOK
    <3>2. dog \in WatchdogState /\ dog.given = wusb.dog.given /\ dog.list = wusb.dog.list
      BY <3>1 DEF WatchdogState
    <3>3. dog.running = wusb.dog.running /\ dog.progress = wusb.dog.progress
      BY <3>1, Zenon DEF WatchdogState
    <3>4. (dog.running = TRUE <=> wusb.dog.running = TRUE) /\ (dog.progress = TRUE <=> wusb.dog.progress = TRUE)
      BY <3>3, Zenon
    <3>5. wusb' = [wusb EXCEPT !.dog = dog]
      BY <2>2, <3>1 DEF Usb
    <3> HIDE DEF dog
    <3>6. wusb' \in Usb /\ wusb'.current = wusb.current /\ wusb'.state = wusb.state /\ wusb'.dog = dog
          /\ wusb'.timer = wusb.timer /\ wusb'.mounted = wusb.mounted
      BY <3>1, <3>2, <3>5, Zenon DEF Usb
    <3>7. (wusb'.timer = TRUE <=> wusb.timer = TRUE) /\ (wusb'.mounted = TRUE <=> wusb.mounted = TRUE)
      BY <3>6, Zenon
    <3>8. StickListOK(dog)
      BY <3>1, <3>2, <3>4 DEF StickListOK
    <3>9. UsbOK(wusb')
      BY <3>1, <3>6, <3>7, <3>8 DEF UsbOK
    <3> QED BY <3>6, <3>9
  <2> QED BY <1>1, <2>1, <2>2
<1>5. /\ SignalsOK'
      /\ wuSignals' \in Seq(Names \X Sticks)
      /\ wusb'.current # NoStick /\ (\A i \in DOMAIN wuSignals' : wuSignals'[i][2] # wusb'.current) =>
            wusb'.current \in DOMAIN wuPlugged' /\ wusb'.state = StateOf(wuPlugged'[wusb'.current])
  <2>1. "DeviceRemoved" \in Names
    BY DEF Names
  <2> QED BY <1>1, <1>2, <1>4, <2>1, SignalAppended
<1>6. Plugged'
  BY <1>2, <1>3, <1>5 DEF Plugged, Names
<1> QED BY <1>4, <1>5, <1>6 DEF WuIInv, About

LEMMA UsbSignalOK == ASSUME WuIInv, UsbSignal PROVE WuIInv'
<1> DEFINE n == Len(wuSignals)
           Q == wuSignals'
           s == wuSignals[1][2]
<1>1. wuSignals \in Seq(Names \X Sticks) /\ wuSignals # <<>> /\ Q = Tail(wuSignals) /\ wuPlugged' = wuPlugged
      /\ wuPlugs' = wuPlugs
      /\ wusb' = IF wuSignals[1][1] = "DeviceAdded" THEN UdisksDeviceAdded(wusb, s) ELSE UdisksDeviceRemoved(wusb, s)
  BY DEF UsbSignal, WuIInv, Plugged, Names
<1>2. n \in Nat \ {0} /\ DOMAIN wuSignals = 1..n /\ s \in Sticks /\ wuSignals[1][1] \in Names
      /\ s = About(1) /\ s # NoStick /\ wusb.current \in Sticks \cup {NoStick}
  BY <1>1 DEF About, Sticks, NoStick, WuIInv, UsbOK, Usb
<1>3. Q \in Seq(Names \X Sticks) /\ DOMAIN Q = 1..(n - 1) /\ \A i \in 1..(n - 1) : Q[i] = wuSignals[i + 1]
  BY <1>1, <1>2
<1>4. \A i \in 1..(n - 1) : i + 1 \in 1..n /\ Q[i][2] = About(i + 1) /\ Q[i][1] = wuSignals[i + 1][1]
      /\ Q[i][1] \in Names /\ Q[i][2] \in Sticks
  BY <1>2, <1>3 DEF About
<1>5. wuSignals[1][1] = "DeviceAdded" => wusb.current # s
  BY <1>2 DEF WuIInv, SignalsOK, Alternate, EndWith, BeginWithRemoval, About
<1>6. UsbOK(wusb) /\ Plugged
  BY DEF WuIInv
<1> HIDE DEF Q
<1>7. ASSUME NEW i \in 1..(n - 1), NEW j \in 1..(n - 1), i < j, Q[i][2] = Q[j][2],
             \A k \in 1..(n - 1) : i < k /\ k < j => Q[k][2] # Q[i][2]
      PROVE  Q[i][1] # Q[j][1]
  <2>1. \A k \in 1..n : i + 1 < k /\ k < j + 1 => About(k) # About(i + 1)
    <3> SUFFICES ASSUME NEW k \in 1..n, i + 1 < k, k < j + 1 PROVE About(k) # About(i + 1)
      OBVIOUS
    <3>1. k - 1 \in 1..(n - 1) /\ i < k - 1 /\ k - 1 < j /\ (k - 1) + 1 = k
      BY <1>2
    <3> QED BY <1>4, <1>7, <3>1
  <2>2. i + 1 \in DOMAIN wuSignals /\ j + 1 \in DOMAIN wuSignals /\ i + 1 < j + 1 /\ About(i + 1) = About(j + 1)
    BY <1>2, <1>4, <1>7
  <2>3. wuSignals[i + 1][1] # wuSignals[j + 1][1]
    BY <1>2, <2>1, <2>2 DEF WuIInv, SignalsOK, Alternate, EndWith, BeginWithRemoval, About
  <2> QED BY <1>4, <2>3
<1>8. ASSUME NEW i \in 1..(n - 1), \A k \in 1..(n - 1) : i < k => Q[k][2] # Q[i][2]
      PROVE  Q[i][1] = "DeviceAdded" <=> Q[i][2] \in DOMAIN wuPlugged
  <2>1. \A k \in 1..n : i + 1 < k => About(k) # About(i + 1)
    <3> SUFFICES ASSUME NEW k \in 1..n, i + 1 < k PROVE About(k) # About(i + 1)
      OBVIOUS
    <3>1. k - 1 \in 1..(n - 1) /\ i < k - 1 /\ (k - 1) + 1 = k
      BY <1>2
    <3> QED BY <1>4, <1>8, <3>1
  <2>2. wuSignals[i + 1][1] = "DeviceAdded" <=> About(i + 1) \in DOMAIN wuPlugged
    BY <1>2, <1>4, <2>1 DEF WuIInv, SignalsOK, Alternate, EndWith, BeginWithRemoval, About
  <2> QED BY <1>4, <2>2
\* The first signal that is left of a stick: of s after the one that is handled.
<1>9. ASSUME NEW i \in 1..(n - 1), Q[i][2] = s, \A k \in 1..(n - 1) : k < i => Q[k][2] # Q[i][2]
      PROVE  Q[i][1] # wuSignals[1][1]
  <2>1. \A k \in 1..n : 1 < k /\ k < i + 1 => About(k) # About(1)
    <3> SUFFICES ASSUME NEW k \in 1..n, 1 < k, k < i + 1 PROVE About(k) # About(1)
      OBVIOUS
    <3>1. k - 1 \in 1..(n - 1) /\ k - 1 < i /\ (k - 1) + 1 = k
      BY <1>2
    <3> QED BY <1>2, <1>4, <1>9, <3>1
  <2>2. 1 \in DOMAIN wuSignals /\ i + 1 \in DOMAIN wuSignals /\ 1 < i + 1 /\ About(1) = About(i + 1)
    BY <1>2, <1>4, <1>9
  <2>3. wuSignals[1][1] # wuSignals[i + 1][1]
    BY <1>2, <2>1, <2>2 DEF WuIInv, SignalsOK, Alternate, EndWith, BeginWithRemoval, About
  <2> QED BY <1>4, <2>3
<1>10. ASSUME NEW i \in 1..(n - 1), NEW t, t # s, Q[i][2] = t, t = wusb.current,
              \A k \in 1..(n - 1) : k < i => Q[k][2] # Q[i][2]
       PROVE  Q[i][1] = "DeviceRemoved"
  <2>1. \A k \in 1..n : k < i + 1 => About(k) # About(i + 1)
    <3> SUFFICES ASSUME NEW k \in 1..n, k < i + 1 PROVE About(k) # About(i + 1)
      OBVIOUS
    <3>1. CASE k = 1
      BY <1>2, <1>4, <1>10, <3>1
    <3>2. CASE k # 1
      <4>1. k - 1 \in 1..(n - 1) /\ k - 1 < i /\ (k - 1) + 1 = k
        BY <1>2, <3>2
      <4> QED BY <1>4, <1>10, <4>1
    <3> QED BY <3>1, <3>2
  <2> QED BY <1>2, <1>4, <1>10, <2>1 DEF WuIInv, SignalsOK, Alternate, EndWith, BeginWithRemoval, About
\* After the last signal of a stick it is plugged in or not.
<1>11. ASSUME \A i \in 1..(n - 1) : Q[i][2] # s
       PROVE  wuSignals[1][1] = "DeviceAdded" <=> s \in DOMAIN wuPlugged
  <2>1. \A k \in 1..n : 1 < k => About(k) # About(1)
    <3> SUFFICES ASSUME NEW k \in 1..n, 1 < k PROVE About(k) # About(1)
      OBVIOUS
    <3>1. k - 1 \in 1..(n - 1) /\ (k - 1) + 1 = k
      BY <1>2
    <3> QED BY <1>2, <1>4, <1>11, <3>1
  <2> QED BY <1>2, <2>1 DEF WuIInv, SignalsOK, Alternate, EndWith, BeginWithRemoval, About
<1>12. ASSUME NEW t, t # s, t = wusb.current, t # NoStick, \A i \in 1..(n - 1) : Q[i][2] # t
       PROVE  t \in DOMAIN wuPlugged /\ wusb.state = StateOf(wuPlugged[t])
  <2>1. \A k \in 1..n : About(k) # t
    <3> SUFFICES ASSUME NEW k \in 1..n PROVE About(k) # t
      OBVIOUS
    <3>1. CASE k = 1
      BY <1>2, <1>12, <3>1
    <3>2. CASE k # 1
      <4>1. k - 1 \in 1..(n - 1) /\ (k - 1) + 1 = k
        BY <1>2, <3>2
      <4> QED BY <1>4, <1>12, <4>1
    <3> QED BY <3>1, <3>2
  <2> QED BY <1>2, <1>12, <2>1 DEF WuIInv
<1> HIDE DEF s, n
<1>13. /\ UsbOK(wusb')
       /\ \A i \in 1..(n - 1) : Q[i][2] = wusb'.current /\ (\A k \in 1..(n - 1) : k < i => Q[k][2] # Q[i][2]) =>
             Q[i][1] = "DeviceRemoved"
       /\ wusb'.current # NoStick /\ (\A i \in 1..(n - 1) : Q[i][2] # wusb'.current) =>
             wusb'.current \in DOMAIN wuPlugged /\ wusb'.state = StateOf(wuPlugged[wusb'.current])
  <2>1. CASE wuSignals[1][1] = "DeviceAdded"
    <3>1. /\ UsbOK(wusb')
          /\ s \in DOMAIN wuPlugged /\ wusb.current = NoStick => wusb'.current = s /\ wusb'.state = StateOf(wuPlugged[s])
          /\ ~(s \in DOMAIN wuPlugged /\ wusb.current = NoStick) => wusb' = wusb
      BY <1>1, <1>2, <1>6, <2>1, UdisksDeviceAddedOK
    <3>2. CASE s \in DOMAIN wuPlugged /\ wusb.current = NoStick
      BY <1>4, <1>9, <2>1, <3>1, <3>2 DEF Names
    <3>3. CASE ~(s \in DOMAIN wuPlugged /\ wusb.current = NoStick)
      BY <1>5, <1>10, <1>12, <2>1, <3>1, <3>3
    <3> QED BY <3>2, <3>3
  <2>2. CASE wuSignals[1][1] # "DeviceAdded"
    <3>1. UsbOK(wusb') /\ (wusb.current = s => wusb'.current = NoStick) /\ (wusb.current # s => wusb' = wusb)
      BY <1>1, <1>2, <1>6, <2>2, UdisksDeviceRemovedOK
    <3>2. CASE wusb.current = s
      <4>1. \A i \in 1..(n - 1) : Q[i][2] # NoStick
        <5> SUFFICES ASSUME NEW i \in 1..(n - 1) PROVE Q[i][2] # NoStick
          OBVIOUS
        <5>1. Q[i][2] \in Sticks
          BY <1>4
        <5> QED BY <5>1 DEF Sticks, NoStick
      <4> QED BY <3>1, <3>2, <4>1
    <3>3. CASE wusb.current # s
      BY <1>10, <1>12, <3>1, <3>3
    <3> QED BY <3>2, <3>3
  <2> QED BY <2>1, <2>2
<1>14. SignalsOK'
  <2>1. Alternate(Q)
    BY <1>3, <1>7 DEF Alternate
  <2>2. EndWith(Q, DOMAIN wuPlugged)
    BY <1>3, <1>8 DEF EndWith
  <2>3. BeginWithRemoval(Q, wusb'.current)
    BY <1>3, <1>13 DEF BeginWithRemoval
  <2> QED BY <1>1, <2>1, <2>2, <2>3 DEF SignalsOK, Q
<1>15. Plugged'
  BY <1>1, <1>3, <1>6 DEF Plugged, Names, Q
<1> QED BY <1>1, <1>3, <1>13, <1>14, <1>15 DEF WuIInv, About, Q
LEMMA UsbTimeoutOK == ASSUME WuIInv, UsbTimeout PROVE WuIInv'
<1>1. wusb' = UsbHandler(wusb, TRUE) /\ wuPlugged' = wuPlugged /\ wuSignals' = wuSignals /\ wuPlugs' = wuPlugs
  BY DEF UsbTimeout
<1>2. UsbOK(wusb') /\ wusb'.current = wusb.current /\ wusb'.state = wusb.state
  BY <1>1, UsbHandlerOK DEF WuIInv
<1> QED BY <1>1, <1>2 DEF WuIInv, SignalsOK, Plugged, About

LEMMA UsbScriptEndsOK == ASSUME WuIInv, UsbScriptEnds PROVE WuIInv'
<1> DEFINE d == wusb.dog
           stuck == {}
           fs == {"script"}
           moved == MoveOrCopy(d, fs, stuck)
           list == d.list \ {"script"}
           p == Process(moved, list, {}, {"script"})
<1>1. wusb \in Usb /\ UsbOK(wusb) /\ StickListOK(d) /\ d \in WatchdogState /\ d.running = TRUE
  BY DEF UsbScriptEnds, WuIInv, UsbOK, StickListOK, Usb, WatchdogState
<1>2. wusb' = [wusb EXCEPT !.dog = p] /\ wuPlugged' = wuPlugged /\ wuSignals' = wuSignals /\ wuPlugs' = wuPlugs
  BY DEF UsbScriptEnds, ScriptEnds
<1>3. moved \in WatchdogState /\ moved.given = d.given
  BY <1>1 DEF MoveOrCopy, WatchdogState
<1>4. list \in SUBSET InputFiles /\ \A f \in InputFolder : f \notin list
  BY <1>1 DEF StickListOK, WatchdogState, InputFolder, SortedBeforeScript
<1>5. StickListOK(p)
  <2>1. \A f \in InputFolder : moved.given[f] <= 1
    BY <1>1, <1>3 DEF StickListOK
  <2>2. p = Process(moved, list, {}, {"script"})
    OBVIOUS
  <2> HIDE DEF p, moved, list
  <2> QED BY <1>3, <1>4, <2>1, <2>2, StickPassOK
<1> HIDE DEF p
<1>6. p \in WatchdogState
  BY <1>5 DEF StickListOK
<1>7. wusb' \in Usb /\ wusb'.dog = p /\ wusb'.current = wusb.current /\ wusb'.state = wusb.state
      /\ wusb'.timer = wusb.timer /\ wusb'.mounted = wusb.mounted
  BY <1>1, <1>2, <1>6, Zenon DEF Usb
<1>8. (wusb'.timer = TRUE <=> wusb.timer = TRUE) /\ (wusb'.mounted = TRUE <=> wusb.mounted = TRUE)
  BY <1>7, Zenon
<1>9. UsbOK(wusb')
  BY <1>1, <1>5, <1>7, <1>8 DEF UsbOK
<1> QED BY <1>2, <1>7, <1>9 DEF WuIInv, SignalsOK, Plugged, About

LEMMA WuStepKeeps == WuIInv /\ [WuNext]_wuVars => WuIInv'
<1> SUFFICES ASSUME WuIInv, [WuNext]_wuVars PROVE WuIInv'
  OBVIOUS
<1>1. CASE UNCHANGED wuVars
  BY <1>1 DEF wuVars, WuIInv, SignalsOK, Plugged, About
<1> QED BY <1>1, UsbPlugOK, UsbPullOK, UsbSignalOK, UsbTimeoutOK, UsbScriptEndsOK DEF WuNext

LEMMA WuInvariant == WuSpec => []WuIInv
BY WuInitHolds, WuStepKeeps, PTL DEF WuSpec

(* The state that is told of the stick is true when all signals have been    *)
(* handled, for any number of sticks that come and go in any order.          *)
THEOREM StickStateTrue == WuSpec => []UsbStateTrue
<1>1. WuIInv => UsbStateTrue
  <2> SUFFICES ASSUME WuIInv PROVE UsbStateTrue
    OBVIOUS
  <2>1. UsbOK(wusb)
    BY DEF WuIInv
  <2>2. (wusb.state = "mountedrw" <=> wusb.timer) /\ (wusb.current = NoStick => wusb.state = "nodevice")
    BY <2>1 DEF UsbOK, Usb
  <2>3. ASSUME wuSignals = <<>>, wusb.current # NoStick
        PROVE  wusb.current \in DOMAIN wuPlugged /\ wusb.state = StateOf(wuPlugged[wusb.current])
    <3>1. \A i \in DOMAIN wuSignals : About(i) # wusb.current
      BY <2>3
    <3> QED BY <2>3, <3>1 DEF WuIInv
  <2> QED BY <2>2, <2>3 DEF UsbStateTrue, StateOf
<1> QED BY <1>1, WuInvariant, PTL

(* The input of a stick is given on at most once after it was plugged in.    *)
THEOREM StickInputOnce == WuSpec => []UsbOncePerPlug
<1>1. WuIInv => UsbOncePerPlug
  BY DEF WuIInv, UsbOK, StickListOK, UsbOncePerPlug
<1> QED BY <1>1, WuInvariant, PTL

(* Both watchdogs side by side.                                              *)
THEOREM WatchdogsAlwaysAgree == WlSpec /\ WuSpec => []WatchdogsAgree
BY SmallFilesTakenOnce, StickStateTrue, StickInputOnce, PTL DEF WatchdogsAgree

----------------------------------------------------------------------------
(***************************************************************************)
(* The ring: the entry of k steps ago stands k places before the index,    *)
(* over the beginning of the array.                                        *)
(***************************************************************************)
LogFields == {"ring", "idx", "cnt", "level", "file", "next"}

LogGood(l) ==
    /\ DOMAIN l = LogFields
    /\ Size(l) \in Nat \ {0} /\ l.ring \in [0..(Size(l) - 1) -> 0..(l.next - 1)]
    /\ l.idx \in 0..(Size(l) - 1) /\ l.cnt \in Nat /\ l.level \in Levels
    /\ l.next \in Nat \ {0} /\ l.file \in Seq(1..(l.next - 1))

At(i, n, k) == IF i >= k THEN i - k ELSE i - k + n

RingPlace(l, k) == At(l.idx, Size(l), k)

RingHolds(l, w) ==
    /\ l.cnt = Len(w)
    /\ l.cnt < Size(l) => l.idx = l.cnt
    /\ \A k \in 1..Size(l) : k <= Len(w) => l.ring[RingPlace(l, k)] = w[Len(w) + 1 - k]

\* What waits is in the order of its arrival and not in the file.
Unwritten(l, w) ==
    /\ \A i \in DOMAIN l.file, j \in DOMAIN w : l.file[i] # w[j]
    /\ \A i, j \in DOMAIN l.file : l.file[i] = l.file[j] => i = j

Increasing(w) == \A i, j \in DOMAIN w : i < j => w[i] < w[j]

LgGood(l, w) ==
    /\ LogGood(l) /\ l.next <= EntryLimit + 1
    /\ w \in Seq(1..(l.next - 1)) /\ RingHolds(l, w) /\ Increasing(w)

LgIInv ==
    LgGood(lg, lgWaiting) /\ lgFailed \in BOOLEAN /\ (lgFailed = FALSE => Unwritten(lg, lgWaiting))

LEMMA ModWrap ==
    ASSUME NEW n \in Nat \ {0}, NEW x \in 0..(2 * n - 1)
    PROVE  x % n = IF x < n THEN x ELSE x - n
<1> DEFINE q == x \div n
           r == x % n
<1>1. q \in Int /\ r \in 0..(n - 1) /\ x = n * q + r
  OBVIOUS
<1> HIDE DEF q, r
<1>2. q = 0 \/ q = 1
  <2>1. CASE q >= 2
    <3>1. n * q >= n * 2
      BY <1>1, <2>1
    <3> QED BY <1>1, <3>1
  <2>2. CASE q <= -1
    <3>1. n * q <= -n
      BY <1>1, <2>2
    <3> QED BY <1>1, <3>1
  <2> QED BY <1>1, <2>1, <2>2
<1>3. CASE q = 0
  <2>1. n * q = 0
    BY <1>3
  <2> QED BY <1>1, <2>1 DEF r
<1>4. CASE q = 1
  <2>1. n * q = n
    BY <1>4
  <2> QED BY <1>1, <2>1 DEF r
<1> QED BY <1>2, <1>3, <1>4

LEMMA AtMoves ==
    ASSUME NEW n \in Nat \ {0}, NEW i \in 0..(n - 1), NEW j, j = IF i + 1 = n THEN 0 ELSE i + 1, NEW k \in 1..n
    PROVE  /\ k = 1 => At(j, n, k) = i
           /\ k # 1 => At(j, n, k) = At(i, n, k - 1) /\ At(j, n, k) # i /\ At(j, n, k) \in 0..(n - 1)
BY DEF At

LEMMA SizeIs ==
    ASSUME NEW l, NEW n \in Nat \ {0}, DOMAIN l.ring = 0..(n - 1)
    PROVE  Size(l) = n
<1>1. 0 \in Int /\ n - 1 \in Int /\ ~(0 > n - 1) /\ (n - 1) - 0 + 1 = n
  OBVIOUS
<1>2. Cardinality(0..(n - 1)) = IF 0 > n - 1 THEN 0 ELSE (n - 1) - 0 + 1
  BY <1>1, FS_Interval
<1>3. Cardinality(0..(n - 1)) = n
  BY <1>1, <1>2
<1> QED BY <1>3 DEF Size

LEMMA OneMore ==
    ASSUME NEW n \in Nat \ {0}, NEW s \in Seq(1..(n - 1))
    PROVE  s \in Seq(1..n)
<1> DEFINE A == 1..(n - 1)
           B == 1..n
<1>1. A \subseteq B /\ s \in Seq(A)
  OBVIOUS
<1> HIDE DEF A, B
<1>2. s \in Seq(B)
  BY <1>1, SeqMonotonic
<1> QED BY <1>2 DEF B

LEMMA GoodIsState == ASSUME NEW l, LogGood(l) PROVE LogState(l)
<1>1. DOMAIN l.ring = 0..(Size(l) - 1) /\ \A i \in DOMAIN l.ring : l.ring[i] \in 0..(l.next - 1)
  BY DEF LogGood
<1>2. \A i \in DOMAIN l.file : l.file[i] \in 1..(l.next - 1)
  <2> DEFINE A == 1..(l.next - 1)
  <2>1. l.file \in Seq(A)
    BY DEF LogGood
  <2> HIDE DEF A
  <2>2. \A i \in DOMAIN l.file : l.file[i] \in A
    BY <2>1
  <2> QED BY <2>2 DEF A
<1> QED BY <1>1, <1>2 DEF LogGood, LogState, LogFields

Inserted(l, q) ==
    /\ LogGood(q) /\ Size(q) = Size(l)
    /\ q.idx = IF l.idx + 1 = Size(l) THEN 0 ELSE l.idx + 1
    /\ q.cnt = l.cnt + 1 /\ q.next = l.next + 1 /\ q.level = l.level /\ q.file = l.file
    /\ \A i \in 0..(Size(l) - 1) : q.ring[i] = IF i = l.idx THEN l.next ELSE l.ring[i]

LEMMA InsertOK == ASSUME NEW l, LogGood(l), NEW q, q = Insert(l) PROVE Inserted(l, q)
<1> DEFINE n == Size(l)
           idx == (l.idx + 1) % n
           ring == [l.ring EXCEPT ![l.idx] = l.next]
<1>1. n \in Nat \ {0} /\ l.idx \in 0..(n - 1) /\ l.next \in Nat \ {0} /\ l.cnt \in Nat
      /\ l.ring \in [0..(n - 1) -> 0..(l.next - 1)] /\ DOMAIN l = LogFields /\ l.level \in Levels
      /\ l.file \in Seq(1..(l.next - 1))
  BY DEF LogGood
<1>2. q = [l EXCEPT !.ring = ring, !.idx = idx, !.cnt = l.cnt + 1, !.next = l.next + 1]
  BY DEF Insert
<1>3. idx = IF l.idx + 1 = n THEN 0 ELSE l.idx + 1
  <2> DEFINE x == l.idx + 1
  <2>1. x \in 0..(2 * n - 1) /\ x <= n /\ x \in Nat /\ n \in Nat \ {0}
    BY <1>1
  <2> HIDE DEF x, n
  <2>2. x % n = IF x < n THEN x ELSE x - n
    BY <2>1, ModWrap
  <2> QED BY <2>1, <2>2 DEF x
<1>4. ring \in [0..(n - 1) -> 0..l.next] /\ \A i \in 0..(n - 1) : ring[i] = IF i = l.idx THEN l.next ELSE l.ring[i]
  BY <1>1
<1> HIDE DEF idx, ring, n
<1>5. DOMAIN q = LogFields /\ q.ring = ring /\ q.idx = idx /\ q.cnt = l.cnt + 1 /\ q.next = l.next + 1
      /\ q.level = l.level /\ q.file = l.file
  BY <1>1, <1>2 DEF LogFields
<1>6. Size(q) = n
  BY <1>1, <1>4, <1>5, SizeIs
<1>7. q.next - 1 = l.next /\ q.file \in Seq(1..l.next)
  <2> QED BY <1>1, <1>5, OneMore
<1>8. LogGood(q)
  <2>1. Size(q) \in Nat \ {0} /\ q.idx \in 0..(Size(q) - 1) /\ q.cnt \in Nat /\ q.next \in Nat \ {0}
        /\ q.level \in Levels
    <3>1. idx \in 0..(n - 1)
      BY <1>1, <1>3
    <3> QED BY <1>1, <1>5, <1>6, <3>1
  <2>2. q.ring \in [0..(Size(q) - 1) -> 0..(q.next - 1)] /\ q.file \in Seq(1..(q.next - 1))
    BY <1>4, <1>5, <1>6, <1>7
  <2> QED BY <1>5, <2>1, <2>2 DEF LogGood
<1> QED BY <1>3, <1>4, <1>5, <1>6, <1>8 DEF Inserted, n

LEMMA InsertHolds ==
    ASSUME NEW l, LogGood(l), NEW w \in Seq(1..(l.next - 1)), RingHolds(l, w), NEW q, q = Insert(l),
           NEW v, v = Append(w, l.next)
    PROVE  RingHolds(q, v) /\ v \in Seq(1..l.next) /\ Len(v) = Len(w) + 1 /\ v[Len(w) + 1] = l.next
           /\ \A i \in 1..Len(w) : v[i] = w[i]
<1>1. Inserted(l, q)
  BY InsertOK
<1>2. Size(l) \in Nat \ {0} /\ l.idx \in 0..(Size(l) - 1) /\ l.next \in Nat \ {0} /\ l.cnt \in Nat
  BY DEF LogGood
<1>3. v \in Seq(1..l.next) /\ Len(v) = Len(w) + 1 /\ v[Len(w) + 1] = l.next /\ \A i \in 1..Len(w) : v[i] = w[i]
  <2>1. w \in Seq(1..l.next)
    BY <1>2, OneMore
  <2>2. l.next \in 1..l.next
    BY <1>2
  <2> QED BY <2>1, <2>2, AppendProperties
<1>4. Len(w) \in Nat
  BY LenProperties
<1>5. q.cnt = Len(v) /\ (q.cnt < Size(q) => q.idx = q.cnt)
  BY <1>1, <1>2, <1>3, <1>4 DEF Inserted, RingHolds
<1>6. ASSUME NEW k \in 1..Size(q), k <= Len(v) PROVE q.ring[RingPlace(q, k)] = v[Len(v) + 1 - k]
  <2>0. /\ k = 1 => RingPlace(q, k) = l.idx
        /\ k # 1 => RingPlace(q, k) = RingPlace(l, k - 1) /\ RingPlace(q, k) # l.idx /\ RingPlace(q, k) \in 0..(Size(l) - 1)
    <3>1. k \in 1..Size(l) /\ Size(q) = Size(l) /\ q.idx = IF l.idx + 1 = Size(l) THEN 0 ELSE l.idx + 1
      BY <1>1 DEF Inserted
    <3> DEFINE n == Size(l)
               i == l.idx
               j == q.idx
    <3>2. n \in Nat \ {0} /\ i \in 0..(n - 1) /\ j = (IF i + 1 = n THEN 0 ELSE i + 1) /\ k \in 1..n
      BY <1>2, <3>1
    <3> HIDE DEF n, i, j
    <3>3. /\ k = 1 => At(j, n, k) = i
          /\ k # 1 => At(j, n, k) = At(i, n, k - 1) /\ At(j, n, k) # i /\ At(j, n, k) \in 0..(n - 1)
      BY <3>2, AtMoves
    <3> QED BY <3>1, <3>3 DEF RingPlace, n, i, j
  <2>1. CASE k = 1
    <3>1. RingPlace(q, k) = l.idx
      BY <2>0, <2>1
    <3> QED BY <1>1, <1>2, <1>3, <1>4, <2>1, <3>1 DEF Inserted
  <2>2. CASE k # 1
    <3>1. k - 1 \in 1..Size(l) /\ k - 1 <= Len(w)
      BY <1>1, <1>2, <1>3, <1>4, <1>6, <2>2 DEF Inserted
    <3>2. RingPlace(q, k) = RingPlace(l, k - 1) /\ RingPlace(q, k) # l.idx /\ RingPlace(q, k) \in 0..(Size(l) - 1)
      BY <2>0, <2>2
    <3>3. l.ring[RingPlace(l, k - 1)] = w[Len(w) + 1 - (k - 1)]
      BY <3>1 DEF RingHolds
    <3>4. Len(w) + 1 - (k - 1) = Len(v) + 1 - k /\ Len(v) + 1 - k \in 1..Len(w)
      <4>1. Len(v) = Len(w) + 1 /\ k \in 1..Size(q) /\ k <= Len(v) /\ Size(q) \in Nat
        BY <1>1, <1>2, <1>3, <1>6 DEF Inserted
      <4> QED BY <1>4, <2>2, <4>1
    <3> QED BY <1>1, <1>3, <3>2, <3>3, <3>4 DEF Inserted
  <2> QED BY <2>1, <2>2
<1> QED BY <1>3, <1>5, <1>6 DEF RingHolds

(***************************************************************************)
(* What flush() writes.                                                    *)
(***************************************************************************)
Newest(l, w) ==
    LET n == IF Len(w) < Size(l) THEN Len(w) ELSE Size(l) IN SubSeq(w, Len(w) - n + 1, Len(w))

NewestSize(l, w) == IF Len(w) < Size(l) THEN Len(w) ELSE Size(l)

LEMMA NewestOK ==
    ASSUME NEW l, LogGood(l), NEW m \in Nat, NEW w \in Seq(1..m)
    PROVE  /\ NewestSize(l, w) \in Nat /\ NewestSize(l, w) <= Len(w)
           /\ Newest(l, w) \in Seq(1..m) /\ Len(Newest(l, w)) = NewestSize(l, w)
           /\ \A i \in 1..NewestSize(l, w) : Newest(l, w)[i] = w[Len(w) - NewestSize(l, w) + i]
<1> DEFINE n == NewestSize(l, w)
<1>1. Size(l) \in Nat \ {0} /\ Len(w) \in Nat
  BY LenProperties DEF LogGood
<1>2. n \in Nat /\ n <= Len(w)
  BY <1>1 DEF NewestSize
<1>3. Newest(l, w) = SubSeq(w, Len(w) - n + 1, Len(w))
  BY DEF Newest, NewestSize
<1> HIDE DEF n
<1>4. \A i \in (Len(w) - n + 1)..Len(w) : w[i] \in 1..m
  BY <1>1, <1>2, ElementOfSeq
<1>5. SubSeq(w, Len(w) - n + 1, Len(w)) \in Seq(1..m) /\ Len(SubSeq(w, Len(w) - n + 1, Len(w))) = n
      /\ \A i \in 1..n : SubSeq(w, Len(w) - n + 1, Len(w))[i] = w[Len(w) - n + i]
  <2>1. Len(w) - n + 1 \in Int /\ Len(w) \in Int /\ Len(w) - (Len(w) - n + 1) + 1 = n
        /\ \A i \in 1..n : (Len(w) - n + 1) + i - 1 = Len(w) - n + i
    BY <1>1, <1>2
  <2> DEFINE f == Len(w) - n + 1
             e == Len(w)
             s == SubSeq(w, f, e)
             S == 1..m
  <2>2. f \in Int /\ e \in Int /\ e - f + 1 = n /\ \A i \in f..e : w[i] \in S
    BY <1>4, <2>1
  <2>3. f \in 1..(e + 1)
    BY <1>1, <1>2
  <2>5. \A i \in 1..n : w[f + i - 1] = w[e - n + i]
    BY <1>1, <1>2
  <2>6. w \in Seq(S)
    OBVIOUS
  <2> HIDE DEF f, S
  <2>4. s \in Seq(S) /\ Len(s) = (IF f <= e THEN e - f + 1 ELSE 0) /\ \A i \in 1..(e - f + 1) : s[i] = w[f + i - 1]
    BY <2>2, <2>3, <2>6, SubSeqProperties
  <2> QED BY <1>1, <1>2, <2>2, <2>3, <2>4, <2>5 DEF f, S
<1> QED BY <1>2, <1>3, <1>5 DEF n

LEMMA ContentsOK ==
    ASSUME NEW l, LogGood(l), NEW m \in Nat, NEW w \in Seq(1..m), RingHolds(l, w)
    PROVE  Contents(l) = Newest(l, w)
<1> DEFINE n == IF Len(w) < Size(l) THEN Len(w) ELSE Size(l)
           start == IF l.cnt >= Size(l) THEN l.idx ELSE 0
<1>1. Size(l) \in Nat \ {0} /\ l.idx \in 0..(Size(l) - 1) /\ Len(w) \in Nat /\ l.cnt = Len(w)
      /\ (l.cnt < Size(l) => l.idx = l.cnt)
  BY LenProperties DEF LogGood, RingHolds
<1>2. n \in Nat /\ n <= Len(w) /\ n <= Size(l)
  BY <1>1
<1>3. Contents(l) = [i \in 1..n |-> l.ring[(start + i - 1) % n]]
  BY <1>1 DEF Contents
<1>4. ASSUME NEW i \in 1..n PROVE l.ring[(start + i - 1) % n] = w[Len(w) - n + i]
  <2>1. (start + i - 1) % n = RingPlace(l, n + 1 - i)
    <3>1. CASE l.cnt < Size(l)
      <4>1. i - 1 \in 0..(2 * n - 1) /\ i - 1 < n /\ n \in Nat \ {0} /\ start + i - 1 = i - 1 /\ n = l.idx
        BY <1>1, <1>2, <3>1
      <4>2. (i - 1) % n = i - 1
        BY <4>1, ModWrap
      <4> QED BY <1>1, <4>1, <4>2 DEF RingPlace, At
    <3>2. CASE l.cnt >= Size(l)
      <4>1. n = Size(l) /\ start = l.idx
        BY <1>1, <3>2
      <4>2. l.idx + i - 1 \in 0..(2 * n - 1) /\ n \in Nat \ {0}
        BY <1>1, <4>1
      <4> DEFINE x == l.idx + i - 1
      <4>3. x % n = IF x < n THEN x ELSE x - n
        <5>1. x \in 0..(2 * n - 1) /\ n \in Nat \ {0}
          BY <4>2
        <5> HIDE DEF x, n
        <5> QED BY <5>1, ModWrap
      <4>4. x = l.idx + i - 1 /\ start + i - 1 = x /\ i \in Int /\ n \in Int /\ l.idx \in Int
        BY <1>1, <1>2, <4>1
      <4> HIDE DEF n, start, x
      <4> QED BY <4>1, <4>3, <4>4 DEF RingPlace, At
    <3> QED BY <1>1, <3>1, <3>2
  <2>2. n + 1 - i \in 1..Size(l) /\ n + 1 - i <= Len(w) /\ Len(w) + 1 - (n + 1 - i) = Len(w) - n + i
    BY <1>1, <1>2
  <2> HIDE DEF n
  <2> QED BY <2>1, <2>2 DEF RingHolds
<1>7. n = NewestSize(l, w)
  BY DEF NewestSize
<1> HIDE DEF n, start
<1>8. Contents(l) \in Seq(1..m) /\ Len(Contents(l)) = n /\ \A i \in 1..n : Contents(l)[i] = w[Len(w) - n + i]
  <2>1. \A i \in 1..n : l.ring[(start + i - 1) % n] \in 1..m
    <3> SUFFICES ASSUME NEW i \in 1..n PROVE w[Len(w) - n + i] \in 1..m
      BY <1>4
    <3>1. Len(w) - n + i \in 1..Len(w)
      BY <1>1, <1>2
    <3> QED BY <3>1, ElementOfSeq
  <2> DEFINE f == [i \in 1..n |-> l.ring[(start + i - 1) % n]]
  <2>2. \A i \in 1..n : f[i] = w[Len(w) - n + i]
    BY <1>4
  <2>3. f \in [1..n -> 1..m]
    BY <2>1
  <2>4. f \in Seq(1..m) /\ Len(f) = n
    BY <1>2, <2>3
  <2> QED BY <1>3, <2>2, <2>4
<1>9. Newest(l, w) \in Seq(1..m) /\ Len(Newest(l, w)) = n /\ \A i \in 1..n : Newest(l, w)[i] = w[Len(w) - n + i]
  BY <1>7, NewestOK
<1> QED BY <1>8, <1>9, SeqEqual

(***************************************************************************)
(* One entry.                                                              *)
(***************************************************************************)
Flushed(l, q) ==
    /\ LogGood(q) /\ Size(q) = Size(l)
    /\ q.idx = 0 /\ q.cnt = 0 /\ q.next = l.next /\ q.level = l.level /\ q.file = l.file \o Contents(l)

\* What the ring gives are entries that have come.
LEMMA FlushOK ==
    ASSUME NEW l, LogGood(l), NEW q, q = Flush(l), Contents(l) \in Seq(1..(l.next - 1))
    PROVE  Flushed(l, q)
<1> DEFINE A == 1..(l.next - 1)
           file == l.file \o Contents(l)
<1>1. DOMAIN l = LogFields /\ l.file \in Seq(A) /\ Contents(l) \in Seq(A)
  BY DEF LogGood
<1>2. q = [l EXCEPT !.file = file, !.idx = 0, !.cnt = 0]
  BY DEF Flush
<1>3. file \in Seq(A)
  BY <1>1, ConcatProperties
<1> HIDE DEF file
<1>4. DOMAIN q = LogFields /\ q.ring = l.ring /\ q.idx = 0 /\ q.cnt = 0 /\ q.next = l.next /\ q.level = l.level
      /\ q.file = file
  BY <1>1, <1>2 DEF LogFields
<1>5. Size(q) = Size(l)
  BY <1>4 DEF Size
<1>6. 0 \in 0..(Size(l) - 1)
  BY DEF LogGood
<1> HIDE DEF A
<1> QED BY <1>3, <1>4, <1>5, <1>6 DEF Flushed, LogGood, A, file

LEMMA WriteOK ==
    ASSUME NEW l, LogGood(l), NEW q, q = Write(l)
    PROVE  LogGood(q) /\ Size(q) = Size(l) /\ q.idx = l.idx /\ q.cnt = l.cnt /\ q.next = l.next + 1
           /\ q.level = l.level /\ q.file = Append(l.file, l.next) /\ q.ring = l.ring
<1> DEFINE A == 1..l.next
           file == Append(l.file, l.next)
<1>1. DOMAIN l = LogFields /\ l.next \in Nat \ {0} /\ l.file \in Seq(1..(l.next - 1))
  BY DEF LogGood
<1>2. q = [l EXCEPT !.file = file, !.next = l.next + 1]
  BY DEF Write
<1>3. file \in Seq(A)
  <2>1. l.file \in Seq(A) /\ l.next \in A
    BY <1>1, OneMore
  <2> HIDE DEF A
  <2> QED BY <2>1, AppendProperties
<1> HIDE DEF file
<1>4. DOMAIN q = LogFields /\ q.ring = l.ring /\ q.idx = l.idx /\ q.cnt = l.cnt /\ q.next = l.next + 1
      /\ q.level = l.level /\ q.file = file
  BY <1>1, <1>2 DEF LogFields
<1>5. Size(q) = Size(l)
  BY <1>4 DEF Size
<1> HIDE DEF A
<1>6. q.next - 1 = l.next /\ q.next \in Nat \ {0}
  <2>1. q.next = l.next + 1 /\ l.next \in Nat
    BY <1>1, <1>4
  <2> QED BY <2>1
<1>7. q.ring \in [0..(Size(l) - 1) -> 0..(q.next - 1)]
  <2>1. \A i \in 0..(Size(l) - 1) : l.ring[i] \in 0..l.next
    BY <1>1 DEF LogGood
  <2> QED BY <1>4, <1>6, <2>1 DEF LogGood
<1> QED BY <1>3, <1>4, <1>5, <1>6, <1>7 DEF LogGood, file, A

LEMMA EmptyHolds ==
    ASSUME NEW l, LogGood(l), l.idx = 0, l.cnt = 0
    PROVE  RingHolds(l, <<>>)
BY DEF RingHolds, LogGood

\* A log whose ring is what has waited, whatever that was.
RingOK(l) == LogGood(l) /\ \E w \in Seq(1..(l.next - 1)) : RingHolds(l, w)

LEMMA RingContents ==
    ASSUME NEW l, LogGood(l), NEW w \in Seq(1..(l.next - 1)), RingHolds(l, w)
    PROVE  Contents(l) = Newest(l, w) /\ Contents(l) \in Seq(1..(l.next - 1))
<1>1. l.next - 1 \in Nat
  BY DEF LogGood
<1> DEFINE m == l.next - 1
<1>2. m \in Nat /\ w \in Seq(1..m)
  BY <1>1
<1> HIDE DEF m
<1>3. Contents(l) = Newest(l, w) /\ Newest(l, w) \in Seq(1..m)
  BY <1>2, ContentsOK, NewestOK
<1> QED BY <1>3 DEF m

LEMMA FlushKeeps ==
    ASSUME NEW l, RingOK(l), NEW q, q = Flush(l)
    PROVE  RingOK(q) /\ Flushed(l, q)
<1>1. PICK w \in Seq(1..(l.next - 1)) : RingHolds(l, w)
  BY DEF RingOK
<1>2. Contents(l) \in Seq(1..(l.next - 1)) /\ LogGood(l)
  BY <1>1, RingContents DEF RingOK
<1>3. Flushed(l, q)
  BY <1>2, FlushOK
<1>4. RingHolds(q, <<>>) /\ LogGood(q)
  BY <1>3, EmptyHolds DEF Flushed
<1>5. <<>> \in Seq(1..(q.next - 1))
  OBVIOUS
<1> QED BY <1>3, <1>4, <1>5 DEF RingOK

LEMMA InsertKeeps ==
    ASSUME NEW l, RingOK(l), NEW q, q = Insert(l)
    PROVE  RingOK(q) /\ Inserted(l, q)
<1>1. PICK w \in Seq(1..(l.next - 1)) : RingHolds(l, w)
  BY DEF RingOK
<1>2. Inserted(l, q)
  BY InsertOK DEF RingOK
<1> DEFINE v == Append(w, l.next)
<1>3. RingHolds(q, v) /\ v \in Seq(1..l.next)
  <2> HIDE DEF v
  <2>1. v = Append(w, l.next)
    BY DEF v
  <2> QED BY <1>1, <2>1, InsertHolds DEF RingOK
<1> HIDE DEF v
<1>4. q.next - 1 = l.next
  BY <1>2 DEF Inserted, RingOK, LogGood
<1> QED BY <1>2, <1>3, <1>4 DEF RingOK, Inserted

LEMMA LogEntryOK ==
    ASSUME NEW l, RingOK(l), NEW level \in Levels, NEW q, q = LogEntry(l, level)
    PROVE  RingOK(q) /\ q.level = l.level
<1>0. l.level \in Int /\ level \in Int /\ Error \in Int
  BY DEF RingOK, LogGood, Levels, Error
<1>1. CASE level < l.level
  <2>1. q = Insert(l)
    BY <1>0, <1>1 DEF LogEntry
  <2> QED BY <2>1, InsertKeeps DEF Inserted
<1>2. CASE level >= l.level /\ level >= Error
  <2> DEFINE in == Insert(l)
  <2>1. q = Flush(in)
    BY <1>0, <1>2 DEF LogEntry
  <2>2. RingOK(in) /\ Inserted(l, in)
    BY InsertKeeps
  <2> HIDE DEF in
  <2>3. RingOK(q) /\ Flushed(in, q)
    BY <2>1, <2>2, FlushKeeps
  <2> QED BY <2>2, <2>3 DEF Inserted, Flushed
<1>3. CASE ~(level < l.level) /\ ~(level >= Error)
  <2>1. q = Write(l)
    BY <1>0, <1>3 DEF LogEntry
  <2>2. PICK w \in Seq(1..(l.next - 1)) : RingHolds(l, w)
    BY DEF RingOK
  <2>3. LogGood(q) /\ Size(q) = Size(l) /\ q.idx = l.idx /\ q.cnt = l.cnt /\ q.next = l.next + 1
        /\ q.level = l.level /\ q.ring = l.ring
    BY <2>1, WriteOK DEF RingOK
  <2>4. RingHolds(q, w)
    BY <2>2, <2>3 DEF RingHolds, RingPlace
  <2>5. w \in Seq(1..l.next) /\ q.next - 1 = l.next
    BY <2>3, OneMore DEF RingOK, LogGood
  <2> QED BY <2>3, <2>4, <2>5 DEF RingOK
<1> QED BY <1>0, <1>1, <1>2, <1>3

(***************************************************************************)
(* The log by itself: what is in the file is not written again.            *)
(***************************************************************************)
LEMMA InsertUnwritten ==
    ASSUME NEW l, LogGood(l), NEW w \in Seq(1..(l.next - 1)), Increasing(w), NEW q, q.file = l.file,
           NEW v \in Seq(1..l.next), Len(v) = Len(w) + 1, v[Len(w) + 1] = l.next, \A i \in 1..Len(w) : v[i] = w[i]
    PROVE  Increasing(v) /\ (Unwritten(l, w) => Unwritten(q, v))
<1> DEFINE n == Len(w)
<1>1. n \in Nat /\ DOMAIN w = 1..n /\ DOMAIN v = 1..(n + 1) /\ l.next \in Nat \ {0}
  BY LenProperties DEF LogGood
<1>2. \A i \in 1..n : w[i] \in 1..(l.next - 1)
  BY <1>1, ElementOfSeq
<1>3. \A i \in 1..n : w[i] \in Int /\ w[i] < l.next
  BY <1>1, <1>2
<1>4. \A i \in DOMAIN l.file : l.file[i] \in Int /\ l.file[i] < l.next
  <2>1. l.file \in Seq(1..(l.next - 1)) /\ DOMAIN l.file = 1..Len(l.file)
    BY LenProperties DEF LogGood
  <2>2. \A i \in DOMAIN l.file : l.file[i] \in 1..(l.next - 1)
    BY <2>1, ElementOfSeq
  <2> QED BY <1>1, <2>2
<1> HIDE DEF n
<1>5. Increasing(v)
  <2> SUFFICES ASSUME NEW i \in 1..(n + 1), NEW j \in 1..(n + 1), i < j PROVE v[i] < v[j]
    BY <1>1 DEF Increasing
  <2>1. i \in 1..n /\ v[i] = w[i]
    BY <1>1 DEF n
  <2>2. CASE j \in 1..n
    BY <1>1, <2>1, <2>2 DEF Increasing, n
  <2>3. CASE j = n + 1
    BY <1>3, <2>1, <2>3 DEF n
  <2>4. j \in 1..n \/ j = n + 1
    BY <1>1
  <2> QED BY <2>2, <2>3, <2>4
<1>6. ASSUME Unwritten(l, w), NEW i \in DOMAIN l.file, NEW j \in 1..(n + 1) PROVE l.file[i] # v[j]
  <2>1. CASE j \in 1..n
    BY <1>1, <1>6, <2>1 DEF Unwritten, n
  <2>2. CASE j = n + 1
    BY <1>4, <2>2 DEF n
  <2> QED BY <1>1, <2>1, <2>2
<1> QED BY <1>1, <1>5, <1>6 DEF Unwritten, Increasing

LEMMA FlushUnwritten ==
    ASSUME NEW l, LogGood(l), NEW w \in Seq(1..(l.next - 1)), Unwritten(l, w), Increasing(w), Contents(l) = Newest(l, w),
           NEW q, q.file = l.file \o Contents(l)
    PROVE  Unwritten(q, <<>>)
<1> DEFINE A == 1..(l.next - 1)
           c == Contents(l)
           m == Len(l.file)
           k == Len(c)
           d == Len(w) - k
<1>1. /\ k \in Nat /\ k <= Len(w) /\ c \in Seq(A)
      /\ \A i \in 1..k : c[i] = w[d + i]
  <2>1. l.next - 1 \in Nat
    BY DEF LogGood
  <2>2. /\ NewestSize(l, w) \in Nat /\ NewestSize(l, w) <= Len(w)
        /\ Newest(l, w) \in Seq(1..(l.next - 1)) /\ Len(Newest(l, w)) = NewestSize(l, w)
        /\ \A i \in 1..NewestSize(l, w) : Newest(l, w)[i] = w[Len(w) - NewestSize(l, w) + i]
    <3> DEFINE max == l.next - 1
    <3>1. max \in Nat /\ w \in Seq(1..max)
      BY <2>1
    <3> HIDE DEF max
    <3>2. /\ NewestSize(l, w) \in Nat /\ NewestSize(l, w) <= Len(w)
          /\ Newest(l, w) \in Seq(1..max) /\ Len(Newest(l, w)) = NewestSize(l, w)
          /\ \A i \in 1..NewestSize(l, w) : Newest(l, w)[i] = w[Len(w) - NewestSize(l, w) + i]
      BY <3>1, NewestOK
    <3> QED BY <3>2 DEF max
  <2> QED BY <2>2
<1>2. Len(w) \in Nat /\ DOMAIN w = 1..Len(w) /\ d \in Nat
  BY <1>1, LenProperties
<1>3. l.file \in Seq(A) /\ m \in Nat /\ DOMAIN l.file = 1..m
  BY LenProperties DEF LogGood
<1> HIDE DEF A, c
<1>4. q.file \in Seq(A) /\ Len(q.file) = m + k
      /\ \A i \in 1..(m + k) : q.file[i] = IF i <= m THEN l.file[i] ELSE c[i - m]
  BY <1>1, <1>3, ConcatProperties DEF c
<1>5. DOMAIN q.file = 1..(m + k)
  BY <1>4, LenProperties
<1> HIDE DEF m, k, d
<1>6. ASSUME NEW i \in 1..(m + k), NEW j \in 1..(m + k), i < j PROVE q.file[i] # q.file[j]
  <2>0. m \in Nat /\ k \in Nat /\ d \in Nat /\ Len(w) = d + k
    BY <1>1, <1>2, <1>3 DEF k, d
  <2>1. CASE j <= m
    <3>1. i \in DOMAIN l.file /\ j \in DOMAIN l.file /\ q.file[i] = l.file[i] /\ q.file[j] = l.file[j] /\ i # j
      BY <1>3, <1>4, <1>6, <2>0, <2>1
    <3> QED BY <3>1 DEF Unwritten
  <2>2. CASE i <= m /\ ~(j <= m)
    <3>1. j - m \in 1..k /\ d + (j - m) \in DOMAIN w /\ i \in DOMAIN l.file
      BY <1>2, <1>3, <1>6, <2>0, <2>2
    <3>2. q.file[j] = w[d + (j - m)] /\ q.file[i] = l.file[i]
      BY <1>1, <1>4, <2>2, <3>1 DEF k, d
    <3> QED BY <3>1, <3>2 DEF Unwritten
  <2>3. CASE ~(i <= m)
    <3>1. i - m \in 1..k /\ j - m \in 1..k /\ d + (i - m) \in DOMAIN w /\ d + (j - m) \in DOMAIN w
          /\ d + (i - m) < d + (j - m) /\ ~(j <= m)
      BY <1>2, <1>3, <1>6, <2>0, <2>3
    <3>2. q.file[j] = w[d + (j - m)] /\ q.file[i] = w[d + (i - m)]
      BY <1>1, <1>4, <2>3, <3>1 DEF k, d
    <3>3. \A x \in DOMAIN w : w[x] \in Int
      <4>1. \A x \in DOMAIN w : w[x] \in 1..(l.next - 1)
        BY <1>2, ElementOfSeq
      <4> QED BY <4>1 DEF LogGood
    <3>4. w[d + (i - m)] < w[d + (j - m)]
      BY <3>1 DEF Increasing
    <3> QED BY <3>1, <3>2, <3>3, <3>4
  <2> QED BY <2>1, <2>2, <2>3
<1>7. \A i, j \in DOMAIN q.file : q.file[i] = q.file[j] => i = j
  <2> SUFFICES ASSUME NEW i \in 1..(m + k), NEW j \in 1..(m + k), i # j PROVE q.file[i] # q.file[j]
    BY <1>5
  <2>1. i < j \/ j < i
    BY <1>1, <1>3 DEF m, k
  <2> QED BY <1>6, <2>1
<1> QED BY <1>7 DEF Unwritten

LEMMA LgInitHolds == LgInit => LgIInv
<1> SUFFICES ASSUME LgInit PROVE LgIInv
  OBVIOUS
<1> DEFINE n == DefaultSize
<1>1. lg = [ring |-> Ring(n), idx |-> 0, cnt |-> 0, level |-> Warning, file |-> <<>>, next |-> 1]
      /\ lgWaiting = <<>> /\ lgFailed = FALSE /\ n \in Nat \ {0} /\ EntryLimit \in Nat
  BY SystemLogConstants DEF LgInit, Opened
<1>2. Ring(n) \in [0..(n - 1) -> 0..0] /\ DOMAIN Ring(n) = 0..(n - 1)
  BY DEF Ring
<1> HIDE DEF n
<1>3. lg.ring = Ring(n) /\ lg.idx = 0 /\ lg.cnt = 0 /\ lg.level = 2 /\ lg.file = <<>> /\ lg.next = 1
      /\ DOMAIN lg = LogFields
  BY <1>1 DEF LogFields, Warning
<1>4. Size(lg) = n
  BY <1>1, <1>2, <1>3, SizeIs
<1>5. lg.next - 1 = 0 /\ 2 \in Levels /\ 0 \in 0..(n - 1) /\ <<>> \in Seq(1..0)
  BY <1>1, <1>3 DEF Levels
<1>6. LogGood(lg)
  BY <1>1, <1>2, <1>3, <1>4, <1>5 DEF LogGood
<1>7. RingHolds(lg, <<>>)
  BY <1>3, <1>6, EmptyHolds
<1>8. Unwritten(lg, <<>>) /\ lgWaiting \in Seq(1..(lg.next - 1))
  BY <1>1, <1>3, <1>5 DEF Unwritten
<1>9. LgGood(lg, <<>>)
  <2>1. <<>> \in Seq(1..(lg.next - 1)) /\ Increasing(<<>>)
    BY DEF Increasing
  <2> QED BY <1>1, <1>3, <1>6, <1>7, <2>1 DEF LgGood
<1> QED BY <1>1, <1>8, <1>9 DEF LgIInv

LEMMA LgLogOK == ASSUME LgIInv, NEW level \in Levels, LgLog(level) PROVE LgIInv'
<1> DEFINE in == Insert(lg)
           w == lgWaiting
           v == Append(w, lg.next)
<1>0. /\ LogGood(lg) /\ RingHolds(lg, w) /\ w \in Seq(1..(lg.next - 1)) /\ Increasing(w) /\ RingOK(lg)
      /\ lg.level \in Int /\ level \in Int /\ Error \in Int /\ lg.next \in Nat \ {0} /\ EntryLimit \in Nat
      /\ lgFailed \in BOOLEAN /\ (lgFailed = FALSE => Unwritten(lg, w)) /\ lg.next <= EntryLimit /\ lgFailed' = lgFailed
      /\ lg' = LogEntry(lg, level)
  <2>1. LogGood(lg) /\ RingHolds(lg, w) /\ w \in Seq(1..(lg.next - 1)) /\ Increasing(w)
        /\ lgFailed \in BOOLEAN /\ (lgFailed = FALSE => Unwritten(lg, w))
    BY DEF LgIInv, LgGood
  <2>2. lg.next <= EntryLimit /\ lgFailed' = lgFailed /\ lg' = LogEntry(lg, level)
    BY DEF LgLog
  <2>3. lg.level \in Int /\ level \in Int /\ Error \in Int /\ lg.next \in Nat \ {0} /\ EntryLimit \in Nat
    BY <2>1, SystemLogConstants DEF LogGood, Levels, Error
  <2> QED BY <2>1, <2>2, <2>3 DEF RingOK
<1>1. Inserted(lg, in)
  BY <1>0, InsertOK
<1>2. RingHolds(in, v) /\ v \in Seq(1..lg.next) /\ Len(v) = Len(w) + 1 /\ v[Len(w) + 1] = lg.next
      /\ (\A i \in 1..Len(w) : v[i] = w[i]) /\ in.next = lg.next + 1 /\ in.file = lg.file /\ LogGood(in)
      /\ lg.next = in.next - 1
  <2>1. in = Insert(lg) /\ v = Append(w, lg.next)
    OBVIOUS
  <2> HIDE DEF in, v
  <2>2. RingHolds(in, v) /\ v \in Seq(1..lg.next) /\ Len(v) = Len(w) + 1 /\ v[Len(w) + 1] = lg.next
      /\ (\A i \in 1..Len(w) : v[i] = w[i])
    BY <1>0, <2>1, InsertHolds
  <2> QED BY <1>0, <1>1, <2>2 DEF Inserted
<1> HIDE DEF in, v
<1>3. Increasing(v) /\ (lgFailed = FALSE => Unwritten(in, v))
  <2>1. Increasing(v) /\ (Unwritten(lg, w) => Unwritten(in, v))
    <3> HIDE DEF w
    <3> QED BY <1>0, <1>2, InsertUnwritten
  <2> QED BY <1>0, <2>1
<1>4. CASE level < lg.level
  <2>1. lg' = in /\ lgWaiting' = v
    BY <1>0, <1>4 DEF LogEntry, LgLog, Waits, in, v
  <2>2. LgGood(in, v)
    <3>1. v \in Seq(1..(in.next - 1)) /\ in.next <= EntryLimit + 1
      <4>1. in.next - 1 = lg.next /\ in.next <= EntryLimit + 1
        BY <1>0, <1>2
      <4> QED BY <1>2, <4>1
    <3> QED BY <1>2, <1>3, <3>1 DEF LgGood
  <2> QED BY <1>0, <1>3, <2>1, <2>2 DEF LgIInv
<1>5. CASE level >= lg.level /\ level >= Error
  <2>1. lg' = Flush(in) /\ lgWaiting' = <<>>
    BY <1>0, <1>5 DEF LogEntry, LgLog, Waits, in
  <2>2. v \in Seq(1..(in.next - 1))
    BY <1>2
  <2>3. Contents(in) = Newest(in, v) /\ Contents(in) \in Seq(1..(in.next - 1))
    BY <1>2, <2>2, RingContents
  <2>4. Flushed(in, lg')
    BY <1>2, <2>1, <2>3, FlushOK
  <2>5. RingHolds(lg', <<>>) /\ LogGood(lg') /\ lg'.next = in.next /\ lg'.file = in.file \o Contents(in)
    BY <2>4, EmptyHolds DEF Flushed
  <2>6. lgFailed = FALSE => Unwritten(lg', <<>>)
    BY <1>2, <1>3, <2>2, <2>3, <2>5, FlushUnwritten
  <2>7. <<>> \in Seq(1..(lg'.next - 1)) /\ Increasing(<<>>)
    BY DEF Increasing
  <2>8. lg'.next <= EntryLimit + 1
    <3>1. lg.next \in Nat /\ EntryLimit \in Nat /\ lg.next <= EntryLimit /\ lg'.next = lg.next + 1
      BY <1>0, <1>2, <2>5, Zenon
    <3> QED BY <3>1
  <2>9. LgGood(lg', <<>>)
    BY <2>5, <2>7, <2>8 DEF LgGood
  <2> QED BY <1>0, <2>1, <2>6, <2>9 DEF LgIInv
<1>6. CASE ~(level < lg.level) /\ ~(level >= Error)
  <2>1. lg' = Write(lg) /\ lgWaiting' = w
    BY <1>0, <1>6 DEF LogEntry, LgLog, Waits
  <2>2. LogGood(lg') /\ Size(lg') = Size(lg) /\ lg'.idx = lg.idx /\ lg'.cnt = lg.cnt /\ lg'.next = lg.next + 1
        /\ lg'.ring = lg.ring /\ lg'.file = Append(lg.file, lg.next)
    BY <1>0, <2>1, WriteOK
  <2>3. RingHolds(lg', w)
    BY <1>0, <2>2 DEF RingHolds, RingPlace
  <2>4. w \in Seq(1..(lg'.next - 1))
    <3>1. lg'.next - 1 = lg.next
      BY <1>0, <2>2
    <3>2. w \in Seq(1..lg.next)
      <4> HIDE DEF w
      <4> QED BY <1>0, OneMore
    <3> QED BY <3>1, <3>2
  <2>5. ASSUME lgFailed = FALSE PROVE Unwritten(lg', w)
    <3> DEFINE m == Len(lg.file)
               A == 1..(lg.next - 1)
    <3>1. lg.file \in Seq(1..lg.next) /\ lg.next \in 1..lg.next /\ lg.file \in Seq(A) /\ w \in Seq(A)
          /\ A \subseteq Int /\ (\A x \in A : x # lg.next)
      BY <1>0, OneMore DEF LogGood
    <3>2. m \in Nat /\ DOMAIN lg.file = 1..m /\ DOMAIN lg'.file = 1..(m + 1) /\ lg'.file[m + 1] = lg.next
          /\ \A i \in 1..m : lg'.file[i] = lg.file[i]
      BY <2>2, <3>1, AppendProperties, LenProperties
    <3> HIDE DEF A, m
    <3>3. (\A i \in DOMAIN lg.file : lg.file[i] # lg.next) /\ (\A i \in DOMAIN w : w[i] # lg.next)
      BY <3>1, <3>2, ElementOfSeq, LenProperties
    <3>4. \A i \in DOMAIN lg'.file : i \in DOMAIN lg.file \/ i = m + 1
      BY <3>2
    <3>5. Unwritten(lg, w)
      BY <1>0, <2>5
    <3> HIDE DEF w
    <3>6. ASSUME NEW i \in DOMAIN lg'.file, NEW j \in DOMAIN w PROVE lg'.file[i] # w[j]
      BY <3>2, <3>3, <3>4, <3>5 DEF Unwritten
    <3>7. ASSUME NEW i \in DOMAIN lg'.file, NEW j \in DOMAIN lg'.file, lg'.file[i] = lg'.file[j] PROVE i = j
      <4>1. i \in 1..m \/ i = m + 1
        BY <3>2, <3>4
      <4>2. j \in 1..m \/ j = m + 1
        BY <3>2, <3>4
      <4> QED BY <3>2, <3>3, <3>5, <3>7, <4>1, <4>2 DEF Unwritten
    <3> QED BY <3>6, <3>7 DEF Unwritten
  <2>6. lg'.next <= EntryLimit + 1
    BY <1>0, <2>2
  <2>7. LgGood(lg', w)
    <3> HIDE DEF w
    <3> QED BY <1>0, <2>2, <2>3, <2>4, <2>6 DEF LgGood
  <2> QED BY <1>0, <2>1, <2>5, <2>7 DEF LgIInv
<1> QED BY <1>0, <1>4, <1>5, <1>6

LEMMA LgWriteFailsOK == ASSUME LgIInv, LgWriteFails PROVE LgIInv'
<1> DEFINE in == Insert(lg)
           w == lgWaiting
           v == Append(w, lg.next)
<1>0. /\ LogGood(lg) /\ RingHolds(lg, w) /\ w \in Seq(1..(lg.next - 1)) /\ Increasing(w)
      /\ lg.next \in Nat \ {0} /\ EntryLimit \in Nat /\ lg.next <= EntryLimit
      /\ lgWaiting' = v /\ lgFailed' = TRUE
  BY SystemLogConstants DEF LgIInv, LgGood, LogGood, LgWriteFails
<1>1. Inserted(lg, in)
  BY <1>0, InsertOK
<1>2. RingHolds(in, v) /\ v \in Seq(1..lg.next) /\ Len(v) = Len(w) + 1 /\ v[Len(w) + 1] = lg.next
      /\ (\A i \in 1..Len(w) : v[i] = w[i]) /\ in.next = lg.next + 1 /\ in.file = lg.file /\ LogGood(in)
      /\ lg.next = in.next - 1
  <2>1. in = Insert(lg) /\ v = Append(w, lg.next)
    OBVIOUS
  <2> HIDE DEF in, v
  <2>2. RingHolds(in, v) /\ v \in Seq(1..lg.next) /\ Len(v) = Len(w) + 1 /\ v[Len(w) + 1] = lg.next
      /\ (\A i \in 1..Len(w) : v[i] = w[i])
    BY <1>0, <2>1, InsertHolds
  <2> QED BY <1>0, <1>1, <2>2 DEF Inserted
<1>3. PICK n \in 0..(Len(Contents(in)) - 1) : lg' = [in EXCEPT !.file = in.file \o SubSeq(Contents(in), 1, n)]
  BY DEF LgWriteFails
<1> HIDE DEF in, v
<1>4. Increasing(v)
  <2> HIDE DEF w
  <2> QED BY <1>0, <1>2, InsertUnwritten
<1> DEFINE A == 1..(in.next - 1)
           part == SubSeq(Contents(in), 1, n)
           file == in.file \o part
<1>5. Contents(in) \in Seq(A)
  <2>1. v \in Seq(1..(in.next - 1))
    BY <1>2
  <2> QED BY <1>2, <2>1, RingContents
<1>6. in.file \in Seq(A) /\ DOMAIN in = LogFields
  BY <1>2 DEF LogGood
<1> HIDE DEF A
<1>7. part \in Seq(A)
  <2>1. \A i \in 1..n : Contents(in)[i] \in A
    BY <1>5, ElementOfSeq, LenProperties
  <2>2. 1 \in Int /\ n \in Int
    BY <1>5, LenProperties
  <2> QED BY <2>1, <2>2, SubSeqProperties
<1> HIDE DEF part
<1>8. file \in Seq(A)
  BY <1>6, <1>7, ConcatProperties
<1>9. lg' = [in EXCEPT !.file = file]
  BY <1>3 DEF part
<1> HIDE DEF file
<1>10. DOMAIN lg' = LogFields /\ lg'.file = file /\ lg'.ring = in.ring /\ lg'.idx = in.idx /\ lg'.cnt = in.cnt
       /\ lg'.next = in.next /\ lg'.level = in.level
  BY <1>6, <1>9 DEF LogFields
<1>11. Size(lg') = Size(in)
  BY <1>10 DEF Size
<1>12. LogGood(lg') /\ RingHolds(lg', v)
  BY <1>2, <1>8, <1>10, <1>11 DEF LogGood, RingHolds, RingPlace, A
<1>13. v \in Seq(1..(lg'.next - 1)) /\ lg'.next <= EntryLimit + 1
  <2>1. lg'.next - 1 = lg.next /\ lg'.next <= EntryLimit + 1
    <3>1. lg.next \in Nat \ {0} /\ EntryLimit \in Nat /\ lg.next <= EntryLimit /\ lg'.next = lg.next + 1
      BY <1>0, <1>2, <1>10, Zenon
    <3> QED BY <3>1
  <2> QED BY <1>2, <2>1
<1>14. LgGood(lg', v)
  BY <1>4, <1>12, <1>13 DEF LgGood
<1> QED BY <1>0, <1>14 DEF LgIInv

LEMMA LevelSet ==
    ASSUME NEW l, LogGood(l), NEW v \in Levels, NEW q, q = [l EXCEPT !.level = v]
    PROVE  /\ LogGood(q) /\ q.level = v /\ q.next = l.next /\ q.file = l.file
           /\ \A w : RingHolds(l, w) => RingHolds(q, w)
<1>1. DOMAIN q = LogFields /\ q.ring = l.ring /\ q.idx = l.idx /\ q.cnt = l.cnt /\ q.next = l.next
      /\ q.level = v /\ q.file = l.file
  BY DEF LogGood, LogFields
<1>2. Size(q) = Size(l)
  BY <1>1 DEF Size
<1>3. LogGood(q)
  BY <1>1, <1>2 DEF LogGood
<1> QED BY <1>1, <1>2, <1>3 DEF RingHolds, RingPlace

LEMMA SizeSet ==
    ASSUME NEW l, LogGood(l), NEW size \in Nat, ~RingStays(l, size), NEW q, q = SetBufferSize(l, size)
    PROVE  LogGood(q) /\ q.next = l.next /\ q.file = l.file /\ RingHolds(q, <<>>)
<1> DEFINE n == IF size = 0 THEN DefaultSize ELSE size
<1>1. q = [l EXCEPT !.ring = Ring(n), !.idx = 0, !.cnt = 0] /\ n \in Nat \ {0}
  BY SystemLogConstants DEF SetBufferSize
<1> HIDE DEF n
<1>2. DOMAIN Ring(n) = 0..(n - 1) /\ Ring(n) \in [0..(n - 1) -> 0..(l.next - 1)]
  BY DEF Ring, LogGood
<1>3. DOMAIN q = LogFields /\ q.ring = Ring(n) /\ q.idx = 0 /\ q.cnt = 0 /\ q.next = l.next
      /\ q.level = l.level /\ q.file = l.file
  BY <1>1 DEF LogFields, LogGood
<1>4. DOMAIN q.ring = 0..(n - 1)
  BY <1>2, <1>3
<1>5. Size(q) = n /\ 0 \in 0..(n - 1)
  <2>1. Size(q) = n
    <3>1. n \in Nat \ {0} /\ DOMAIN q.ring = 0..(n - 1)
      BY <1>1, <1>4
    <3> QED BY <3>1, SizeIs, ZenonT(30)
  <2> QED BY <1>1, <2>1
<1>6. LogGood(q)
  BY <1>1, <1>2, <1>3, <1>5 DEF LogGood
<1> QED BY <1>3, <1>6, EmptyHolds

\* The log after a change of its configuration.
LEMMA ConfiguredOK ==
    ASSUME NEW l, LogGood(l), NEW size \in Nat, NEW v \in Levels, NEW q, q = OnLogConfigChanged(l, size, v)
    PROVE  /\ LogGood(q) /\ q.level = v /\ q.next = l.next /\ q.file = l.file
           /\ RingStays(l, size) => \A w : RingHolds(l, w) => RingHolds(q, w)
           /\ ~RingStays(l, size) => RingHolds(q, <<>>)
<1> DEFINE k == SetBufferSize(l, size)
<1>1. q = [k EXCEPT !.level = v]
  BY DEF OnLogConfigChanged
<1>2. RingStays(l, size) => k = l
  BY DEF SetBufferSize
<1>3. ~RingStays(l, size) => LogGood(k) /\ k.next = l.next /\ k.file = l.file /\ RingHolds(k, <<>>)
  <2> SUFFICES ASSUME ~RingStays(l, size) PROVE LogGood(k) /\ k.next = l.next /\ k.file = l.file /\ RingHolds(k, <<>>)
    OBVIOUS
  <2>1. k = SetBufferSize(l, size)
    OBVIOUS
  <2> HIDE DEF k
  <2> QED BY <2>1, SizeSet
<1> HIDE DEF k
<1>4. LogGood(k)
  BY <1>2, <1>3
<1> QED BY <1>1, <1>2, <1>3, <1>4, LevelSet

LEMMA LgConfigureOK == ASSUME LgIInv, LgConfigure PROVE LgIInv'
<1>0. LgGood(lg, lgWaiting) /\ LogGood(lg) /\ lg.next \in Nat \ {0} /\ lg.next <= EntryLimit + 1
      /\ lgFailed' = lgFailed /\ lgFailed \in BOOLEAN /\ (lgFailed = FALSE => Unwritten(lg, lgWaiting))
  BY DEF LgIInv, LgGood, LogGood, LgConfigure
<1>1. PICK size \in BufferSizes, level \in Levels :
        lg' = OnLogConfigChanged(lg, size, level) /\ lgWaiting' = IF RingStays(lg, size) THEN lgWaiting ELSE <<>>
  BY DEF LgConfigure
<1>2. size \in Nat
  BY SystemLogConstants
<1> DEFINE q == lg'
           w == lgWaiting'
<1>3. q = OnLogConfigChanged(lg, size, level) /\ w = IF RingStays(lg, size) THEN lgWaiting ELSE <<>>
  BY <1>1
<1> HIDE DEF q, w
<1>4. /\ LogGood(q) /\ q.level = level /\ q.next = lg.next /\ q.file = lg.file
      /\ RingStays(lg, size) => \A u : RingHolds(lg, u) => RingHolds(q, u)
      /\ ~RingStays(lg, size) => RingHolds(q, <<>>)
  BY <1>0, <1>2, <1>3, ConfiguredOK
<1>5. LgGood(q, w)
  <2>1. <<>> \in Seq(1..(q.next - 1)) /\ Increasing(<<>>)
    BY DEF Increasing
  <2> QED BY <1>0, <1>3, <1>4, <2>1 DEF LgGood
<1>6. lgFailed = FALSE => Unwritten(q, w)
  BY <1>0, <1>3, <1>4 DEF Unwritten
<1> QED BY <1>0, <1>5, <1>6 DEF LgIInv, q, w

LEMMA LgInvariant == LgSpec => []LgIInv
<1>1. LgIInv /\ [LgNext]_lgVars => LgIInv'
  <2> SUFFICES ASSUME LgIInv, [LgNext]_lgVars PROVE LgIInv'
    OBVIOUS
  <2>1. CASE UNCHANGED lgVars
    BY <2>1 DEF lgVars, LgIInv
  <2> QED BY <2>1, LgLogOK, LgWriteFailsOK, LgConfigureOK DEF LgNext
<1> QED BY <1>1, LgInitHolds, PTL DEF LgSpec

(* The ring gives the newest entries in the order in which they came, for    *)
(* any sizes of the ring and any number of entries and changes of its size.  *)
THEOREM RingAlwaysNewest == LgSpec => []RingHoldsNewest
<1>1. LgIInv => RingHoldsNewest
  <2> SUFFICES ASSUME LgIInv PROVE RingHoldsNewest
    OBVIOUS
  <2>1. LogGood(lg) /\ lgWaiting \in Seq(1..(lg.next - 1)) /\ RingHolds(lg, lgWaiting)
    BY DEF LgIInv, LgGood
  <2>2. Contents(lg) = Newest(lg, lgWaiting)
    BY <2>1, RingContents
  <2> QED BY <2>2 DEF RingHoldsNewest, Newest
<1> QED BY <1>1, LgInvariant, PTL

(* No entry is written to the file twice, unless a flush was broken off.     *)
THEOREM NeverLoggedTwice == LgSpec => []LoggedOnce
<1>1. LgIInv => LoggedOnce
  BY DEF LgIInv, LoggedOnce, Unwritten
<1> QED BY <1>1, LgInvariant, PTL

LEMMA LgTypes == LgSpec => []LgTypeOK
<1>1. LgIInv => LgTypeOK
  <2> SUFFICES ASSUME LgIInv PROVE LgTypeOK
    OBVIOUS
  <2>1. LogState(lg) /\ lgFailed \in BOOLEAN
    BY GoodIsState DEF LgIInv, LgGood
  <2> DEFINE A == 1..(lg.next - 1)
             B == 1..EntryLimit
  <2>2. A \subseteq B /\ lgWaiting \in Seq(A)
    BY SystemLogConstants DEF LgIInv, LgGood, LogGood
  <2> HIDE DEF A, B
  <2>3. lgWaiting \in Seq(B)
    BY <2>2, SeqMonotonic
  <2> QED BY <2>1, <2>3 DEF LgTypeOK, B
<1> QED BY <1>1, LgInvariant, PTL

----------------------------------------------------------------------------
(***************************************************************************)
(* The alarms.  The level that was there before the first alarm is kept    *)
(* while there is one.                                                     *)
(***************************************************************************)
AlarmFields == {"on", "counter", "origin", "present", "flagged", "log"}

AlShape(a) ==
    /\ DOMAIN a = AlarmFields /\ RingOK(a.log)
    /\ a.on \subseteq AlarmMonitors
    /\ a.flagged \subseteq a.present /\ a.present \subseteq 1..MeasurementLimit

AlGood(a, rest, lowered) ==
    /\ AlShape(a)
    /\ a.counter = Cardinality(a.on)
    /\ rest \in Levels /\ a.origin \in {None} \cup Levels
    /\ a.on = {} => a.log.level = rest
    /\ a.on # {} => a.origin = rest /\ (lowered = FALSE => a.log.level = Debug)

AlIInv ==
    /\ AlGood(al, alRest, alLowered) /\ alTicks \in 0..TickLimit
    /\ alLowered \in BOOLEAN /\ alBroken \in BOOLEAN

\* What a step of slotAlarm leaves as it is.
SameDisk(a, b) == b.on = a.on /\ b.present = a.present /\ b.flagged = a.flagged

LEMMA WithLog ==
    ASSUME NEW a, AlShape(a), NEW x, RingOK(x), NEW b, b = [a EXCEPT !.log = x]
    PROVE  AlShape(b) /\ SameDisk(a, b) /\ b.counter = a.counter /\ b.origin = a.origin /\ b.log = x
BY DEF AlShape, SameDisk, AlarmFields

LEMMA WithLevel ==
    ASSUME NEW l, RingOK(l), NEW v \in Levels, NEW q, q = [l EXCEPT !.level = v]
    PROVE  RingOK(q) /\ q.level = v
<1>1. LogGood(q) /\ q.level = v /\ q.next = l.next /\ \A w : RingHolds(l, w) => RingHolds(q, w)
  BY LevelSet DEF RingOK
<1> QED BY <1>1 DEF RingOK

LEMMA SaysOK ==
    ASSUME NEW a, AlShape(a), NEW level \in Levels, NEW b, b = Says(a, level)
    PROVE  AlShape(b) /\ SameDisk(a, b) /\ b.counter = a.counter /\ b.origin = a.origin
           /\ b.log.level = a.log.level
<1> DEFINE x == LogEntry(a.log, level)
<1>1. RingOK(x) /\ x.level = a.log.level
  BY LogEntryOK DEF AlShape
<1>2. b = [a EXCEPT !.log = x]
  BY DEF Says
<1> HIDE DEF x
<1> QED BY <1>1, <1>2, WithLog

\* The end of slotAlarm.
Ended(a) == [Says(a, Error) EXCEPT !.log = Flush(@)]

LEMMA SlotAlarmEnds ==
    ASSUME NEW a, AlShape(a), NEW b, b = Ended(a)
    PROVE  AlShape(b) /\ SameDisk(a, b) /\ b.counter = a.counter /\ b.origin = a.origin
           /\ b.log.level = a.log.level
<1> DEFINE c == Says(a, Error)
           x == Flush(c.log)
<1>1. AlShape(c) /\ SameDisk(a, c) /\ c.counter = a.counter /\ c.origin = a.origin /\ c.log.level = a.log.level
  <2>1. c = Says(a, Error) /\ Error \in Levels
    BY DEF Error, Levels
  <2> HIDE DEF c
  <2> QED BY <2>1, SaysOK
<1>2. b = [c EXCEPT !.log = x]
  BY <1>1 DEF AlShape, AlarmFields, Ended
<1> HIDE DEF c
<1>3. RingOK(x) /\ Flushed(c.log, x)
  <2>1. x = Flush(c.log)
    OBVIOUS
  <2> HIDE DEF x
  <2> QED BY <1>1, <2>1, FlushKeeps DEF AlShape
<1> HIDE DEF x
<1>4. AlShape(b) /\ SameDisk(c, b) /\ b.counter = c.counter /\ b.origin = c.origin /\ b.log = x
  <2>1. AlShape(c) /\ RingOK(x) /\ b = [c EXCEPT !.log = x]
    BY <1>1, <1>2, <1>3
  <2> QED BY <2>1, WithLog
<1> QED BY <1>1, <1>3, <1>4 DEF SameDisk, Flushed

LEMMA SlotAlarmOn ==
    ASSUME NEW a, NEW rest, NEW lowered, AlGood(a, rest, lowered), NEW b, b = SlotAlarm(a, TRUE)
    PROVE  AlShape(b) /\ SameDisk(a, b) /\ b.counter = a.counter + 1 /\ b.origin = rest
           /\ (lowered = FALSE \/ a.on = {} => b.log.level = Debug)
<1>0. Warning \in Levels /\ Debug \in Levels /\ AlShape(a)
  BY DEF Levels, Warning, Debug, AlGood
<1>1. a.counter \in Nat /\ (a.counter = 0 <=> a.on = {})
  <2>1. IsFiniteSet(AlarmMonitors)
    <3>1. AlarmMonitors = ({"load"} \cup {"directory"}) \cup {"disk"}
      BY DEF AlarmMonitors
    <3>2. IsFiniteSet({"load"})
      BY FS_Singleton
    <3>3. IsFiniteSet({"load"} \cup {"directory"})
      BY <3>2, FS_AddElement
    <3> QED BY <3>1, <3>3, FS_AddElement
  <2>2. IsFiniteSet(a.on)
    BY <2>1, FS_Subset DEF AlGood, AlShape
  <2> QED BY <2>2, FS_CardinalityType, FS_EmptySet DEF AlGood
<1> DEFINE warned == Says(a, Warning)
           counted == [warned EXCEPT !.counter = warned.counter + 1]
           raised == [counted EXCEPT !.origin = counted.log.level, !.log = [counted.log EXCEPT !.level = Debug]]
           levelled == IF counted.counter = 1 THEN Says(raised, Warning) ELSE counted
<1>2. AlShape(warned) /\ SameDisk(a, warned) /\ warned.counter = a.counter /\ warned.origin = a.origin
      /\ warned.log.level = a.log.level
  <2>1. warned = Says(a, Warning)
    OBVIOUS
  <2> HIDE DEF warned
  <2> QED BY <1>0, <2>1, SaysOK
<1>3. b = Ended(levelled)
  BY <1>1, <1>2 DEF SlotAlarm, AlShape, AlarmFields, Ended
<1> HIDE DEF warned
<1>4. AlShape(counted) /\ SameDisk(a, counted) /\ counted.counter = a.counter + 1 /\ counted.origin = a.origin
      /\ counted.log = warned.log
  BY <1>2 DEF AlShape, AlarmFields, SameDisk
<1> HIDE DEF counted
<1>5. AlShape(levelled) /\ SameDisk(a, levelled) /\ levelled.counter = a.counter + 1
      /\ levelled.origin = rest /\ (lowered = FALSE \/ a.on = {} => levelled.log.level = Debug)
  <2>1. CASE counted.counter = 1
    <3> DEFINE x == [counted.log EXCEPT !.level = Debug]
    <3>1. RingOK(x) /\ x.level = Debug
      <4>1. x = [counted.log EXCEPT !.level = Debug] /\ RingOK(counted.log)
        BY <1>4 DEF AlShape
      <4> HIDE DEF x
      <4> QED BY <1>0, <4>1, WithLevel
    <3>2. counted.log.level = rest
      BY <1>1, <1>2, <1>4, <2>1 DEF AlGood
    <3> HIDE DEF x
    <3>3. raised = [counted EXCEPT !.origin = rest, !.log = x]
      BY <3>2 DEF x
    <3>4. AlShape(raised) /\ SameDisk(counted, raised) /\ raised.counter = counted.counter /\ raised.origin = rest
          /\ raised.log = x
      BY <1>4, <3>1, <3>3 DEF AlShape, AlarmFields, SameDisk
    <3>5. levelled = Says(raised, Warning)
      BY <2>1
    <3> HIDE DEF raised, levelled
    <3>6. AlShape(levelled) /\ SameDisk(raised, levelled) /\ levelled.counter = raised.counter
          /\ levelled.origin = raised.origin /\ levelled.log.level = raised.log.level
      BY <1>0, <3>4, <3>5, SaysOK
    <3> QED BY <1>4, <3>1, <3>4, <3>6 DEF SameDisk
  <2>2. CASE counted.counter # 1
    <3>1. a.on # {} /\ levelled = counted
      BY <1>1, <1>4, <2>2
    <3> QED BY <1>2, <1>4, <3>1 DEF AlGood
  <2> QED BY <2>1, <2>2
<1> HIDE DEF levelled
<1>6. AlShape(b) /\ SameDisk(levelled, b) /\ b.counter = levelled.counter /\ b.origin = levelled.origin
      /\ b.log.level = levelled.log.level
  BY <1>3, <1>5, SlotAlarmEnds
<1> QED BY <1>5, <1>6 DEF SameDisk

LEMMA OnIsFinite == ASSUME NEW s, s \subseteq AlarmMonitors PROVE IsFiniteSet(s)
<1>1. AlarmMonitors = ({"load"} \cup {"directory"}) \cup {"disk"}
  BY DEF AlarmMonitors
<1>2. IsFiniteSet({"load"})
  BY FS_Singleton
<1>3. IsFiniteSet({"load"} \cup {"directory"})
  BY <1>2, FS_AddElement
<1>4. IsFiniteSet(AlarmMonitors)
  BY <1>1, <1>3, FS_AddElement
<1> QED BY <1>4, FS_Subset

\* What slotAlarm does to the level when an alarm goes.
Restored(b, rest, lowered) ==
    /\ b.counter = 0 => b.log.level = rest
    /\ b.counter # 0 /\ lowered = FALSE => b.log.level = Debug

LEMMA SlotAlarmOff ==
    ASSUME NEW a, NEW rest, NEW lowered, AlGood(a, rest, lowered), a.on # {}, NEW b, b = SlotAlarm(a, FALSE)
    PROVE  /\ AlShape(b) /\ SameDisk(a, b) /\ b.counter = a.counter - 1 /\ b.origin = rest
           /\ Restored(b, rest, lowered)
<1>0. Warning \in Levels /\ rest \in Levels /\ AlShape(a) /\ a.origin = rest /\ rest # None
      /\ (lowered = FALSE => a.log.level = Debug)
  BY DEF Levels, Warning, AlGood, None
<1>1. a.counter \in Nat /\ a.counter # 0
  BY OnIsFinite, FS_CardinalityType, FS_EmptySet DEF AlGood, AlShape
<1> DEFINE warned == Says(a, Warning)
           counted == [warned EXCEPT !.counter = warned.counter - 1]
           raised == [counted EXCEPT !.log = [counted.log EXCEPT !.level = counted.origin]]
           levelled == IF counted.counter = 0 THEN Says(raised, Warning) ELSE counted
<1>2. AlShape(warned) /\ SameDisk(a, warned) /\ warned.counter = a.counter /\ warned.origin = a.origin
      /\ warned.log.level = a.log.level
  <2>1. warned = Says(a, Warning)
    OBVIOUS
  <2> HIDE DEF warned
  <2> QED BY <1>0, <2>1, SaysOK
<1>3. b = Ended(levelled)
  <2>1. DOMAIN warned = AlarmFields /\ warned.origin # None
    BY <1>0, <1>2 DEF AlShape
  <2>2. counted.origin # None
    BY <2>1 DEF AlarmFields
  <2>3. [counted EXCEPT !.log.level = counted.origin] = raised
    BY <2>1 DEF AlarmFields
  <2>4. b = Ended(IF counted.counter = 0 /\ counted.origin # None
                  THEN Says([counted EXCEPT !.log.level = counted.origin], Warning) ELSE counted)
    BY DEF SlotAlarm, Ended
  <2> QED BY <2>2, <2>3, <2>4
<1> HIDE DEF warned
<1>4. AlShape(counted) /\ SameDisk(a, counted) /\ counted.counter = a.counter - 1 /\ counted.origin = rest
      /\ counted.log = warned.log
  BY <1>0, <1>2 DEF AlShape, AlarmFields, SameDisk
<1> HIDE DEF counted
<1>5. AlShape(levelled) /\ SameDisk(a, levelled) /\ levelled.counter = a.counter - 1
      /\ levelled.origin = rest
      /\ (levelled.counter = 0 => levelled.log.level = rest)
      /\ (levelled.counter # 0 /\ lowered = FALSE => levelled.log.level = Debug)
  <2>1. CASE counted.counter = 0
    <3> DEFINE x == [counted.log EXCEPT !.level = rest]
    <3>1. RingOK(x) /\ x.level = rest
      <4>1. x = [counted.log EXCEPT !.level = rest] /\ RingOK(counted.log)
        BY <1>4 DEF AlShape
      <4> HIDE DEF x
      <4> QED BY <1>0, <4>1, WithLevel
    <3>2. raised = [counted EXCEPT !.log = x]
      BY <1>4
    <3> HIDE DEF x
    <3>4. AlShape(raised) /\ SameDisk(counted, raised) /\ raised.counter = counted.counter
          /\ raised.origin = counted.origin /\ raised.log = x
      <4> HIDE DEF raised
      <4> QED BY <1>4, <3>1, <3>2, WithLog
    <3>5. levelled = Says(raised, Warning)
      BY <2>1
    <3> HIDE DEF raised, levelled
    <3>6. AlShape(levelled) /\ SameDisk(raised, levelled) /\ levelled.counter = raised.counter
          /\ levelled.origin = raised.origin /\ levelled.log.level = raised.log.level
      BY <1>0, <3>4, <3>5, SaysOK
    <3> QED BY <1>4, <2>1, <3>1, <3>4, <3>6 DEF SameDisk
  <2>2. CASE counted.counter # 0
    BY <1>0, <1>2, <1>4, <2>2
  <2> QED BY <2>1, <2>2
<1> HIDE DEF levelled
<1>6. AlShape(b) /\ SameDisk(levelled, b) /\ b.counter = levelled.counter /\ b.origin = levelled.origin
      /\ b.log.level = levelled.log.level
  BY <1>3, <1>5, SlotAlarmEnds
<1> QED BY <1>5, <1>6 DEF SameDisk, Restored

(***************************************************************************)
(* The measurements: the flagged ones are taken by their rank.             *)
(***************************************************************************)
Rank(F, e) == Cardinality({f \in F : f < e})

LEMMA RankOK ==
    ASSUME NEW F \in SUBSET Nat, IsFiniteSet(F)
    PROVE  /\ \A e \in F : Rank(F, e) \in 0..(Cardinality(F) - 1)
           /\ \A e, f \in F : e < f => Rank(F, e) < Rank(F, f)
<1>1. ASSUME NEW e \in F, NEW S \in SUBSET F, {f \in F : f < e} \subseteq S, e \in S
      PROVE  Rank(F, e) \in Nat /\ Rank(F, e) < Cardinality(S)
  <2> DEFINE R == {f \in F : f < e}
  <2>1. R \in SUBSET S /\ e \notin R /\ R # S
    BY <1>1
  <2>2. IsFiniteSet(S)
    BY FS_Subset
  <2> HIDE DEF R
  <2>3. IsFiniteSet(R) /\ Cardinality(R) <= Cardinality(S) /\ Cardinality(R) # Cardinality(S)
        /\ Cardinality(R) \in Nat /\ Cardinality(S) \in Nat
    BY <2>1, <2>2, FS_Subset, FS_CardinalityType
  <2>4. Rank(F, e) = Cardinality(R)
    BY DEF Rank, R
  <2> QED BY <2>3, <2>4
<1>2. ASSUME NEW e \in F PROVE Rank(F, e) \in 0..(Cardinality(F) - 1)
  <2>1. Rank(F, e) \in Nat /\ Rank(F, e) < Cardinality(F) /\ Cardinality(F) \in Nat
    BY <1>1, FS_CardinalityType
  <2> QED BY <2>1
<1>3. ASSUME NEW e \in F, NEW f \in F, e < f PROVE Rank(F, e) < Rank(F, f)
  <2> DEFINE S == {g \in F : g < f}
  <2>1. S \in SUBSET F /\ e \in S /\ {g \in F : g < e} \subseteq S
    <3>1. e \in Nat /\ f \in Nat /\ \A g \in F : g \in Nat
      OBVIOUS
    <3>2. \A g \in F : g < e => g < f
      BY <1>3, <3>1
    <3> QED BY <1>3, <3>2
  <2> HIDE DEF S
  <2>2. Rank(F, e) < Cardinality(S)
    BY <1>1, <2>1
  <2> QED BY <2>2 DEF Rank, S
<1> QED BY <1>2, <1>3

\* As many as the excess, or all.
LEMMA FirstOnes ==
    ASSUME NEW F \in SUBSET Nat, IsFiniteSet(F), NEW k \in Nat
    PROVE  LET gone == {e \in F : Rank(F, e) < k}
           IN /\ gone \subseteq F /\ IsFiniteSet(gone) /\ Cardinality(gone) <= k
              /\ gone # F => Cardinality(gone) = k
<1> DEFINE n == Cardinality(F)
           gone == {e \in F : Rank(F, e) < k}
           r == [e \in F |-> Rank(F, e)]
           g == [e \in gone |-> Rank(F, e)]
<1>1. n \in Nat /\ gone \subseteq F /\ IsFiniteSet(gone) /\ Cardinality(gone) \in Nat
  BY FS_CardinalityType, FS_Subset
<1>2. \A e, f \in F : e # f => Rank(F, e) # Rank(F, f)
  <2> SUFFICES ASSUME NEW e \in F, NEW f \in F, e # f PROVE Rank(F, e) # Rank(F, f)
    OBVIOUS
  <2>1. e < f \/ f < e
    OBVIOUS
  <2>2. Rank(F, e) \in Int /\ Rank(F, f) \in Int
    BY RankOK
  <2> QED BY <2>1, <2>2, RankOK
<1>3. \A e \in F : Rank(F, e) \in 0..(n - 1)
  BY RankOK
<1>4. IsFiniteSet(0..(n - 1)) /\ Cardinality(0..(n - 1)) = n /\ IsFiniteSet(0..(k - 1)) /\ Cardinality(0..(k - 1)) = k
  <2>1. ASSUME NEW m \in Nat PROVE IsFiniteSet(0..(m - 1)) /\ Cardinality(0..(m - 1)) = m
    <3>1. 0 \in Int /\ m - 1 \in Int
      OBVIOUS
    <3>2. IsFiniteSet(0..(m - 1)) /\ Cardinality(0..(m - 1)) = IF 0 > m - 1 THEN 0 ELSE (m - 1) - 0 + 1
      BY <3>1, FS_Interval
    <3> QED BY <3>2
  <2> QED BY <1>1, <2>1
<1>5. \A e \in gone : Rank(F, e) \in 0..(k - 1)
  BY <1>1, <1>3
<1>6. r \in Surjection(F, 0..(n - 1))
  <2>1. r \in Injection(F, 0..(n - 1))
    BY <1>2, <1>3 DEF Injection, IsInjective
  <2> HIDE DEF r
  <2> QED BY <1>4, <2>1, FS_Injection
<1>7. Cardinality(gone) <= k
  <2>1. g \in Injection(gone, 0..(k - 1))
    <3> HIDE DEF gone
    <3> QED BY <1>1, <1>2, <1>5 DEF Injection, IsInjective
  <2> HIDE DEF g, gone
  <2> QED BY <1>4, <2>1, FS_Injection
<1>8. ASSUME gone # F PROVE Cardinality(gone) >= k
  <2>1. PICK e \in F : Rank(F, e) >= k
    <3>1. PICK e \in F : e \notin gone
      BY <1>8
    <3>2. ~(Rank(F, e) < k) /\ Rank(F, e) \in Int
      BY <1>3, <3>1
    <3> QED BY <3>2
  <2>2. k <= n - 1
    BY <1>1, <1>3, <2>1
  <2>3. g \in Surjection(gone, 0..(k - 1))
    <3>1. g \in [gone -> 0..(k - 1)]
      BY <1>5
    <3>2. ASSUME NEW x \in 0..(k - 1) PROVE \E f \in gone : g[f] = x
      <4>1. x \in 0..(n - 1)
        BY <1>1, <2>2
      <4>2. PICK f \in F : r[f] = x
        BY <1>6, <4>1 DEF Surjection
      <4>3. Rank(F, f) = x /\ x < k
        BY <4>2
      <4> QED BY <4>3
    <3> QED BY <3>1, <3>2 DEF Surjection
  <2> HIDE DEF g, gone
  <2> QED BY <1>1, <1>4, <2>3, FS_Surjection
<1> QED BY <1>1, <1>7, <1>8

Removed(p, f, q, g, t) ==
    /\ q \subseteq p /\ p \ q \subseteq f /\ g \subseteq f \ (p \ q)
    /\ p \ q # {} => Cardinality(q) >= MeasurementKeep /\ (Cardinality(q) > MeasurementKeep /\ t.after = MeasurementLimit => g = {})

LEMMA RemovedTwice ==
    ASSUME NEW p, NEW f, NEW q, NEW g, NEW r, NEW h, NEW t, Removed(p, f, q, g, t), Removed(q, g, r, h, t)
    PROVE  Removed(p, f, r, h, t)
<1>1. r \subseteq p /\ p \ r \subseteq f /\ h \subseteq f \ (p \ r)
  BY DEF Removed
<1>2. CASE q \ r # {}
  BY <1>1, <1>2 DEF Removed
<1>3. CASE q \ r = {}
  <2>1. r = q /\ h \subseteq g
    BY <1>3 DEF Removed
  <2> QED BY <1>1, <2>1 DEF Removed
<1> QED BY <1>2, <1>3

LEMMA RemoveFlaggedOK ==
    ASSUME NEW a, AlShape(a), NEW t \in Trouble, NEW b, b = RemoveFlagged(a, t)
    PROVE  AlShape(b) /\ b.on = a.on /\ b.counter = a.counter /\ b.origin = a.origin /\ b.log = a.log
           /\ Removed(a.present, a.flagged, b.present, b.flagged, t)
<1> DEFINE P == a.present
           F == a.flagged
           excess == Cardinality(P) - MeasurementKeep
           all == {e \in F : Rank(F, e) < excess}
           gone == all \cap {e \in F : Rank(F, e) < t.after}
           thrown == (all \cap {e \in F : Rank(F, e) < t.after + 1}) \ gone
           less == gone \cup IF t.unflags THEN thrown ELSE {}
<1>0. MeasurementKeep \in Nat /\ MeasurementLimit \in Nat /\ t.after \in 0..MeasurementLimit
  BY AlarmsConstants DEF Trouble
<1>1. F \subseteq P /\ P \subseteq 1..MeasurementLimit /\ IsFiniteSet(P) /\ IsFiniteSet(F) /\ F \in SUBSET Nat
      /\ Cardinality(F) <= MeasurementLimit
  <2>1. F \subseteq P /\ P \subseteq 1..MeasurementLimit
    BY DEF AlShape
  <2>2. IsFiniteSet(1..MeasurementLimit) /\ Cardinality(1..MeasurementLimit) = MeasurementLimit
    BY <1>0, FS_Interval
  <2>3. IsFiniteSet(P)
    BY <2>1, <2>2, FS_Subset
  <2>4. Cardinality(F) <= MeasurementLimit
    BY <2>1, <2>2, FS_Subset
  <2> QED BY <2>1, <2>3, <2>4, FS_Subset
<1>2. b = [a EXCEPT !.present = P \ gone, !.flagged = F \ less]
  BY DEF RemoveFlagged, Oldest, Rank, AlShape, AlarmFields
<1>3. gone \subseteq F /\ gone \subseteq less /\ less \subseteq F
  OBVIOUS
<1>4. Removed(P, F, P \ gone, F \ less, t)
  <2>1. P \ (P \ gone) = gone
    BY <1>1
  <2>2. ASSUME gone # {} PROVE Cardinality(P \ gone) >= MeasurementKeep
                               /\ (Cardinality(P \ gone) > MeasurementKeep /\ t.after = MeasurementLimit => F \ less = {})
    <3>0. Cardinality(P) \in Nat /\ excess \in Int
      BY <1>0, <1>1, FS_CardinalityType
    <3>1. excess \in Nat
      <4>1. PICK e \in all : TRUE
        BY <2>2
      <4>2. Rank(F, e) \in 0..(Cardinality(F) - 1) /\ Rank(F, e) < excess
        BY <1>1, RankOK
      <4> QED BY <3>0, <4>2
    <3>2. t.after = MeasurementLimit => gone = all
      <4>1. \A e \in F : Rank(F, e) \in 0..(Cardinality(F) - 1)
        BY <1>1, RankOK
      <4>2. \A e \in F : Rank(F, e) < MeasurementLimit
        BY <1>0, <1>1, <4>1, FS_CardinalityType
      <4> QED BY <4>2
    <3> HIDE DEF excess
    <3>3. all \subseteq F /\ IsFiniteSet(all) /\ Cardinality(all) <= excess /\ (all # F => Cardinality(all) = excess)
      BY <1>1, <3>1, FirstOnes
    <3>4. gone \subseteq all
      OBVIOUS
    <3> HIDE DEF gone, all, thrown
    <3>5. IsFiniteSet(gone) /\ Cardinality(gone) <= Cardinality(all) /\ Cardinality(gone) \in Nat /\ Cardinality(all) \in Nat
      BY <3>3, <3>4, FS_Subset, FS_CardinalityType
    <3>6. Cardinality(P \ gone) = Cardinality(P) - Cardinality(gone)
      <4>1. P \cap gone = gone
        BY <1>1, <1>3
      <4>2. Cardinality(P \ gone) = Cardinality(P) - Cardinality(P \cap gone)
        BY <1>1, FS_Difference
      <4> QED BY <4>1, <4>2
    <3>7. Cardinality(P \ gone) >= MeasurementKeep
      BY <1>0, <3>0, <3>3, <3>5, <3>6 DEF excess
    <3>8. ASSUME Cardinality(P \ gone) > MeasurementKeep, t.after = MeasurementLimit PROVE F \ less = {}
      <4>1. gone = all /\ Cardinality(all) # excess
        BY <1>0, <3>0, <3>2, <3>6, <3>8 DEF excess
      <4>2. gone = F
        BY <3>3, <4>1
      <4> QED BY <1>3, <4>2
    <3> QED BY <3>7, <3>8
  <2> HIDE DEF gone, less
  <2> QED BY <1>1, <1>3, <2>1, <2>2 DEF Removed
<1> HIDE DEF gone, less
<1>5. DOMAIN b = AlarmFields /\ b.present = P \ gone /\ b.flagged = F \ less /\ b.on = a.on
      /\ b.counter = a.counter /\ b.origin = a.origin /\ b.log = a.log
  BY <1>2 DEF AlShape, AlarmFields
<1> QED BY <1>1, <1>3, <1>4, <1>5 DEF AlShape

LEMMA LogsTruncateOK ==
    ASSUME NEW a, AlShape(a), NEW b, b = LogsTruncate(a)
    PROVE  AlShape(b) /\ SameDisk(a, b) /\ b.counter = a.counter /\ b.origin = a.origin
           /\ b.log.level = a.log.level
<1> DEFINE l == a.log
           start == IF Len(l.file) > LogKeep THEN Len(l.file) - LogKeep + 1 ELSE 1
           file == SubSeq(l.file, start, Len(l.file))
           x == [l EXCEPT !.file = file]
           A == 1..(l.next - 1)
<1>1. RingOK(l) /\ LogGood(l) /\ l.file \in Seq(A) /\ DOMAIN l = LogFields
  BY DEF AlShape, RingOK, LogGood
<1>2. b = [a EXCEPT !.log = x]
  BY DEF LogsTruncate, LogTruncate
<1>3. file \in Seq(A)
  <2>1. Len(l.file) \in Nat /\ LogKeep \in Nat
    BY <1>1, LenProperties, AlarmsConstants
  <2>2. start \in Nat \ {0}
    BY <2>1
  <2> HIDE DEF A, start, l
  <2>3. \A i \in start..Len(l.file) : l.file[i] \in A
    <3>1. \A i \in start..Len(l.file) : i \in 1..Len(l.file)
      BY <2>1, <2>2
    <3> QED BY <1>1, <3>1, ElementOfSeq
  <2> QED BY <2>1, <2>2, <2>3, SubSeqProperties
<1> HIDE DEF file, l
<1>4. DOMAIN x = LogFields /\ x.ring = l.ring /\ x.idx = l.idx /\ x.cnt = l.cnt /\ x.next = l.next
      /\ x.level = l.level /\ x.file = file
  BY <1>1 DEF LogFields
<1> HIDE DEF x, A
<1>5. Size(x) = Size(l)
  BY <1>4 DEF Size
<1>6. LogGood(x)
  BY <1>1, <1>3, <1>4, <1>5 DEF LogGood, A
<1>7. \A w \in Seq(1..(l.next - 1)) : RingHolds(l, w) => RingHolds(x, w)
  BY <1>4, <1>5 DEF RingHolds, RingPlace
<1>8. RingOK(x)
  BY <1>1, <1>4, <1>6, <1>7 DEF RingOK
<1>9. AlShape(b) /\ SameDisk(a, b) /\ b.counter = a.counter /\ b.origin = a.origin /\ b.log = x
  BY <1>2, <1>8, WithLog
<1> QED BY <1>4, <1>9 DEF l

\* What the alarm of a monitor does, before the state of the monitor changes.
Signalled(a, b, n, rest, t) ==
    /\ AlShape(b) /\ b.on = a.on /\ b.counter = n /\ b.origin = rest
    /\ Removed(a.present, a.flagged, b.present, b.flagged, t)

LEMMA EmitOn ==
    ASSUME NEW a, NEW rest, NEW lowered, AlGood(a, rest, lowered), NEW m \in AlarmMonitors, NEW t \in Trouble,
           NEW b, b = Emit(a, m, TRUE, t)
    PROVE  Signalled(a, b, a.counter + 1, rest, t) /\ (lowered = FALSE \/ a.on = {} => b.log.level = Debug)
<1> DEFINE told == SlotAlarm(a, TRUE)
           freed == IF m \in {"directory", "disk"} THEN RemoveFlagged(told, t) ELSE told
           low == lowered = FALSE \/ a.on = {}
<1>1. AlShape(told) /\ SameDisk(a, told) /\ told.counter = a.counter + 1 /\ told.origin = rest
      /\ (low => told.log.level = Debug)
  <2>1. told = SlotAlarm(a, TRUE)
    OBVIOUS
  <2> HIDE DEF told
  <2> QED BY <2>1, SlotAlarmOn
<1>2. b = IF m = "disk" THEN LogsTruncate(freed) ELSE freed
  BY DEF Emit
<1> HIDE DEF told, low
<1>3. Signalled(a, freed, a.counter + 1, rest, t) /\ (low => freed.log.level = Debug)
  <2>1. CASE m \in {"directory", "disk"}
    <3>1. freed = RemoveFlagged(told, t)
      BY <2>1
    <3> HIDE DEF freed
    <3>2. AlShape(freed) /\ freed.on = told.on /\ freed.counter = told.counter /\ freed.origin = told.origin
          /\ freed.log = told.log /\ Removed(told.present, told.flagged, freed.present, freed.flagged, t)
      BY <1>1, <3>1, RemoveFlaggedOK
    <3> QED BY <1>1, <3>2 DEF Signalled, SameDisk
  <2>2. CASE m \notin {"directory", "disk"}
    BY <1>1, <2>2 DEF Signalled, SameDisk, Removed
  <2> QED BY <2>1, <2>2
<1> HIDE DEF freed
<1>4. CASE m = "disk"
  <2>1. AlShape(b) /\ SameDisk(freed, b) /\ b.counter = freed.counter /\ b.origin = freed.origin
        /\ b.log.level = freed.log.level
    BY <1>2, <1>3, <1>4, LogsTruncateOK DEF Signalled
  <2> QED BY <1>3, <2>1 DEF Signalled, SameDisk, low
<1>5. CASE m # "disk"
  BY <1>2, <1>3, <1>5 DEF low
<1> QED BY <1>4, <1>5

LEMMA EmitOff ==
    ASSUME NEW a, NEW rest, NEW lowered, AlGood(a, rest, lowered), a.on # {}, NEW m \in AlarmMonitors, NEW t \in Trouble,
           NEW b, b = Emit(a, m, FALSE, t)
    PROVE  /\ Signalled(a, b, a.counter - 1, rest, t)
           /\ Restored(b, rest, lowered)
<1>1. b = SlotAlarm(a, FALSE)
  BY DEF Emit
<1>2. /\ AlShape(b) /\ SameDisk(a, b) /\ b.counter = a.counter - 1 /\ b.origin = rest
      /\ Restored(b, rest, lowered)
  BY <1>1, SlotAlarmOff
<1> QED BY <1>2 DEF Signalled, SameDisk, Removed

LEMMA EvaluateOK ==
    ASSUME NEW a, NEW rest, NEW lowered, AlGood(a, rest, lowered), NEW m \in AlarmMonitors, NEW value, NEW t \in Trouble,
           NEW b, b = Evaluate(a, m, value, t)
    PROVE  AlGood(b, rest, lowered) /\ Removed(a.present, a.flagged, b.present, b.flagged, t)
<1>0. AlShape(a) /\ IsFiniteSet(a.on) /\ Cardinality(a.on) \in Nat /\ a.counter = Cardinality(a.on) /\ rest \in Levels
  BY OnIsFinite, FS_CardinalityType DEF AlGood, AlShape
<1>1. CASE b = a
  BY <1>0, <1>1 DEF Removed, AlShape
<1>2. CASE m \notin a.on /\ b = [Emit(a, m, TRUE, t) EXCEPT !.on = @ \cup {m}]
  <2> DEFINE e == Emit(a, m, TRUE, t)
             on == e.on \cup {m}
  <2>1. Signalled(a, e, a.counter + 1, rest, t) /\ (lowered = FALSE \/ a.on = {} => e.log.level = Debug)
    <3>1. e = Emit(a, m, TRUE, t)
      OBVIOUS
    <3> HIDE DEF e
    <3> QED BY <3>1, EmitOn
  <2> HIDE DEF e
  <2>2. DOMAIN e = AlarmFields /\ e.on = a.on
    BY <2>1 DEF Signalled, AlShape
  <2>3. b = [e EXCEPT !.on = on]
    BY <1>2, <2>2 DEF AlarmFields, e
  <2> HIDE DEF on
  <2>4. DOMAIN b = AlarmFields /\ b.on = on /\ b.counter = e.counter /\ b.origin = e.origin /\ b.present = e.present
        /\ b.flagged = e.flagged /\ b.log = e.log
    BY <2>2, <2>3 DEF AlarmFields
  <2>5. on = a.on \cup {m} /\ on \subseteq AlarmMonitors /\ on # {} /\ Cardinality(on) = a.counter + 1
    <3>1. on = a.on \cup {m}
      BY <2>2 DEF on
    <3>2. Cardinality(a.on \cup {m}) = Cardinality(a.on) + 1
      BY <1>0, <1>2, FS_AddElement
    <3> QED BY <1>0, <3>1, <3>2 DEF AlShape
  <2>6. AlShape(b)
    BY <2>1, <2>4, <2>5 DEF Signalled, AlShape
  <2> QED BY <1>0, <2>1, <2>4, <2>5, <2>6 DEF Signalled, AlGood
<1>3. CASE m \in a.on /\ b = [Emit(a, m, FALSE, t) EXCEPT !.on = @ \ {m}]
  <2> DEFINE e == Emit(a, m, FALSE, t)
             on == e.on \ {m}
  <2>1. /\ Signalled(a, e, a.counter - 1, rest, t)
        /\ e.counter = 0 => e.log.level = rest
        /\ e.counter # 0 /\ lowered = FALSE => e.log.level = Debug
    <3>1. e = Emit(a, m, FALSE, t) /\ a.on # {}
      BY <1>3
    <3> HIDE DEF e
    <3>2. AlGood(a, rest, lowered) /\ m \in AlarmMonitors /\ t \in Trouble
      OBVIOUS
    <3>3. Signalled(a, e, a.counter - 1, rest, t) /\ Restored(e, rest, lowered)
      BY <3>1, <3>2, EmitOff
    <3> QED BY <3>3 DEF Restored
  <2> HIDE DEF e
  <2>2. DOMAIN e = AlarmFields /\ e.on = a.on
    BY <2>1 DEF Signalled, AlShape
  <2>3. b = [e EXCEPT !.on = on]
    BY <1>3, <2>2 DEF AlarmFields, e
  <2> HIDE DEF on
  <2>4. DOMAIN b = AlarmFields /\ b.on = on /\ b.counter = e.counter /\ b.origin = e.origin /\ b.present = e.present
        /\ b.flagged = e.flagged /\ b.log = e.log
    BY <2>2, <2>3 DEF AlarmFields
  <2>5. on = a.on \ {m} /\ on \subseteq AlarmMonitors /\ IsFiniteSet(on) /\ Cardinality(on) = a.counter - 1
    BY <1>0, <1>3, <2>2, FS_RemoveElement DEF on, AlShape
  <2>6. AlShape(b)
    BY <2>1, <2>4, <2>5 DEF Signalled, AlShape
  <2>7. on = {} <=> a.counter - 1 = 0
    BY <2>5, FS_EmptySet
  <2> QED BY <1>0, <2>1, <2>4, <2>5, <2>6, <2>7 DEF Signalled, AlGood
<1> QED BY <1>1, <1>2, <1>3 DEF Evaluate

LEMMA AlInitHolds == AlInit => AlIInv
<1> SUFFICES ASSUME AlInit PROVE AlIInv
  OBVIOUS
<1> DEFINE log == Opened(DefaultSize, Warning)
           n == DefaultSize
<1>1. log = [ring |-> Ring(n), idx |-> 0, cnt |-> 0, level |-> Warning, file |-> <<>>, next |-> 1] /\ n \in Nat \ {0}
  BY SystemLogConstants DEF Opened
<1>2. al = [on |-> {}, counter |-> 0, origin |-> None, present |-> {}, flagged |-> {}, log |-> log] /\ alTicks \in 0..TickLimit
      /\ alRest = Warning /\ alLowered = FALSE /\ alBroken = FALSE
  BY AlarmsConstants DEF AlInit
<1>3. Ring(n) \in [0..(n - 1) -> 0..0] /\ DOMAIN Ring(n) = 0..(n - 1)
  BY DEF Ring
<1> HIDE DEF log, n
<1>4. log.ring = Ring(n) /\ log.idx = 0 /\ log.cnt = 0 /\ log.level = Warning /\ log.file = <<>> /\ log.next = 1
      /\ DOMAIN log = LogFields
  BY <1>1 DEF LogFields
<1>5. Size(log) = n
  BY <1>1, <1>3, <1>4, SizeIs
<1>6. log.next - 1 = 0 /\ Warning \in Levels /\ 0 \in 0..(n - 1) /\ <<>> \in Seq(1..0)
  BY <1>1, <1>4 DEF Levels, Warning
<1>7. LogGood(log)
  BY <1>1, <1>3, <1>4, <1>5, <1>6 DEF LogGood
<1>8. RingOK(log)
  BY <1>4, <1>6, <1>7, EmptyHolds DEF RingOK
<1>9. AlShape(al) /\ al.on = {} /\ al.counter = 0 /\ al.origin = None /\ al.log = log
  BY <1>2, <1>8 DEF AlShape, AlarmFields
<1> QED BY <1>2, <1>4, <1>6, <1>9, FS_EmptySet DEF AlIInv, AlGood

LEMMA AlTickOK == ASSUME AlIInv, AlTick
                  PROVE  AlIInv' /\ \E t \in Trouble : /\ Removed(al.present, al.flagged, al'.present, al'.flagged, t)
                                                       /\ alBroken' = (t.after < MeasurementLimit)
<1>1. PICK measured \in [{"load", "disk"} -> {1, 2, 3}], t \in Trouble :
          LET load == Evaluate(al, "load", measured["load"], t)
              directory == Evaluate(load, "directory", UpdateValue(load), t)
          IN al' = Evaluate(directory, "disk", measured["disk"], t) /\ alBroken' = (t.after < MeasurementLimit)
  BY DEF AlTick
<1> DEFINE load == Evaluate(al, "load", measured["load"], t)
           v == UpdateValue(load)
           directory == Evaluate(load, "directory", v, t)
           d == measured["disk"]
           disk == Evaluate(directory, "disk", d, t)
<1>2. al' = disk /\ {"load", "directory", "disk"} = AlarmMonitors
  BY <1>1 DEF AlarmMonitors
<1>3. AlGood(load, alRest, alLowered) /\ Removed(al.present, al.flagged, load.present, load.flagged, t)
  BY <1>2, EvaluateOK DEF AlIInv
<1> HIDE DEF load, v
<1>4. AlGood(directory, alRest, alLowered) /\ Removed(load.present, load.flagged, directory.present, directory.flagged, t)
  BY <1>2, <1>3, EvaluateOK
<1> HIDE DEF directory, d
<1>5. AlGood(disk, alRest, alLowered) /\ Removed(directory.present, directory.flagged, disk.present, disk.flagged, t)
  BY <1>2, <1>4, EvaluateOK
<1> HIDE DEF disk
<1>6. Removed(al.present, al.flagged, directory.present, directory.flagged, t)
  BY <1>3, <1>4, RemovedTwice
<1>7. Removed(al.present, al.flagged, disk.present, disk.flagged, t)
  BY <1>5, <1>6, RemovedTwice
<1>8. alTicks' \in 0..TickLimit /\ alRest' = alRest /\ alLowered' = (alLowered /\ al'.on # {}) /\ alBroken' \in BOOLEAN
      /\ alLowered' \in BOOLEAN
  BY <1>1, AlarmsConstants DEF AlTick, AlIInv
<1>9. AlGood(disk, alRest, alLowered')
  <2>1. disk.on # {} /\ alLowered' = FALSE => alLowered = FALSE
    BY <1>2, <1>8 DEF AlIInv
  <2> QED BY <1>5, <2>1 DEF AlGood
<1> QED BY <1>1, <1>2, <1>7, <1>8, <1>9 DEF AlIInv

LEMMA AlMeasureOK == ASSUME AlIInv, AlMeasure PROVE AlIInv' /\ al.present \subseteq al'.present
<1>1. PICK e \in 1..MeasurementLimit \ al.present : al' = [al EXCEPT !.present = al.present \cup {e}]
  BY DEF AlMeasure, AlIInv, AlGood, AlShape, AlarmFields
<1> DEFINE present == al.present \cup {e}
<1> HIDE DEF present
<1>2. al' = [al EXCEPT !.present = present]
  BY <1>1 DEF present
<1>3. DOMAIN al' = AlarmFields /\ al'.present = present /\ al'.on = al.on /\ al'.counter = al.counter
      /\ al'.origin = al.origin /\ al'.flagged = al.flagged /\ al'.log = al.log
  BY <1>2 DEF AlIInv, AlGood, AlShape, AlarmFields
<1>4. AlShape(al')
  BY <1>3 DEF AlIInv, AlGood, AlShape, present
<1>5. UNCHANGED <<alTicks, alRest, alLowered, alBroken>>
  BY DEF AlMeasure
<1> QED BY <1>3, <1>4, <1>5 DEF AlIInv, AlGood, present

LEMMA AlFlagOK == ASSUME AlIInv, AlFlag PROVE AlIInv' /\ al.present = al'.present
<1>1. PICK e \in al.present \ al.flagged : al' = [al EXCEPT !.flagged = al.flagged \cup {e}]
  BY DEF AlFlag, AlIInv, AlGood, AlShape, AlarmFields
<1> DEFINE flagged == al.flagged \cup {e}
<1> HIDE DEF flagged
<1>2. al' = [al EXCEPT !.flagged = flagged]
  BY <1>1 DEF flagged
<1>3. DOMAIN al' = AlarmFields /\ al'.present = al.present /\ al'.on = al.on /\ al'.counter = al.counter
      /\ al'.origin = al.origin /\ al'.flagged = flagged /\ al'.log = al.log
  BY <1>2 DEF AlIInv, AlGood, AlShape, AlarmFields
<1>4. AlShape(al')
  BY <1>3 DEF AlIInv, AlGood, AlShape, flagged
<1>5. UNCHANGED <<alTicks, alRest, alLowered, alBroken>>
  BY DEF AlFlag
<1> QED BY <1>3, <1>4, <1>5 DEF AlIInv, AlGood

LEMMA AlConfigureOK == ASSUME AlIInv, AlConfigure PROVE AlIInv' /\ al.present = al'.present
<1>1. PICK level \in {Debug, Error} :
        /\ al' = [al EXCEPT !.log = OnLogConfigChanged(al.log, Size(al.log), level)]
        /\ IF al.on = {} THEN alRest' = level /\ UNCHANGED alLowered
           ELSE alLowered' = TRUE /\ UNCHANGED alRest
  BY DEF AlConfigure, AlIInv, AlGood, AlShape, AlarmFields
<1>2. level \in Levels /\ LogGood(al.log) /\ Size(al.log) \in Nat \ {0} /\ RingStays(al.log, Size(al.log))
  <2>1. level \in Levels
    BY DEF Debug, Error, Levels
  <2>2. LogGood(al.log)
    BY DEF AlIInv, AlGood, AlShape, RingOK
  <2>3. Size(al.log) \in Nat \ {0}
    BY <2>2 DEF LogGood
  <2> QED BY <2>1, <2>2, <2>3 DEF RingStays
<1> DEFINE n == Size(al.log)
           x == OnLogConfigChanged(al.log, n, level)
<1>3. LogGood(x) /\ x.level = level /\ x.next = al.log.next /\ \A w : RingHolds(al.log, w) => RingHolds(x, w)
  <2>1. x = OnLogConfigChanged(al.log, n, level) /\ n \in Nat /\ RingStays(al.log, n)
    BY <1>2
  <2> HIDE DEF x, n
  <2> QED BY <1>2, <2>1, ConfiguredOK
<1>4. al' = [al EXCEPT !.log = x]
  BY <1>1
<1> HIDE DEF x, n
<1>5. RingOK(x)
  BY <1>3 DEF AlIInv, AlGood, AlShape, RingOK
<1>6. DOMAIN al' = AlarmFields /\ al'.present = al.present /\ al'.on = al.on /\ al'.counter = al.counter
      /\ al'.origin = al.origin /\ al'.flagged = al.flagged /\ al'.log = x
  BY <1>4 DEF AlIInv, AlGood, AlShape, AlarmFields
<1>7. AlShape(al')
  BY <1>5, <1>6 DEF AlIInv, AlGood, AlShape
<1>8. alTicks' \in 0..TickLimit /\ alBroken' = alBroken
  BY AlarmsConstants DEF AlConfigure, AlIInv
<1>9. CASE al.on = {}
  BY <1>1, <1>2, <1>3, <1>6, <1>7, <1>8, <1>9 DEF AlIInv, AlGood
<1>10. CASE al.on # {}
  BY <1>1, <1>2, <1>3, <1>6, <1>7, <1>8, <1>10 DEF AlIInv, AlGood
<1> QED BY <1>6, <1>9, <1>10

RemovalStep ==
    LET gone == al.present \ al'.present
    IN gone # {} => /\ gone \subseteq al.flagged
                    /\ Cardinality(al'.present) >= MeasurementKeep
                    /\ Cardinality(al'.present) > MeasurementKeep /\ ~alBroken' => al'.flagged = {}

LEMMA AlStepKeeps == AlIInv /\ [AlNext]_alOwn => AlIInv' /\ RemovalStep
<1> SUFFICES ASSUME AlIInv, [AlNext]_alOwn PROVE AlIInv' /\ RemovalStep
  OBVIOUS
<1>1. CASE AlTick
  <2>1. AlIInv'
    BY <1>1, AlTickOK
  <2>2. PICK t \in Trouble : Removed(al.present, al.flagged, al'.present, al'.flagged, t)
                             /\ alBroken' = (t.after < MeasurementLimit)
    BY <1>1, AlTickOK
  <2>3. ~alBroken' => t.after = MeasurementLimit
    <3>1. t.after \in 0..MeasurementLimit /\ MeasurementLimit \in Nat
      BY AlarmsConstants DEF Trouble
    <3>2. ~(t.after < MeasurementLimit) => t.after = MeasurementLimit
      BY <3>1
    <3> QED BY <2>2, <3>2
  <2> QED BY <2>1, <2>2, <2>3 DEF Removed, RemovalStep
<1>2. CASE AlMeasure
  BY <1>2, AlMeasureOK DEF RemovalStep
<1>3. CASE AlFlag
  BY <1>3, AlFlagOK DEF RemovalStep
<1>5. CASE AlConfigure
  BY <1>5, AlConfigureOK DEF RemovalStep
<1>4. CASE UNCHANGED alOwn
  BY <1>4 DEF AlIInv, RemovalStep, alOwn
<1> QED BY <1>1, <1>2, <1>3, <1>4, <1>5 DEF AlNext

LEMMA AlInvariant == AlSpec => []AlIInv
BY AlInitHolds, AlStepKeeps, PTL DEF AlSpec

(* The counter is the number of the alarms, however they come and go         *)
(* together; the level is raised while any is on, until one is configured,   *)
(* and back at that from before the first when the last has gone.            *)
THEOREM LevelAlwaysFollows == AlSpec => []LevelFollowsAlarms
<1>1. AlIInv => LevelFollowsAlarms
  BY DEF AlIInv, AlGood, LevelFollowsAlarms
<1> QED BY <1>1, AlInvariant, PTL

(* The alarms remove flagged measurements only, and of these as many as are  *)
(* above the number to keep, or up to one whose removal throws: for any      *)
(* numbers of measurements.                                                  *)
THEOREM OnlyFlaggedRemoved == AlSpec => RemovesFlaggedOnly
<1>1. AlIInv /\ [AlNext]_alOwn => [RemovalStep]_alVars
  BY AlStepKeeps
<1> QED BY <1>1, AlInvariant, PTL DEF AlSpec, RemovesFlaggedOnly, RemovalStep

LEMMA AlTypes == AlSpec => []AlTypeOK
<1>1. AlIInv => AlTypeOK
  <2> SUFFICES ASSUME AlIInv PROVE AlTypeOK
    OBVIOUS
  <2>1. AlShape(al) /\ al.counter = Cardinality(al.on) /\ al.origin \in {None} \cup Levels /\ alTicks \in 0..TickLimit
        /\ alRest \in Levels /\ alLowered \in BOOLEAN /\ alBroken \in BOOLEAN
    BY DEF AlIInv, AlGood
  <2>2. al.counter \in 0..Cardinality(AlarmMonitors)
    <3>1. IsFiniteSet(AlarmMonitors) /\ al.on \in SUBSET AlarmMonitors
      BY <2>1, OnIsFinite DEF AlShape
    <3> QED BY <2>1, <3>1, FS_Subset, FS_CardinalityType
  <2>3. LogState(al.log)
    BY <2>1, GoodIsState DEF AlShape, RingOK
  <2> QED BY <2>1, <2>2, <2>3 DEF AlTypeOK, AlShape, AlarmFields
<1> QED BY <1>1, AlInvariant, PTL

(* The log over everything that happens to it.                               *)
THEOREM LogAlwaysTrue == LgSpec /\ AlSpec => []LogIsTrue
BY RingAlwaysNewest, NeverLoggedTwice, LevelAlwaysFollows, PTL DEF LogIsTrue

----------------------------------------------------------------------------
(***************************************************************************)
(* The configuration: the interface follows the document, and what still   *)
(* goes to the DC ends with what the document says.                        *)
(***************************************************************************)
Follows(c) ==
    /\ c.flags = c.doc.mode
    /\ c.doc.mode = "Manual" => c.interface.ip = c.doc.ip

UsedBy(c, behind) ==
    /\ "network" \notin behind => Follows(c)
    /\ "ntp" \notin behind => c.ntpConf = c.doc.timeServer
    /\ "web" \notin behind => c.web = c.doc.port
    /\ "du" \notin behind => c.du = c.doc.keep

IsMode(q) == q.kind = "mode"
IsFull(q) == q.kind = "mode" /\ q.only # TRUE

ModeKnown(W, mode, dcMode) ==
    /\ \A i \in DOMAIN W : IsMode(W[i]) /\ (\A k \in DOMAIN W : i < k => ~IsMode(W[k])) => W[i].mode = mode
    /\ (\A i \in DOMAIN W : ~IsMode(W[i])) => dcMode = mode

AddressKnown(W, ip, dcIp) ==
    (\A i \in DOMAIN W : ~IsFull(W[i])) =>
        /\ \A i \in DOMAIN W : ~IsMode(W[i]) /\ (\A k \in DOMAIN W : i < k => IsMode(W[k])) =>
              W[i].mode = "Manual" /\ W[i].ip = ip
        /\ (\A i \in DOMAIN W : IsMode(W[i])) => dcIp = ip

DcKnows(W, doc, dc) ==
    ModeKnown(W, doc.mode, dc.mode) /\ (doc.mode = "Manual" => AddressKnown(W, doc.ip, dc.ip))

CgIInv ==
    /\ cg \in Daemon /\ cg.interface.mode = cg.flags
    /\ cgLease \in Addresses /\ cgDc \in DcView /\ cgWire \in Seq(Query)
    /\ cgBehind \subseteq Handlers /\ cgDcBehind \in BOOLEAN /\ cgOps \in 0..OpLimit
    /\ UsedBy(cg, cgBehind)
    /\ cgDcBehind = FALSE => DcKnows(cgWire, cg.doc, cgDc)

----------------------------------------------------------------------------
InUseAs(c, d) ==
    /\ d.flags = c.flags /\ d.ip = c.ip /\ d.ntp = c.ntp /\ d.interface = c.interface
    /\ d.ntpConf = c.ntpConf /\ d.web = c.web /\ d.du = c.du

PutDone(c, d, p, v) ==
    /\ d \in Daemon /\ InUseAs(c, d)
    /\ \A q \in Params : d.doc[q] = IF q = p THEN v ELSE c.doc[q]
    /\ c.mask \subseteq d.mask /\ d.mask \subseteq c.mask \cup Bits(p)
    /\ c.doc[p] # v => Bits(p) \subseteq d.mask

\* The document e is doc with v for p.
DocSet(doc, p, v, e) == e \in CgDocument /\ \A q \in Params : e[q] = IF q = p THEN v ELSE doc[q]

LEMMA DocWith ==
    ASSUME NEW doc \in CgDocument, NEW p \in Params, NEW v \in Values(p)
    PROVE  DocSet(doc, p, v, [doc EXCEPT ![p] = v])
<1>1. CASE p = "mode"
  BY <1>1 DEF CgDocument, Values, Params, DocSet
<1>2. CASE p = "ip"
  BY <1>2 DEF CgDocument, Values, Params, DocSet
<1>3. CASE p = "timeServer"
  BY <1>3 DEF CgDocument, Values, Params, DocSet
<1>4. CASE p = "hostname"
  BY <1>4 DEF CgDocument, Values, Params, DocSet
<1>5. CASE p = "port"
  BY <1>5 DEF CgDocument, Values, Params, DocSet
<1>6. CASE p = "keep"
  BY <1>6 DEF CgDocument, Values, Params, DocSet
<1> QED BY <1>1, <1>2, <1>3, <1>4, <1>5, <1>6 DEF Params

\* Put sets the parameter and the bits of its handlers.
SetIn(c, p, v, mask) == [c EXCEPT !.doc[p] = v, !.mask = mask]

DaemonSet(c, p, v, mask, d) == d \in Daemon /\ InUseAs(c, d) /\ d.mask = mask /\ DocSet(c.doc, p, v, d.doc)

LEMMA SetDoc ==
    ASSUME NEW c \in Daemon, NEW p \in Params, NEW v \in Values(p), NEW mask \in SUBSET Handlers
    PROVE  DaemonSet(c, p, v, mask, SetIn(c, p, v, mask))
<1> DEFINE doc == [c.doc EXCEPT ![p] = v]
           d == SetIn(c, p, v, mask)
<1>1. d = [c EXCEPT !.doc = doc, !.mask = mask]
  BY DEF Daemon, SetIn
<1>2. DocSet(c.doc, p, v, doc)
  <2>1. c.doc \in CgDocument
    BY DEF Daemon
  <2> QED BY <2>1, DocWith
<1>3. doc \in CgDocument
  BY <1>2 DEF DocSet
<1> HIDE DEF doc, d
<1>4. d \in Daemon /\ d.doc = doc /\ d.mask = mask /\ InUseAs(c, d)
  BY <1>1, <1>3 DEF Daemon, InUseAs
<1>5. DaemonSet(c, p, v, mask, d)
  BY <1>2, <1>4 DEF DaemonSet
<1> QED BY <1>5 DEF d

LEMMA PutOK ==
    ASSUME NEW c \in Daemon, NEW p \in Params, NEW v \in Values(p), NEW d, d = Put(c, p, v)
    PROVE  PutDone(c, d, p, v)
<1>1. CASE c.doc[p] = v
  BY <1>1 DEF Put, PutDone, InUseAs
<1>2. CASE c.doc[p] # v
  <2> DEFINE mask == c.mask \cup Bits(p)
  <2>1. mask \in SUBSET Handlers
    BY DEF Daemon, Bits, Handlers
  <2>2. d = SetIn(c, p, v, mask)
    BY <1>2 DEF Put, Daemon, SetIn
  <2> HIDE DEF mask
  <2>3. DaemonSet(c, p, v, mask, d)
    BY <2>1, <2>2, SetDoc
  <2>4. c.mask \subseteq mask /\ mask \subseteq c.mask \cup Bits(p) /\ Bits(p) \subseteq mask
    BY DEF mask
  <2> QED BY <2>3, <2>4 DEF PutDone, DaemonSet, DocSet
<1> QED BY <1>1, <1>2

NetWritten(c, d) ==
    /\ d \in Daemon /\ InUseAs(c, d) /\ d.mask = {}
    /\ d.doc["mode"] = c.flags /\ d.doc["ip"] = c.ip
    /\ \A q \in Params \ {"mode", "ip"} : d.doc[q] = c.doc[q]

LEMMA WriteNetOnlyOK ==
    ASSUME NEW c \in Daemon, NEW d, d = WriteNetOnly(c)
    PROVE  NetWritten(c, d)
<1> DEFINE a == Put(c, "mode", c.flags)
           b == Put(a, "ip", c.ip)
<1>1. "mode" \in Params /\ "ip" \in Params /\ c.flags \in Values("mode") /\ c.ip \in Values("ip")
  BY DEF Params, Values, Daemon
<1>2. PutDone(c, a, "mode", c.flags)
  <2>1. a = Put(c, "mode", c.flags)
    OBVIOUS
  <2> HIDE DEF a
  <2> QED BY <1>1, <2>1, PutOK
<1>3. a \in Daemon
  BY <1>2 DEF PutDone
<1> HIDE DEF a
<1>4. PutDone(a, b, "ip", c.ip)
  <2>1. b = Put(a, "ip", c.ip)
    OBVIOUS
  <2> HIDE DEF b
  <2> QED BY <1>1, <1>3, <2>1, PutOK
<1>5. d = [b EXCEPT !.mask = {}]
  BY DEF WriteNetOnly, a
<1> HIDE DEF b
<1>6. d \in Daemon /\ d.doc = b.doc /\ d.mask = {} /\ InUseAs(b, d)
  BY <1>4, <1>5 DEF Daemon, InUseAs, PutDone
<1> QED BY <1>1, <1>2, <1>4, <1>6 DEF NetWritten, PutDone, InUseAs

\* The network is set up with the flags and the address that were collected.
NetUpdated(c, d) ==
    /\ d \in Daemon /\ d.flags = c.flags /\ d.interface.mode = c.flags
    /\ d.ntp = c.ntp /\ d.ntpConf = c.ntpConf /\ d.web = c.web /\ d.du = c.du
    /\ \A q \in Params \ {"mode", "ip"} : d.doc[q] = c.doc[q]
    /\ \/ c.flags = "DHCP" /\ d.doc["mode"] = "DHCP" /\ d.mask = {}
       \/ c.flags = "Manual" /\ d.doc = c.doc /\ d.mask = c.mask /\ d.interface.ip = c.ip

LEMMA UpdateNetworkOK ==
    ASSUME NEW c \in Daemon, NEW lease \in Addresses, NEW d, d = UpdateNetwork(c, lease)
    PROVE  NetUpdated(c, d)
<1> DEFINE if == [mode |-> c.flags, ip |-> IF c.flags = "DHCP" THEN lease ELSE c.ip]
           up == [c EXCEPT !.interface = if]
<1>1. if \in [mode : Modes, ip : Addresses] /\ if.mode = c.flags /\ (c.flags # "DHCP" => if.ip = c.ip)
  BY DEF Daemon
<1>2. c.flags = "DHCP" \/ c.flags = "Manual"
  BY DEF Daemon, Modes
<1>3. d = IF c.flags = "DHCP" THEN WriteNetOnly(CheckBack(up)) ELSE up
  BY DEF UpdateNetwork, Daemon
<1> HIDE DEF if
<1>4. up \in Daemon /\ up.interface = if /\ up.doc = c.doc /\ up.mask = c.mask /\ up.flags = c.flags /\ up.ip = c.ip
      /\ up.ntp = c.ntp /\ up.ntpConf = c.ntpConf /\ up.web = c.web /\ up.du = c.du
  BY <1>1 DEF Daemon
<1> HIDE DEF up
<1>5. CASE c.flags = "Manual"
  BY <1>1, <1>3, <1>4, <1>5 DEF NetUpdated
<1>6. CASE c.flags = "DHCP"
  <2> DEFINE e == CheckBack(up)
  <2>1. e \in Daemon /\ e.interface = if /\ e.doc = c.doc /\ e.flags = c.flags
        /\ e.ntp = c.ntp /\ e.ntpConf = c.ntpConf /\ e.web = c.web /\ e.du = c.du
    BY <1>1, <1>4 DEF CheckBack, Daemon
  <2>2. d = WriteNetOnly(e)
    BY <1>3, <1>6
  <2> HIDE DEF e
  <2>3. NetWritten(e, d)
    BY <2>1, <2>2, WriteNetOnlyOK
  <2> QED BY <1>1, <1>6, <2>1, <2>3 DEF NetUpdated, NetWritten, InUseAs
<1> QED BY <1>2, <1>5, <1>6

\* The network is set up from the document.
NetFollows(c, d) ==
    /\ d \in Daemon /\ Follows(d) /\ d.interface.mode = d.flags
    /\ d.ntpConf = c.ntpConf /\ d.web = c.web /\ d.du = c.du
    /\ \A q \in Params \ {"ip"} : d.doc[q] = c.doc[q]
    /\ (d.flags = "DHCP" /\ d.mask = {}) \/ (d.flags = "Manual" /\ d.mask = c.mask)

LEMMA NetworkFromDoc ==
    ASSUME NEW c \in Daemon, NEW lease \in Addresses, NEW d, d = UpdateNetwork(CollectData(c), lease)
    PROVE  NetFollows(c, d)
<1> DEFINE e == CollectData(c)
<1>1. "0.0.0.0" \in Addresses /\ c.doc.mode \in Modes /\ c.doc.ip \in Addresses
  BY DEF Addresses, Daemon, CgDocument
<1>2. e \in Daemon /\ e.flags = c.doc.mode /\ e.ip = c.doc.ip /\ e.doc = c.doc /\ e.mask = c.mask
      /\ e.ntpConf = c.ntpConf /\ e.web = c.web /\ e.du = c.du
  BY <1>1 DEF CollectData, Daemon
<1>3. NetUpdated(e, d)
  <2>1. d = UpdateNetwork(e, lease)
    OBVIOUS
  <2> HIDE DEF e
  <2> QED BY <1>2, <2>1, UpdateNetworkOK
<1> HIDE DEF e
<1>4. c.doc["mode"] = c.doc.mode /\ d.doc["mode"] = d.doc.mode /\ "mode" \in Params
  BY DEF Params
<1> QED BY <1>2, <1>3, <1>4 DEF NetFollows, NetUpdated, Follows

----------------------------------------------------------------------------
\* A setConf without the host name: only the document and the mask.
PlainSet(g, names, c) ==
    /\ c \in Daemon /\ InUseAs(g, c)
    /\ \A q \in Params : c.doc[q] # g.doc[q] => q \in names /\ Bits(q) \subseteq c.mask
    /\ \A h \in c.mask : \E p \in names : h \in Bits(p)

LEMMA PlainStart ==
    ASSUME NEW g \in Daemon, NEW c, c = [g EXCEPT !.mask = {}]
    PROVE  PlainSet(g, {}, c)
BY DEF PlainSet, InUseAs, Daemon

LEMMA PlainMore ==
    ASSUME NEW g \in Daemon, NEW N, NEW c, PlainSet(g, N, c), NEW p \in Params, NEW v, NEW d, PutDone(c, d, p, v),
           NEW M, M = N \cup {p}
    PROVE  PlainSet(g, M, d)
<1>1. d \in Daemon /\ InUseAs(g, d)
  BY DEF PlainSet, PutDone, InUseAs
<1>2. \A h \in d.mask : \E q \in M : h \in Bits(q)
  BY DEF PlainSet, PutDone
<1>3. ASSUME NEW q \in Params, d.doc[q] # g.doc[q] PROVE q \in M /\ Bits(q) \subseteq d.mask
  <2>1. CASE c.doc[q] # g.doc[q]
    BY <2>1 DEF PlainSet, PutDone
  <2>2. CASE c.doc[q] = g.doc[q]
    <3>1. q = p /\ v # c.doc[p]
      BY <1>3, <2>2 DEF PutDone
    <3> QED BY <3>1 DEF PutDone
  <2> QED BY <2>1, <2>2
<1> QED BY <1>1, <1>2, <1>3 DEF PlainSet

\* A setConf with the host name, for which the network is set up at once.
HostSet(g, c) ==
    /\ c \in Daemon /\ Follows(c) /\ c.interface.mode = c.flags
    /\ c.ntpConf = g.ntpConf /\ c.web = g.web /\ c.du = g.du
    /\ \A q \in Params \ {"ip", "keep", "hostname"} : c.doc[q] = g.doc[q]
    /\ c.mask \subseteq {"du"}
    /\ c.flags = "Manual" /\ c.doc["keep"] # g.doc["keep"] => "du" \in c.mask

\* From a state in which at most the time to keep the logs is set.
LEMMA HostStep ==
    ASSUME NEW g \in Daemon, NEW N \in SUBSET {"keep"}, NEW c, PlainSet(g, N, c), NEW lease \in Addresses,
           NEW v \in Values("hostname"), NEW d, d = SetConfParameter(c, "hostname", v, lease)
    PROVE  HostSet(g, d)
<1> DEFINE e == UpdateNetwork(CollectData(c), lease)
<1>1. c \in Daemon
  BY DEF PlainSet
<1>2. NetFollows(c, e)
  <2>1. e = UpdateNetwork(CollectData(c), lease)
    OBVIOUS
  <2> HIDE DEF e
  <2> QED BY <1>1, <2>1, NetworkFromDoc
<1>3. e \in Daemon /\ "hostname" \in Params /\ "keep" \in Params /\ "mode" \in Params /\ "ip" \in Params
  BY <1>2 DEF NetFollows, Params
<1>4. PutDone(e, d, "hostname", v)
  <2>1. d = Put(e, "hostname", v)
    BY DEF SetConfParameter
  <2> HIDE DEF e
  <2> QED BY <1>3, <2>1, PutOK
<1> HIDE DEF e
<1>5. Bits("hostname") = {} /\ Bits("keep") = {"du"}
  BY DEF Bits
<1>6. c.mask \subseteq {"du"} /\ (c.doc["keep"] # g.doc["keep"] => "du" \in c.mask)
  BY <1>3, <1>5 DEF PlainSet
<1>7. e.mask \subseteq {"du"} /\ d.mask = e.mask
  BY <1>2, <1>4, <1>5, <1>6 DEF NetFollows, PutDone
<1>8. d.doc["mode"] = e.doc["mode"] /\ d.doc["ip"] = e.doc["ip"] /\ d.doc["keep"] = e.doc["keep"]
  BY <1>3, <1>4 DEF PutDone
<1>9. d.doc.mode = e.doc.mode /\ d.doc.ip = e.doc.ip
  BY <1>8
<1>10. Follows(d) /\ d.interface.mode = d.flags /\ d.flags = e.flags
  BY <1>2, <1>4, <1>9 DEF Follows, NetFollows, PutDone, InUseAs
<1>11. d \in Daemon /\ d.ntpConf = g.ntpConf /\ d.web = g.web /\ d.du = g.du
  BY <1>2, <1>4 DEF NetFollows, PutDone, InUseAs, PlainSet
<1>12. \A q \in Params \ {"ip", "keep", "hostname"} : d.doc[q] = g.doc[q]
  BY <1>2, <1>4 DEF NetFollows, PutDone, PlainSet
<1>13. d.flags = "Manual" /\ d.doc["keep"] # g.doc["keep"] => "du" \in d.mask
  <2> SUFFICES ASSUME d.flags = "Manual", d.doc["keep"] # g.doc["keep"] PROVE "du" \in d.mask
    OBVIOUS
  <2>1. e.mask = c.mask /\ e.doc["keep"] = c.doc["keep"]
    BY <1>2, <1>3, <1>10 DEF NetFollows
  <2> QED BY <1>6, <1>7, <1>8, <2>1
<1> QED BY <1>7, <1>10, <1>11, <1>12, <1>13 DEF HostSet

----------------------------------------------------------------------------
LEMMA SettingsAre ==
    ASSUME NEW ps \in Settings
    PROVE  \/ Len(ps) = 1 /\ ps[1] \in Params /\ ToSet(ps) = {ps[1]}
           \/ Len(ps) = 2 /\ ps[1] \in Params \ {"hostname"} /\ ps[2] \in Params /\ ToSet(ps) = {ps[1], ps[2]}
              /\ (ps[2] = "hostname" => ps[1] = "keep")
<1>1. CASE \E s \in Params : ps = <<s>>
  BY <1>1 DEF ToSet
<1>2. CASE \E s, t \in Params : ps = <<s, t>> /\ s # "hostname" /\ (t = "hostname" => s = "keep")
  BY <1>2 DEF ToSet
<1> QED BY <1>1, <1>2 DEF Settings, Params

\* What the parameters of a setConf come to.
LEMMA SetParametersOK ==
    ASSUME NEW g \in Daemon, NEW ps \in Settings, NEW vs \in SettingsOf(ps), NEW lease \in Addresses,
           NEW d, d = SetParameters(g, [i \in 1..Len(ps) |-> <<ps[i], vs[i]>>], lease)
    PROVE  IF "hostname" \in ToSet(ps) THEN HostSet(g, d) ELSE PlainSet(g, ToSet(ps), d)
<1> DEFINE start == [g EXCEPT !.mask = {}]
           N == {}
           one == SetConfParameter(start, ps[1], vs[1], lease)
<1>1. PlainSet(g, N, start)
  BY PlainStart
<1>2. start \in Daemon
  BY <1>1 DEF PlainSet
<1>3. vs[1] \in Values(ps[1]) /\ (Len(ps) = 2 => vs[2] \in Values(ps[2]))
  BY SettingsAre DEF SettingsOf
<1>4. d = IF Len(ps) = 1 THEN one ELSE SetConfParameter(one, ps[2], vs[2], lease)
  BY SettingsAre DEF SetParameters
<1>5. N \in SUBSET {"keep"}
  OBVIOUS
<1> HIDE DEF start, N
<1>6. ASSUME ps[1] # "hostname", ps[1] \in Params PROVE PlainSet(g, {ps[1]}, one)
  <2> DEFINE M == {ps[1]}
  <2>1. PutDone(start, one, ps[1], vs[1])
    <3>1. one = Put(start, ps[1], vs[1])
      BY <1>6 DEF SetConfParameter
    <3> HIDE DEF one
    <3> QED BY <1>2, <1>3, <1>6, <3>1, PutOK
  <2>2. M = N \cup {ps[1]}
    BY DEF N
  <2> HIDE DEF M, one
  <2>3. PlainSet(g, M, one)
    BY <1>1, <1>6, <2>1, <2>2, PlainMore
  <2> QED BY <2>3 DEF M
<1>7. CASE Len(ps) = 1 /\ ps[1] \in Params /\ ToSet(ps) = {ps[1]}
  <2>1. CASE ps[1] = "hostname"
    <3>1. d = SetConfParameter(start, "hostname", vs[1], lease) /\ vs[1] \in Values("hostname")
      BY <1>3, <1>4, <1>7, <2>1
    <3>2. HostSet(g, d)
      BY <1>1, <1>5, <3>1, HostStep
    <3> QED BY <1>7, <2>1, <3>2
  <2>2. CASE ps[1] # "hostname"
    <3> HIDE DEF one
    <3> QED BY <1>4, <1>6, <1>7, <2>2
  <2> QED BY <2>1, <2>2
<1>8. CASE Len(ps) = 2 /\ ps[1] \in Params \ {"hostname"} /\ ps[2] \in Params /\ ToSet(ps) = {ps[1], ps[2]}
           /\ (ps[2] = "hostname" => ps[1] = "keep")
  <2> HIDE DEF one
  <2> DEFINE M == {ps[1]}
             A == {ps[1], ps[2]}
  <2>1. PlainSet(g, M, one) /\ one \in Daemon
    BY <1>6, <1>8 DEF PlainSet
  <2>2. d = SetConfParameter(one, ps[2], vs[2], lease)
    BY <1>4, <1>8
  <2>3. CASE ps[2] = "hostname"
    <3>1. M \in SUBSET {"keep"} /\ vs[2] \in Values("hostname") /\ d = SetConfParameter(one, "hostname", vs[2], lease)
      BY <1>3, <1>8, <2>2, <2>3
    <3> HIDE DEF M
    <3>2. HostSet(g, d)
      BY <2>1, <3>1, HostStep
    <3> QED BY <1>8, <2>3, <3>2
  <2>4. CASE ps[2] # "hostname"
    <3>1. d = Put(one, ps[2], vs[2])
      BY <2>2, <2>4 DEF SetConfParameter
    <3>2. PutDone(one, d, ps[2], vs[2])
      BY <1>3, <1>8, <2>1, <3>1, PutOK
    <3>3. A = M \cup {ps[2]}
      OBVIOUS
    <3> HIDE DEF M, A
    <3>4. PlainSet(g, A, d)
      BY <1>8, <2>1, <3>2, <3>3, PlainMore
    <3> QED BY <1>8, <2>4, <3>4 DEF A
  <2> QED BY <2>3, <2>4
<1> QED BY <1>7, <1>8, SettingsAre

----------------------------------------------------------------------------
\* confChanged: what the handlers of the mask have done.
HandlersRun(c, e) ==
    /\ e \in Daemon /\ e.interface.mode = e.flags
    /\ \A q \in Params \ {"ip"} : e.doc[q] = c.doc[q]
    /\ "network" \in c.mask => Follows(e)
    /\ "network" \notin c.mask => e.doc = c.doc /\ e.flags = c.flags /\ e.interface = c.interface
    /\ e.ntpConf = IF "ntp" \in c.mask THEN c.doc["timeServer"] ELSE c.ntpConf
    /\ \/ e.web = IF "web" \in c.mask THEN c.doc["port"] ELSE c.web
       \/ e.web = c.web /\ "network" \in c.mask /\ e.flags = "DHCP"
    /\ \/ e.du = IF "du" \in c.mask THEN c.doc["keep"] ELSE c.du
       \/ e.du = c.du /\ "network" \in c.mask /\ e.flags = "DHCP"

LEMMA EmitOK ==
    ASSUME NEW c \in Daemon, c.interface.mode = c.flags, NEW lease \in Addresses, NEW e, e = EmitConfigChanged(c, lease)
    PROVE  HandlersRun(c, e)
<1> DEFINE net == IF "network" \in c.mask THEN UpdateNetwork(CollectData(c), lease) ELSE c
           ntp == NetworkChanged(c, lease)
<1>1. "network" \in c.mask => NetFollows(c, net)
  <2> SUFFICES ASSUME "network" \in c.mask PROVE NetFollows(c, net)
    OBVIOUS
  <2>1. net = UpdateNetwork(CollectData(c), lease)
    OBVIOUS
  <2> HIDE DEF net
  <2> QED BY <2>1, NetworkFromDoc
<1>2. net \in Daemon /\ net.interface.mode = net.flags /\ net.ntpConf = c.ntpConf /\ net.web = c.web /\ net.du = c.du
      /\ \A q \in Params \ {"ip"} : net.doc[q] = c.doc[q]
  BY <1>1 DEF NetFollows
<1>3. "network" \notin c.mask => net = c
  OBVIOUS
<1>4. ntp = IF "ntp" \in c.mask THEN UpdateNtpConfig(CollectNtpData(net)) ELSE net
  BY DEF NetworkChanged
<1>5. e = LaterChanged(ntp)
  BY DEF EmitConfigChanged
<1> HIDE DEF net, ntp
<1>6. ntp \in Daemon /\ ntp.interface = net.interface /\ ntp.flags = net.flags /\ ntp.doc = net.doc /\ ntp.mask = net.mask
      /\ ntp.web = net.web /\ ntp.du = net.du
      /\ ntp.ntpConf = IF "ntp" \in c.mask THEN net.doc.timeServer ELSE net.ntpConf
  <2>1. net.doc.timeServer \in Addresses
    BY <1>2 DEF Daemon, CgDocument
  <2> QED BY <1>2, <1>4, <2>1 DEF Daemon, UpdateNtpConfig, CollectNtpData
<1>7. e \in Daemon /\ e.interface = ntp.interface /\ e.flags = ntp.flags /\ e.doc = ntp.doc
      /\ e.ntpConf = ntp.ntpConf
      /\ e.web = (IF "web" \in ntp.mask THEN ntp.doc.port ELSE ntp.web)
      /\ e.du = (IF "du" \in ntp.mask THEN ntp.doc.keep ELSE ntp.du)
  <2>1. ntp.doc.port \in {"0", "1"} /\ ntp.doc.keep \in {"0", "1"}
    BY <1>6 DEF Daemon, CgDocument
  <2> QED BY <1>5, <1>6, <2>1 DEF Daemon, LaterChanged
<1>8. \A q \in Params \ {"ip"} : e.doc[q] = c.doc[q]
  BY <1>2, <1>6, <1>7
<1>9. "timeServer" \in Params \ {"ip"} /\ "port" \in Params \ {"ip"} /\ "keep" \in Params \ {"ip"}
  BY DEF Params
<1>10. net.doc.timeServer = c.doc["timeServer"] /\ ntp.doc.port = c.doc["port"] /\ ntp.doc.keep = c.doc["keep"]
  BY <1>2, <1>6, <1>9
<1>11. "network" \in c.mask => Follows(e)
  BY <1>1, <1>6, <1>7 DEF NetFollows, Follows
<1>12. "network" \notin c.mask => e.doc = c.doc /\ e.flags = c.flags /\ e.interface = c.interface /\ ntp.mask = c.mask
  BY <1>3, <1>6, <1>7
<1>13. "network" \in c.mask => (e.flags = "DHCP" /\ ntp.mask = {}) \/ ntp.mask = c.mask
  BY <1>1, <1>6, <1>7 DEF NetFollows
<1>14. e.ntpConf = IF "ntp" \in c.mask THEN c.doc["timeServer"] ELSE c.ntpConf
  BY <1>2, <1>6, <1>7, <1>10
<1>15. \/ e.web = IF "web" \in c.mask THEN c.doc["port"] ELSE c.web
       \/ e.web = c.web /\ "network" \in c.mask /\ e.flags = "DHCP"
  BY <1>2, <1>6, <1>7, <1>10, <1>12, <1>13
<1>16. \/ e.du = IF "du" \in c.mask THEN c.doc["keep"] ELSE c.du
       \/ e.du = c.du /\ "network" \in c.mask /\ e.flags = "DHCP"
  BY <1>2, <1>6, <1>7, <1>10, <1>12, <1>13
<1>17. e.interface.mode = e.flags
  BY <1>2, <1>6, <1>7
<1> QED BY <1>7, <1>8, <1>11, <1>12, <1>14, <1>15, <1>16, <1>17 DEF HandlersRun

----------------------------------------------------------------------------
\* What a setConf leaves to be excused.
ExcusedBy(g, e, ps, complete, behind) ==
    LET touched == UNION {Bits(p) : p \in {q \in Params : e.doc[q] # g.doc[q]}}
    IN behind \cup IF ~complete \/ ("hostname" \in ToSet(ps) /\ e.flags = "DHCP") THEN touched
                   ELSE IF e.flags = "DHCP" /\ ToSet(ps) \cap {"mode", "ip", "port"} # {} THEN touched \cap {"web", "du"}
                   ELSE {}

LEMMA TouchedBy ==
    ASSUME NEW g, NEW e, NEW p \in Params, e.doc[p] # g.doc[p], NEW h \in Bits(p)
    PROVE  h \in UNION {Bits(q) : q \in {r \in Params : e.doc[r] # g.doc[r]}}
OBVIOUS

LEMMA BitsAre ==
    /\ Bits("mode") = {"network"} /\ Bits("ip") = {"network"} /\ Bits("port") = {"network", "web"}
    /\ Bits("timeServer") = {"ntp"} /\ Bits("keep") = {"du"} /\ Bits("hostname") = {}
BY DEF Bits

LEMMA NamesAre == {"mode", "ip", "timeServer", "hostname", "port", "keep"} = Params
BY DEF Params

\* Whatever is set without an announcement is excused.
LEMMA Unannounced ==
    ASSUME NEW g \in Daemon, NEW behind, UsedBy(g, behind), NEW d \in Daemon, InUseAs(g, d), NEW more,
           behind \subseteq more, \A p \in Params : d.doc[p] # g.doc[p] => Bits(p) \subseteq more
    PROVE  UsedBy(d, more)
<1>1. "network" \notin more => d.doc["mode"] = g.doc["mode"] /\ d.doc["ip"] = g.doc["ip"]
  BY BitsAre, NamesAre
<1>2. "ntp" \notin more => d.doc["timeServer"] = g.doc["timeServer"]
  BY BitsAre, NamesAre
<1>3. "web" \notin more => d.doc["port"] = g.doc["port"]
  BY BitsAre, NamesAre
<1>4. "du" \notin more => d.doc["keep"] = g.doc["keep"]
  BY BitsAre, NamesAre
<1> QED BY <1>1, <1>2, <1>3, <1>4 DEF UsedBy, InUseAs, Follows

LEMMA PlainUsed ==
    ASSUME NEW g \in Daemon, NEW behind, UsedBy(g, behind), NEW ps, "hostname" \notin ToSet(ps),
           NEW c, PlainSet(g, ToSet(ps), c), ToSet(ps) \subseteq Params, NEW e, HandlersRun(c, e),
           NEW more, more = ExcusedBy(g, e, ps, TRUE, behind)
    PROVE  UsedBy(e, more)
<1> DEFINE touched == UNION {Bits(p) : p \in {q \in Params : e.doc[q] # g.doc[q]}}
           netset == e.flags = "DHCP" /\ ToSet(ps) \cap {"mode", "ip", "port"} # {}
<1>1. behind \subseteq more /\ (netset => touched \cap {"web", "du"} \subseteq more)
  BY DEF ExcusedBy
<1>2. \A h \in c.mask : \E p \in ToSet(ps) : h \in Bits(p)
  BY DEF PlainSet
<1>3. \A p \in ToSet(ps) : "network" \in Bits(p) => p \in {"mode", "ip", "port"}
  BY BitsAre, NamesAre
<1>4. "network" \in c.mask /\ e.flags = "DHCP" => netset
  BY <1>2, <1>3
<1>5. e.doc["port"] = c.doc["port"] /\ e.doc["keep"] = c.doc["keep"] /\ e.doc["timeServer"] = c.doc["timeServer"]
  BY NamesAre DEF HandlersRun
<1>6. \A q \in Params : c.doc[q] # g.doc[q] => Bits(q) \subseteq c.mask
  BY DEF PlainSet
<1>7. c.flags = g.flags /\ c.interface = g.interface /\ c.ntpConf = g.ntpConf /\ c.web = g.web /\ c.du = g.du
  BY DEF PlainSet, InUseAs
<1>8. ASSUME "network" \notin more PROVE Follows(e)
  <2>1. CASE "network" \in c.mask
    BY <2>1 DEF HandlersRun
  <2>2. CASE "network" \notin c.mask
    <3>1. c.doc["mode"] = g.doc["mode"] /\ c.doc["ip"] = g.doc["ip"]
      BY <1>6, <2>2, BitsAre, NamesAre
    <3>2. e.doc = c.doc /\ e.flags = c.flags /\ e.interface = c.interface
      BY <2>2 DEF HandlersRun
    <3> QED BY <1>1, <1>7, <1>8, <3>1, <3>2 DEF UsedBy, Follows
  <2> QED BY <2>1, <2>2
<1>9. ASSUME "ntp" \notin more PROVE e.ntpConf = e.doc.timeServer
  <2>1. g.ntpConf = g.doc["timeServer"]
    BY <1>1, <1>9 DEF UsedBy
  <2>2. "ntp" \notin c.mask => c.doc["timeServer"] = g.doc["timeServer"]
    BY <1>6, BitsAre, NamesAre
  <2> QED BY <1>5, <1>7, <2>1, <2>2 DEF HandlersRun
<1>10. ASSUME "web" \notin more PROVE e.web = e.doc.port
  <2>1. g.web = g.doc["port"]
    BY <1>1, <1>10 DEF UsedBy
  <2>2. "web" \notin c.mask => c.doc["port"] = g.doc["port"]
    BY <1>6, BitsAre, NamesAre
  <2>3. netset => e.doc["port"] = g.doc["port"]
    <3> SUFFICES ASSUME netset, e.doc["port"] # g.doc["port"] PROVE FALSE
      OBVIOUS
    <3>1. "web" \in touched
      BY TouchedBy, BitsAre, NamesAre
    <3> QED BY <1>1, <1>10, <3>1
  <2>4. CASE e.web = IF "web" \in c.mask THEN c.doc["port"] ELSE c.web
    BY <1>5, <1>7, <2>1, <2>2, <2>4
  <2>5. CASE e.web = c.web /\ "network" \in c.mask /\ e.flags = "DHCP"
    BY <1>4, <1>5, <1>7, <2>1, <2>3, <2>5
  <2> QED BY <2>4, <2>5 DEF HandlersRun
<1>11. ASSUME "du" \notin more PROVE e.du = e.doc.keep
  <2>1. g.du = g.doc["keep"]
    BY <1>1, <1>11 DEF UsedBy
  <2>2. "du" \notin c.mask => c.doc["keep"] = g.doc["keep"]
    BY <1>6, BitsAre, NamesAre
  <2>3. netset => e.doc["keep"] = g.doc["keep"]
    <3> SUFFICES ASSUME netset, e.doc["keep"] # g.doc["keep"] PROVE FALSE
      OBVIOUS
    <3>1. "du" \in touched
      BY TouchedBy, BitsAre, NamesAre
    <3> QED BY <1>1, <1>11, <3>1
  <2>4. CASE e.du = IF "du" \in c.mask THEN c.doc["keep"] ELSE c.du
    BY <1>5, <1>7, <2>1, <2>2, <2>4
  <2>5. CASE e.du = c.du /\ "network" \in c.mask /\ e.flags = "DHCP"
    BY <1>4, <1>5, <1>7, <2>1, <2>3, <2>5
  <2> QED BY <2>4, <2>5 DEF HandlersRun
<1> QED BY <1>8, <1>9, <1>10, <1>11 DEF UsedBy

\* With the host name the mask has the disk usage at most.
LEMMA HostUsed ==
    ASSUME NEW g \in Daemon, NEW behind, UsedBy(g, behind), NEW c, HostSet(g, c),
           NEW e \in Daemon, e.doc = c.doc, e.flags = c.flags, e.interface = c.interface, e.ntpConf = c.ntpConf,
           e.web = c.web, NEW more, behind \subseteq more,
           \/ e.du = c.du /\ (e.doc["keep"] # g.doc["keep"] => "du" \in more)
           \/ e.flags = "Manual" /\ e.du = IF "du" \in c.mask THEN c.doc["keep"] ELSE c.du
    PROVE  UsedBy(e, more)
<1>1. Follows(e)
  BY DEF HostSet, Follows
<1>2. e.ntpConf = g.ntpConf /\ e.web = g.web /\ c.du = g.du
  BY DEF HostSet
<1>3. e.doc["timeServer"] = g.doc["timeServer"] /\ e.doc["port"] = g.doc["port"]
  BY NamesAre DEF HostSet
<1>4. ASSUME "du" \notin more PROVE e.du = e.doc["keep"]
  <2>1. g.du = g.doc["keep"]
    BY <1>4 DEF UsedBy
  <2> QED BY <1>2, <1>4, <2>1 DEF HostSet
<1> QED BY <1>1, <1>2, <1>3, <1>4 DEF UsedBy

\* What stays the same of the invariant while the queries to the DC do.
LEMMA DcUnless ==
    ASSUME CgIInv, cgDcBehind' = (cgDcBehind \/ ~SameNetwork(cg'.doc, cg.doc)), UNCHANGED <<cgWire, cgDc>>
    PROVE  cgDcBehind' \in BOOLEAN /\ (cgDcBehind' = FALSE => DcKnows(cgWire', cg'.doc, cgDc'))
BY DEF CgIInv, DcKnows, SameNetwork

\* An excuse that is not needed can be dropped.
LEMMA UsedLeft ==
    ASSUME NEW c, c.interface.mode = c.flags, NEW more, UsedBy(c, more),
           NEW left, left = {h \in more : ~InUse(c, h)}
    PROVE  UsedBy(c, left)
<1>1. ASSUME "network" \notin left PROVE Follows(c)
  <2>1. "network" \notin more \/ InUse(c, "network")
    BY <1>1
  <2> QED BY <2>1 DEF UsedBy, InUse, Follows
<1>2. ASSUME "ntp" \notin left PROVE c.ntpConf = c.doc.timeServer
  <2>1. "ntp" \notin more \/ InUse(c, "ntp")
    BY <1>2
  <2> QED BY <2>1 DEF UsedBy, InUse
<1>3. ASSUME "web" \notin left PROVE c.web = c.doc.port
  <2>1. "web" \notin more \/ InUse(c, "web")
    BY <1>3
  <2> QED BY <2>1 DEF UsedBy, InUse
<1>4. ASSUME "du" \notin left PROVE c.du = c.doc.keep
  <2>1. "du" \notin more \/ InUse(c, "du")
    BY <1>4
  <2> QED BY <2>1 DEF UsedBy, InUse
<1> QED BY <1>1, <1>2, <1>3, <1>4 DEF UsedBy

LEMMA ExcusedIn ==
    ASSUME NEW g, NEW e, NEW ps, NEW complete, NEW behind \in SUBSET Handlers
    PROVE  ExcusedBy(g, e, ps, complete, behind) \subseteq Handlers
<1>1. \A p \in Params : Bits(p) \subseteq Handlers
  BY BitsAre, NamesAre DEF Handlers
<1> QED BY <1>1 DEF ExcusedBy

\* One setConf, from the state g to the state e.
LEMMA SetConfUsed ==
    ASSUME NEW g \in Daemon, g.interface.mode = g.flags, NEW behind \in SUBSET Handlers, UsedBy(g, behind),
           NEW lease \in Addresses, NEW ps \in Settings, NEW vs \in SettingsOf(ps),
           NEW d, d = SetParameters(g, [i \in 1..Len(ps) |-> <<ps[i], vs[i]>>], lease),
           NEW complete \in BOOLEAN, NEW e, e = IF complete THEN EmitConfigChanged(d, lease) ELSE d,
           NEW more, more = ExcusedBy(g, e, ps, complete, behind)
    PROVE  e \in Daemon /\ e.interface.mode = e.flags /\ UsedBy(e, more)
<1>1. IF "hostname" \in ToSet(ps) THEN HostSet(g, d) ELSE PlainSet(g, ToSet(ps), d)
  BY SetParametersOK
<1>2. d \in Daemon /\ d.interface.mode = d.flags
  BY <1>1 DEF HostSet, PlainSet, InUseAs
<1>3. complete = TRUE => HandlersRun(d, e)
  <2> SUFFICES ASSUME complete = TRUE PROVE HandlersRun(d, e)
    OBVIOUS
  <2>1. e = EmitConfigChanged(d, lease)
    OBVIOUS
  <2> QED BY <1>2, <2>1, EmitOK
<1>4. complete = FALSE => e = d
  OBVIOUS
<1>5. behind \subseteq more
  BY DEF ExcusedBy
<1>6. complete = FALSE \/ ("hostname" \in ToSet(ps) /\ e.flags = "DHCP")
      => \A p \in Params : e.doc[p] # g.doc[p] => Bits(p) \subseteq more
  BY TouchedBy DEF ExcusedBy
<1>7. CASE "hostname" \notin ToSet(ps) /\ complete = TRUE
  <2>1. ToSet(ps) \subseteq Params /\ more = ExcusedBy(g, e, ps, TRUE, behind)
    BY <1>7, SettingsAre
  <2>2. UsedBy(e, more)
    BY <1>1, <1>3, <1>7, <2>1, PlainUsed
  <2> QED BY <1>3, <1>7, <2>2 DEF HandlersRun
<1>8. CASE "hostname" \notin ToSet(ps) /\ complete = FALSE
  <2>1. d \in Daemon /\ InUseAs(g, d) /\ \A p \in Params : d.doc[p] # g.doc[p] => Bits(p) \subseteq more
    BY <1>1, <1>4, <1>6, <1>8 DEF PlainSet
  <2>2. UsedBy(d, more)
    BY <1>5, <2>1, Unannounced
  <2> QED BY <1>2, <1>4, <1>8, <2>2
<1>9. CASE "hostname" \in ToSet(ps)
  <2>1. HostSet(g, d) /\ "network" \notin d.mask /\ "ntp" \notin d.mask /\ "web" \notin d.mask
    BY <1>1, <1>9 DEF HostSet
  <2>2. e \in Daemon /\ e.interface.mode = e.flags /\ e.doc = d.doc /\ e.flags = d.flags /\ e.interface = d.interface
        /\ e.ntpConf = d.ntpConf /\ e.web = d.web
        /\ e.du = IF "du" \in d.mask /\ complete = TRUE THEN d.doc["keep"] ELSE d.du
    BY <1>2, <1>3, <1>4, <2>1 DEF HandlersRun
  <2>3. CASE complete = FALSE \/ e.flags = "DHCP"
    <3>1. e.doc["keep"] # g.doc["keep"] => "du" \in more
      BY <1>6, <1>9, <2>3, BitsAre, NamesAre
    <3>2. CASE e.du = d.du
      <4>1. UsedBy(e, more)
        BY <1>5, <2>1, <2>2, <3>1, <3>2, HostUsed
      <4> QED BY <2>2, <4>1
    <3>3. CASE e.du = d.doc["keep"]
      <4>1. UsedBy(e, more)
        <5>1. Follows(e)
          BY <2>1, <2>2 DEF HostSet, Follows
        <5>2. e.ntpConf = g.ntpConf /\ e.web = g.web
          BY <2>1, <2>2 DEF HostSet
        <5>3. e.doc["timeServer"] = g.doc["timeServer"] /\ e.doc["port"] = g.doc["port"]
          BY <2>1, <2>2, NamesAre DEF HostSet
        <5>4. e.du = e.doc["keep"]
          BY <2>2, <3>3
        <5> QED BY <1>5, <5>1, <5>2, <5>3, <5>4 DEF UsedBy
      <4> QED BY <2>2, <4>1
    <3> QED BY <2>2, <3>2, <3>3
  <2>4. CASE complete = TRUE /\ e.flags = "Manual"
    <3>1. \/ e.du = d.du /\ (e.doc["keep"] # g.doc["keep"] => "du" \in more)
          \/ e.flags = "Manual" /\ e.du = IF "du" \in d.mask THEN d.doc["keep"] ELSE d.du
      BY <2>2, <2>4
    <3>2. HostSet(g, d) /\ e \in Daemon /\ e.doc = d.doc /\ e.flags = d.flags /\ e.interface = d.interface
          /\ e.ntpConf = d.ntpConf /\ e.web = d.web
      BY <2>1, <2>2
    <3>3. UsedBy(e, more)
      BY <1>5, <3>1, <3>2, HostUsed
    <3> QED BY <2>2, <3>3
  <2> QED BY <2>2, <2>3, <2>4 DEF Daemon, Modes
<1> QED BY <1>7, <1>8, <1>9

SetsConf(ps, vs, complete) ==
    LET set == SetParameters(cg, [i \in 1..Len(ps) |-> <<ps[i], vs[i]>>], cgLease)
    IN /\ cg' = IF complete THEN EmitConfigChanged(set, cgLease) ELSE set
       /\ cgBehind' = {h \in ExcusedBy(cg, cg', ps, complete, cgBehind) : ~InUse(cg', h)}
       /\ cgDcBehind' = (cgDcBehind \/ ~SameNetwork(cg'.doc, cg.doc))

LEMMA SetConfOK == CgIInv /\ CgSetConf => CgIInv'
<1> SUFFICES ASSUME CgIInv, CgSetConf PROVE CgIInv'
  OBVIOUS
<1>1. PICK ps \in Settings : \E vs \in SettingsOf(ps), complete \in BOOLEAN : SetsConf(ps, vs, complete)
  BY DEF CgSetConf, ExcusedBy, Touched, Changed, Behind, SetsConf
<1>11. PICK vs \in SettingsOf(ps), complete \in BOOLEAN : SetsConf(ps, vs, complete)
  BY <1>1
<1>2. UNCHANGED <<cgLease, cgDc, cgWire>> /\ cgOps' \in 0..OpLimit
  BY ConfigurationLimit DEF CgSetConf, Op, CgIInv
<1> DEFINE d == SetParameters(cg, [i \in 1..Len(ps) |-> <<ps[i], vs[i]>>], cgLease)
           e == cg'
           more == ExcusedBy(cg, e, ps, complete, cgBehind)
           left == cgBehind'
<1>3. e = (IF complete THEN EmitConfigChanged(d, cgLease) ELSE d) /\ left = {h \in more : ~InUse(e, h)}
      /\ d = SetParameters(cg, [i \in 1..Len(ps) |-> <<ps[i], vs[i]>>], cgLease)
      /\ more = ExcusedBy(cg, e, ps, complete, cgBehind)
  BY <1>11 DEF SetsConf
<1> HIDE DEF d, e, more, left
<1>4. e \in Daemon /\ e.interface.mode = e.flags /\ UsedBy(e, more)
  BY <1>3, SetConfUsed DEF CgIInv
<1>5. more \subseteq Handlers /\ left \subseteq Handlers
  BY <1>3, ExcusedIn DEF CgIInv
<1>7. UsedBy(e, left)
  BY <1>3, <1>4, UsedLeft
<1>6. cgDcBehind' \in BOOLEAN /\ (cgDcBehind' = FALSE => DcKnows(cgWire', cg'.doc, cgDc'))
  BY <1>2, <1>11, DcUnless DEF SetsConf
<1> QED BY <1>2, <1>4, <1>5, <1>6, <1>7 DEF CgIInv, e, left

----------------------------------------------------------------------------
LEMMA SetConfNodeOK == CgIInv /\ CgSetConfNode => CgIInv'
<1> SUFFICES ASSUME CgIInv, CgSetConfNode PROVE CgIInv'
  OBVIOUS
<1>1. PICK p \in {"mode", "port"}, v \in UNION {Values("mode"), Values("port")} :
        v \in Values(p) /\ cg' = [cg EXCEPT !.doc[p] = v] /\ cgBehind' = Behind(cg', Bits(p))
  BY DEF CgSetConfNode
<1>2. UNCHANGED <<cgLease, cgDc, cgWire>> /\ cgOps' \in 0..OpLimit
      /\ cgDcBehind' = (cgDcBehind \/ ~SameNetwork(cg'.doc, cg.doc))
  BY ConfigurationLimit DEF CgSetConfNode, Op, CgIInv
<1> DEFINE e == SetIn(cg, p, v, cg.mask)
           m == cg.mask
           more == cgBehind \cup Bits(p)
<1>3. p \in Params /\ cg \in Daemon /\ m \in SUBSET Handlers
  BY NamesAre DEF CgIInv, Daemon
<1>4. cg' = e /\ e = SetIn(cg, p, v, m)
  BY <1>1, <1>3 DEF SetIn, Daemon
<1> HIDE DEF e, m
<1>5. DaemonSet(cg, p, v, m, SetIn(cg, p, v, m))
  BY <1>1, <1>3, SetDoc
<1>6. e \in Daemon /\ InUseAs(cg, e) /\ \A q \in Params : e.doc[q] # cg.doc[q] => Bits(q) \subseteq more
  BY <1>1, <1>4, <1>5 DEF DaemonSet, DocSet
<1>7. cgBehind \subseteq more /\ more \subseteq Handlers /\ cgBehind' = {h \in more : ~InUse(e, h)}
  BY <1>1, <1>4, BitsAre DEF CgIInv, Handlers, Behind
<1>8. UsedBy(cg, cgBehind)
  BY DEF CgIInv
<1> HIDE DEF more
<1>9. UsedBy(e, more)
  BY <1>3, <1>6, <1>7, <1>8, Unannounced
<1>10. e.interface.mode = e.flags
  BY <1>6 DEF InUseAs, CgIInv
<1>11. UsedBy(e, cgBehind') /\ cgBehind' \subseteq Handlers
  BY <1>7, <1>9, <1>10, UsedLeft
<1>12. cgDcBehind' \in BOOLEAN /\ (cgDcBehind' = FALSE => DcKnows(cgWire', cg'.doc, cgDc'))
  BY <1>2, DcUnless
<1> QED BY <1>2, <1>4, <1>6, <1>10, <1>11, <1>12 DEF CgIInv

LEMMA ResetConfOK == CgIInv /\ CgResetConf => CgIInv'
<1> SUFFICES ASSUME CgIInv, CgResetConf PROVE CgIInv'
  OBVIOUS
<1>1. PICK doc \in {Defaults, [Defaults EXCEPT !.mode = "Manual", !.ip = "b", !.keep = "1"]} :
        cg' = [cg EXCEPT !.doc = doc, !.mask = @ \cup Bits("all")]
  BY DEF CgResetConf
<1>2. doc \in CgDocument
  <2>1. Defaults \in CgDocument
    BY DEF Defaults, CgDocument, Modes, Addresses
  <2>2. [Defaults EXCEPT !.mode = "Manual", !.ip = "b", !.keep = "1"] \in CgDocument
    BY <2>1 DEF CgDocument, Modes, Addresses
  <2> QED BY <2>1, <2>2
<1>3. cg' \in Daemon /\ cg'.interface = cg.interface /\ cg'.flags = cg.flags
  <2>1. Bits("all") = Handlers
    BY DEF Bits
  <2>2. cg \in Daemon
    BY DEF CgIInv
  <2> QED BY <1>1, <1>2, <2>1, <2>2 DEF Daemon
<1>4. UsedBy(cg', Handlers)
  BY DEF UsedBy, Handlers
<1>5. cgBehind' = {h \in Handlers : ~InUse(cg', h)}
  BY DEF CgResetConf, Behind, CgIInv
<1>6. UsedBy(cg', cgBehind') /\ cgBehind' \subseteq Handlers
  <2>1. PICK e : e = cg'
    OBVIOUS
  <2>2. PICK left : left = cgBehind'
    OBVIOUS
  <2>3. UsedBy(e, left)
    BY <1>3, <1>4, <1>5, <2>1, <2>2, UsedLeft DEF CgIInv
  <2> QED BY <1>5, <2>1, <2>2, <2>3
<1>7. UNCHANGED <<cgLease, cgDc, cgWire>> /\ cgOps' \in 0..OpLimit
  BY ConfigurationLimit DEF CgResetConf, Op, CgIInv
<1>8. cgDcBehind' \in BOOLEAN /\ (cgDcBehind' = FALSE => DcKnows(cgWire', cg'.doc, cgDc'))
  BY <1>7, DcUnless DEF CgResetConf
<1> QED BY <1>3, <1>6, <1>7, <1>8 DEF CgIInv

\* The network written by an assign command.
LEMMA WriteToConfigOK ==
    ASSUME NEW c \in Daemon, NEW d, d = WriteToConfig(c)
    PROVE  d \in Daemon /\ InUseAs(c, d) /\ d.doc["mode"] = c.flags /\ d.doc["ip"] = c.ip /\ d.doc["keep"] = c.doc["keep"]
<1> DEFINE a == WriteNetOnly(c)
           b == Put(a, "timeServer", c.ntp)
           e == Put(b, "port", "1")
<1>1. NetWritten(c, a)
  <2>1. a = WriteNetOnly(c)
    OBVIOUS
  <2> HIDE DEF a
  <2> QED BY <2>1, WriteNetOnlyOK
<1>2. a \in Daemon /\ "timeServer" \in Params /\ "port" \in Params /\ c.ntp \in Values("timeServer") /\ "1" \in Values("port")
  BY <1>1 DEF NetWritten, Params, Values, Daemon
<1> HIDE DEF a
<1>3. PutDone(a, b, "timeServer", c.ntp)
  <2>1. b = Put(a, "timeServer", c.ntp)
    OBVIOUS
  <2> HIDE DEF b
  <2> QED BY <1>2, <2>1, PutOK
<1>4. b \in Daemon
  BY <1>3 DEF PutDone
<1> HIDE DEF b
<1>5. PutDone(b, e, "port", "1")
  <2>1. e = Put(b, "port", "1")
    OBVIOUS
  <2> HIDE DEF e
  <2> QED BY <1>2, <1>4, <2>1, PutOK
<1>6. d = [e EXCEPT !.mask = {}]
  BY DEF WriteToConfig, a, b
<1> HIDE DEF e
<1>7. d \in Daemon /\ d.doc = e.doc /\ InUseAs(e, d)
  BY <1>5, <1>6 DEF Daemon, InUseAs, PutDone
<1> QED BY <1>1, <1>3, <1>5, <1>7, NamesAre DEF NetWritten, PutDone, InUseAs

LEMMA LastIsNew ==
    ASSUME NEW W \in Seq(Query), NEW q \in Query, IsMode(q), NEW V, V = Append(W, q), NEW dcMode
    PROVE  /\ ModeKnown(V, q.mode, dcMode)
           /\ IsFull(q) => \A ip, dcIp : AddressKnown(V, ip, dcIp)
           /\ V \in Seq(Query)
<1>1. V \in Seq(Query) /\ Len(V) = Len(W) + 1 /\ V[Len(W) + 1] = q
  BY AppendProperties
<1>2. Len(W) \in Nat /\ DOMAIN V = 1..(Len(W) + 1) /\ Len(W) + 1 \in DOMAIN V
  BY <1>1, LenProperties
<1>3. \A i \in DOMAIN V : i < Len(W) + 1 \/ i = Len(W) + 1
  BY <1>2
<1> QED BY <1>1, <1>2, <1>3 DEF ModeKnown, AddressKnown

LEMMA AssignOK == CgIInv /\ CgAssign => CgIInv'
<1> SUFFICES ASSUME CgIInv, CgAssign PROVE CgIInv'
  OBVIOUS
<1>1. PICK mode \in Modes, ip \in {"a", "b"}, ntp \in Addresses :
        cg' = UpdateNetwork(WriteToConfig([cg EXCEPT !.flags = mode, !.ip = ip, !.ntp = ntp]), cgLease)
  BY DEF CgAssign
<1> DEFINE c == [cg EXCEPT !.flags = mode, !.ip = ip, !.ntp = ntp]
           w == WriteToConfig(c)
           e == cg'
           q == [kind |-> "mode", only |-> FALSE, mode |-> e.doc.mode, ip |-> e.doc.ip]
<1>2. c \in Daemon /\ c.flags = mode /\ c.doc = cg.doc /\ c.du = cg.du
  BY DEF CgIInv, Daemon, Addresses
<1>3. w \in Daemon /\ InUseAs(c, w) /\ w.doc["mode"] = c.flags /\ w.doc["ip"] = c.ip /\ w.doc["keep"] = c.doc["keep"]
  <2>1. w = WriteToConfig(c)
    OBVIOUS
  <2> HIDE DEF c, w
  <2> QED BY <1>2, <2>1, WriteToConfigOK
<1>4. e = UpdateNetwork(w, cgLease) /\ cgLease \in Addresses
  BY <1>1 DEF CgIInv
<1> HIDE DEF c, w, e
<1>5. NetUpdated(w, e)
  BY <1>3, <1>4, UpdateNetworkOK
<1>6. e \in Daemon /\ e.interface.mode = e.flags
  BY <1>5 DEF NetUpdated
<1>7. Follows(e)
  BY <1>3, <1>5 DEF NetUpdated, Follows, InUseAs
<1>8. e.du = cg.du /\ e.doc["keep"] = cg.doc["keep"]
  BY <1>2, <1>3, <1>5, NamesAre DEF NetUpdated, InUseAs
<1> DEFINE more == cgBehind \cup {"ntp", "web"}
           left == cgBehind'
<1>9. left = {h \in more : ~InUse(e, h)} /\ cgDcBehind' = FALSE /\ cgWire' = Append(cgWire, q) /\ cgDc' = cgDc
      /\ cgLease' = cgLease /\ cgOps' \in 0..OpLimit
  BY ConfigurationLimit DEF CgAssign, ReplayNetwork, Op, CgIInv, Behind, e
<1>13. UsedBy(e, more) /\ more \subseteq Handlers
  BY <1>7, <1>8 DEF UsedBy, CgIInv, Handlers
<1> HIDE DEF more, left
<1>10. UsedBy(e, left) /\ left \subseteq Handlers
  BY <1>6, <1>9, <1>13, UsedLeft
<1>11. q \in Query /\ IsMode(q) /\ IsFull(q) /\ q.mode = e.doc.mode
  BY <1>6 DEF Query, IsMode, IsFull, Daemon, CgDocument
<1> HIDE DEF q
<1>12. cgWire' \in Seq(Query) /\ ModeKnown(cgWire', e.doc.mode, cgDc'.mode) /\ \A a, b : AddressKnown(cgWire', a, b)
  BY <1>9, <1>11, LastIsNew DEF CgIInv
<1> QED BY <1>6, <1>9, <1>10, <1>12 DEF CgIInv, DcKnows, e, left

LEMMA ResetOK == CgIInv /\ CgReset => CgIInv'
<1> SUFFICES ASSUME CgIInv, CgReset PROVE CgIInv'
  OBVIOUS
<1> DEFINE c == [cg EXCEPT !.flags = "DHCP", !.ip = "0.0.0.0", !.ntp = "0.0.0.0"]
           e == cg'
           q == [kind |-> "mode", only |-> TRUE, mode |-> e.doc.mode, ip |-> e.doc.ip]
<1>1. c \in Daemon /\ c.flags = "DHCP" /\ c.doc = cg.doc /\ c.du = cg.du /\ c.web = cg.web /\ c.ntpConf = cg.ntpConf
  BY DEF CgIInv, Daemon, Addresses, Modes
<1>2. e = UpdateNetwork(c, cgLease) /\ cgLease \in Addresses
  BY DEF CgReset, CgIInv
<1> HIDE DEF c, e
<1>3. NetUpdated(c, e)
  BY <1>1, <1>2, UpdateNetworkOK
<1>4. e \in Daemon /\ e.interface.mode = e.flags /\ e.flags = "DHCP" /\ e.doc["mode"] = "DHCP"
  BY <1>1, <1>3 DEF NetUpdated
<1>5. e.du = cg.du /\ e.web = cg.web /\ e.ntpConf = cg.ntpConf
      /\ e.doc["keep"] = cg.doc["keep"] /\ e.doc["port"] = cg.doc["port"] /\ e.doc["timeServer"] = cg.doc["timeServer"]
  BY <1>1, <1>3, NamesAre DEF NetUpdated
<1>6. UsedBy(e, cgBehind)
  BY <1>4, <1>5 DEF UsedBy, CgIInv, Follows
<1> DEFINE left == cgBehind'
<1>7. cgWire' = Append(cgWire, q) /\ UNCHANGED <<cgDc, cgLease>> /\ cgDcBehind' = FALSE /\ cgOps' \in 0..OpLimit
      /\ left = {h \in cgBehind : ~InUse(e, h)} /\ cgBehind \subseteq Handlers
  BY ConfigurationLimit DEF CgReset, ReplayNetwork, Op, CgIInv, Behind, e
<1> HIDE DEF left
<1>10. UsedBy(e, left) /\ left \subseteq Handlers
  BY <1>4, <1>6, <1>7, UsedLeft
<1>8. q \in Query /\ IsMode(q) /\ q.mode = e.doc.mode
  BY <1>4 DEF Query, IsMode, Daemon, CgDocument
<1> HIDE DEF q
<1>9. cgWire' \in Seq(Query) /\ ModeKnown(cgWire', e.doc.mode, cgDc'.mode)
  BY <1>7, <1>8, LastIsNew DEF CgIInv
<1> QED BY <1>4, <1>7, <1>9, <1>10 DEF CgIInv, DcKnows, e, left

----------------------------------------------------------------------------
(***************************************************************************)
(* The queries to the DC.  What the last of them says is not undone by the *)
(* answer to the first.                                                    *)
(***************************************************************************)
TailIs(W, T) == Len(T) = Len(W) - 1 /\ \A i \in 1..Len(T) : T[i] = W[i + 1]

LEMMA TailOf ==
    ASSUME NEW W \in Seq(Query), W # <<>>, NEW T, T = Tail(W)
    PROVE  T \in Seq(Query) /\ TailIs(W, T) /\ W[1] \in Query /\ Head(W) = W[1] /\ Len(W) \in Nat \ {0}
BY HeadTailProperties, EmptySeq, LenProperties, ElementOfSeq DEF TailIs

LEMMA ModeShift ==
    ASSUME NEW W \in Seq(Query), NEW T \in Seq(Query), TailIs(W, T), Len(W) \in Nat \ {0},
           NEW mode, NEW dcMode, ModeKnown(W, mode, dcMode),
           NEW new, new = IF IsMode(W[1]) THEN W[1].mode ELSE dcMode
    PROVE  ModeKnown(T, mode, new)
<1>1. DOMAIN T = 1..Len(T) /\ DOMAIN W = 1..Len(W) /\ Len(T) \in Nat /\ Len(W) = Len(T) + 1 /\ 1 \in DOMAIN W
  BY LenProperties DEF TailIs
<1>2. ASSUME NEW i \in DOMAIN T PROVE i + 1 \in DOMAIN W /\ T[i] = W[i + 1] /\ 1 < i + 1
  BY <1>1 DEF TailIs
<1>3. ASSUME NEW i \in DOMAIN W, i # 1 PROVE i - 1 \in DOMAIN T /\ T[i - 1] = W[i]
  <2>1. i - 1 \in 1..Len(T) /\ (i - 1) + 1 = i
    BY <1>1, <1>3
  <2> QED BY <1>1, <2>1 DEF TailIs
<1>4. ASSUME NEW i \in DOMAIN T, IsMode(T[i]), \A k \in DOMAIN T : i < k => ~IsMode(T[k])
      PROVE  T[i].mode = mode
  <2>1. ASSUME NEW k \in DOMAIN W, i + 1 < k PROVE ~IsMode(W[k])
    <3>1. k # 1 /\ i < k - 1
      BY <1>1, <2>1
    <3> QED BY <1>3, <1>4, <3>1
  <2>2. i + 1 \in DOMAIN W /\ IsMode(W[i + 1])
    BY <1>2, <1>4
  <2> QED BY <1>2, <2>1, <2>2 DEF ModeKnown
<1>5. ASSUME \A i \in DOMAIN T : ~IsMode(T[i]) PROVE new = mode
  <2>1. \A k \in DOMAIN W : k # 1 => ~IsMode(W[k])
    BY <1>3, <1>5
  <2>2. \A k \in DOMAIN W : 1 < k => k # 1
    BY <1>1
  <2>3. CASE IsMode(W[1])
    BY <1>1, <2>1, <2>2, <2>3 DEF ModeKnown
  <2>4. CASE ~IsMode(W[1])
    BY <2>1, <2>4 DEF ModeKnown
  <2> QED BY <2>3, <2>4
<1> QED BY <1>4, <1>5 DEF ModeKnown

LEMMA AddressShift ==
    ASSUME NEW W \in Seq(Query), NEW T \in Seq(Query), TailIs(W, T), Len(W) \in Nat \ {0}, ~IsFull(W[1]),
           NEW ip, NEW dcIp, AddressKnown(W, ip, dcIp),
           NEW new, new = IF IsMode(W[1]) THEN dcIp ELSE IF W[1].mode = "Manual" THEN W[1].ip ELSE dcIp
    PROVE  AddressKnown(T, ip, new)
<1>1. DOMAIN T = 1..Len(T) /\ DOMAIN W = 1..Len(W) /\ Len(T) \in Nat /\ Len(W) = Len(T) + 1 /\ 1 \in DOMAIN W
  BY LenProperties DEF TailIs
<1>2. ASSUME NEW i \in DOMAIN T PROVE i + 1 \in DOMAIN W /\ T[i] = W[i + 1] /\ 1 < i + 1
  BY <1>1 DEF TailIs
<1>3. ASSUME NEW i \in DOMAIN W, i # 1 PROVE i - 1 \in DOMAIN T /\ T[i - 1] = W[i]
  <2>1. i - 1 \in 1..Len(T) /\ (i - 1) + 1 = i
    BY <1>1, <1>3
  <2> QED BY <1>1, <2>1 DEF TailIs
<1> SUFFICES ASSUME \A i \in DOMAIN T : ~IsFull(T[i])
             PROVE  /\ \A i \in DOMAIN T : ~IsMode(T[i]) /\ (\A k \in DOMAIN T : i < k => IsMode(T[k])) =>
                          T[i].mode = "Manual" /\ T[i].ip = ip
                    /\ (\A i \in DOMAIN T : IsMode(T[i])) => new = ip
  BY DEF AddressKnown
<1>4. \A i \in DOMAIN W : ~IsFull(W[i])
  BY <1>3
<1>5. ASSUME NEW i \in DOMAIN T, ~IsMode(T[i]), \A k \in DOMAIN T : i < k => IsMode(T[k])
      PROVE  T[i].mode = "Manual" /\ T[i].ip = ip
  <2>1. ASSUME NEW k \in DOMAIN W, i + 1 < k PROVE IsMode(W[k])
    <3>1. k # 1 /\ i < k - 1
      BY <1>1, <2>1
    <3> QED BY <1>3, <1>5, <3>1
  <2>2. i + 1 \in DOMAIN W /\ ~IsMode(W[i + 1])
    BY <1>2, <1>5
  <2> QED BY <1>2, <1>4, <2>1, <2>2 DEF AddressKnown
<1>6. ASSUME \A i \in DOMAIN T : IsMode(T[i]) PROVE new = ip
  <2>1. \A k \in DOMAIN W : k # 1 => IsMode(W[k])
    BY <1>3, <1>6
  <2>2. \A k \in DOMAIN W : 1 < k => k # 1
    BY <1>1
  <2>3. CASE IsMode(W[1])
    BY <1>4, <2>1, <2>3 DEF AddressKnown
  <2>4. CASE ~IsMode(W[1])
    BY <1>1, <1>4, <2>1, <2>2, <2>4 DEF AddressKnown
  <2> QED BY <2>3, <2>4
<1> QED BY <1>5, <1>6

\* The query with the address follows that of the mode.
LEMMA LanAppended ==
    ASSUME NEW T \in Seq(Query), NEW mode, NEW dcMode, ModeKnown(T, mode, dcMode),
           NEW q \in Query, ~IsMode(q), NEW V, V = Append(T, q)
    PROVE  V \in Seq(Query) /\ ModeKnown(V, mode, dcMode)
           /\ (q.mode = "Manual" => \A dcIp : AddressKnown(V, q.ip, dcIp))
<1>1. V \in Seq(Query) /\ Len(V) = Len(T) + 1 /\ V[Len(T) + 1] = q /\ \A i \in 1..Len(T) : V[i] = T[i]
  BY AppendProperties
<1>2. Len(T) \in Nat /\ DOMAIN V = 1..(Len(T) + 1) /\ DOMAIN T = 1..Len(T) /\ Len(T) + 1 \in DOMAIN V
  BY <1>1, LenProperties
<1>3. \A i \in DOMAIN V : i \in DOMAIN T \/ (i = Len(T) + 1 /\ V[i] = q)
  BY <1>1, <1>2
<1>4. \A i \in DOMAIN T : i \in DOMAIN V /\ V[i] = T[i] /\ i < Len(T) + 1
  BY <1>1, <1>2
<1>5. ModeKnown(V, mode, dcMode)
  <2>1. ASSUME NEW i \in DOMAIN V, IsMode(V[i]), \A k \in DOMAIN V : i < k => ~IsMode(V[k])
        PROVE  V[i].mode = mode
    <3>1. i \in DOMAIN T /\ V[i] = T[i]
      BY <1>1, <1>3, <1>4, <2>1
    <3> QED BY <1>4, <2>1, <3>1 DEF ModeKnown
  <2>2. ASSUME \A i \in DOMAIN V : ~IsMode(V[i]) PROVE dcMode = mode
    BY <1>4, <2>2 DEF ModeKnown
  <2> QED BY <2>1, <2>2 DEF ModeKnown
<1>6. ASSUME q.mode = "Manual", NEW dcIp PROVE AddressKnown(V, q.ip, dcIp)
  <2>1. ASSUME NEW i \in DOMAIN V, ~IsMode(V[i]), \A k \in DOMAIN V : i < k => IsMode(V[k]) PROVE V[i] = q
    BY <1>1, <1>2, <1>3, <1>4, <2>1
  <2>2. ~(\A i \in DOMAIN V : IsMode(V[i]))
    BY <1>1, <1>2
  <2> QED BY <1>6, <2>1, <2>2 DEF AddressKnown
<1> QED BY <1>1, <1>5, <1>6

LEMMA QueryEndsOK == CgIInv /\ CgQueryEnds => CgIInv'
<1> SUFFICES ASSUME CgIInv, CgQueryEnds PROVE CgIInv'
  OBVIOUS
<1> DEFINE W == cgWire
           T == Tail(cgWire)
           lan == [kind |-> "lan", only |-> FALSE, mode |-> cg.doc.mode,
                   ip |-> IF cg.doc.mode = "Manual" THEN cg.doc.ip ELSE cgDc.ip]
<1>1. PICK ok \in BOOLEAN :
        /\ cgDc' = IF ~ok THEN cgDc
                   ELSE IF Head(W).kind = "mode" THEN [cgDc EXCEPT !.mode = Head(W).mode]
                   ELSE [cgDc EXCEPT !.ip = IF Head(W).mode = "Manual" THEN Head(W).ip ELSE @]
        /\ cgWire' = IF Head(W).kind = "mode" /\ ~Head(W).only THEN Append(T, lan) ELSE T
        /\ cgDcBehind' = (cgDcBehind \/ ~ok)
  BY DEF CgQueryEnds
<1>2. W \in Seq(Query) /\ W # <<>> /\ UNCHANGED <<cg, cgLease, cgBehind, cgOps>>
  BY DEF CgQueryEnds, CgIInv
<1>3. T \in Seq(Query) /\ TailIs(W, T) /\ W[1] \in Query /\ Head(W) = W[1] /\ Len(W) \in Nat \ {0}
  <2>1. T = Tail(W)
    OBVIOUS
  <2> HIDE DEF W, T
  <2> QED BY <1>2, <2>1, TailOf
<1>4. lan \in Query /\ ~IsMode(lan) /\ lan.mode = cg.doc.mode /\ (cg.doc.mode = "Manual" => lan.ip = cg.doc.ip)
  <2>1. cg.doc.mode \in Modes /\ cg.doc.ip \in Addresses /\ cgDc.ip \in Addresses
    BY DEF CgIInv, Daemon, CgDocument, DcView
  <2> QED BY <2>1 DEF Query, IsMode
<1>5. W[1].mode \in Modes /\ W[1].ip \in Addresses /\ W[1].only \in BOOLEAN /\ cgDc \in DcView
  BY <1>3 DEF Query, CgIInv
<1> DEFINE dcMode == IF IsMode(W[1]) THEN W[1].mode ELSE cgDc.mode
           dcIp == IF IsMode(W[1]) THEN cgDc.ip ELSE IF W[1].mode = "Manual" THEN W[1].ip ELSE cgDc.ip
           V == cgWire'
<1>6. cgDc' \in DcView /\ (ok = TRUE => cgDc'.mode = dcMode /\ cgDc'.ip = dcIp)
  BY <1>1, <1>3, <1>5 DEF DcView, IsMode
<1>7. /\ IsFull(W[1]) => V = Append(T, lan)
      /\ ~IsFull(W[1]) => V = T
  BY <1>1, <1>3, <1>5 DEF IsFull
<1>8. V \in Seq(Query)
  <2> HIDE DEF T, lan
  <2> QED BY <1>3, <1>4, <1>7, AppendProperties
<1>9. ASSUME cgDcBehind' = FALSE PROVE DcKnows(V, cg.doc, cgDc')
  <2>1. ok = TRUE /\ cgDcBehind = FALSE
    BY <1>1, <1>9 DEF CgIInv
  <2>2. ModeKnown(W, cg.doc.mode, cgDc.mode) /\ (cg.doc.mode = "Manual" => AddressKnown(W, cg.doc.ip, cgDc.ip))
    BY <2>1 DEF CgIInv, DcKnows
  <2>3. dcMode = IF IsMode(W[1]) THEN W[1].mode ELSE cgDc.mode
    OBVIOUS
  <2>4. dcIp = IF IsMode(W[1]) THEN cgDc.ip ELSE IF W[1].mode = "Manual" THEN W[1].ip ELSE cgDc.ip
    OBVIOUS
  <2> HIDE DEF W, T, lan, dcMode, dcIp, V
  <2>5. ModeKnown(T, cg.doc.mode, dcMode)
    BY <1>2, <1>3, <2>2, <2>3, ModeShift
  <2>6. CASE IsFull(W[1])
    <3>1. /\ ModeKnown(V, cg.doc.mode, dcMode)
          /\ lan.mode = "Manual" => AddressKnown(V, lan.ip, dcIp)
      BY <1>3, <1>4, <1>7, <2>5, <2>6, LanAppended
    <3> QED BY <1>4, <1>6, <2>1, <3>1 DEF DcKnows
  <2>7. CASE ~IsFull(W[1])
    <3>1. cg.doc.mode = "Manual" => AddressKnown(T, cg.doc.ip, dcIp)
      BY <1>2, <1>3, <2>2, <2>4, <2>7, AddressShift
    <3> QED BY <1>6, <1>7, <2>1, <2>5, <2>7, <3>1 DEF DcKnows
  <2> QED BY <2>6, <2>7
<1>10. cgDcBehind' \in BOOLEAN
  BY <1>1
<1> QED BY <1>2, <1>6, <1>8, <1>9, <1>10 DEF CgIInv

LEMMA DcRestartsOK == CgIInv /\ CgDcRestarts => CgIInv'
<1> SUFFICES ASSUME CgIInv, CgDcRestarts PROVE CgIInv'
  OBVIOUS
<1> DEFINE q == [kind |-> "mode", only |-> FALSE, mode |-> cg.doc.mode, ip |-> cg.doc.ip]
<1>1. cgWire' = Append(cgWire, q) /\ cgDcBehind' = FALSE /\ UNCHANGED <<cg, cgLease, cgBehind>>
      /\ cgOps' \in 0..OpLimit /\ cgDc' \in DcView
  BY ConfigurationLimit DEF CgDcRestarts, ReplayNetwork, Op, CgIInv, DcView, Modes, Addresses
<1>2. q \in Query /\ IsMode(q) /\ IsFull(q) /\ q.mode = cg.doc.mode
  BY DEF Query, IsMode, IsFull, Daemon, CgDocument, CgIInv
<1> HIDE DEF q
<1>3. cgWire' \in Seq(Query) /\ ModeKnown(cgWire', cg.doc.mode, cgDc'.mode) /\ \A a, b : AddressKnown(cgWire', a, b)
  BY <1>1, <1>2, LastIsNew DEF CgIInv
<1> QED BY <1>1, <1>3 DEF CgIInv, DcKnows

LEMMA NewLeaseOK == CgIInv /\ CgNewLease => CgIInv'
<1> SUFFICES ASSUME CgIInv, CgNewLease PROVE CgIInv'
  OBVIOUS
<1>1. PICK lease \in {"a", "b"} : cg' = [cg EXCEPT !.interface.ip = lease] /\ cgLease' = lease
  BY DEF CgNewLease
<1>2. cg' \in Daemon /\ cg'.interface.mode = cg.flags /\ cg'.flags = cg.flags /\ cg'.doc = cg.doc /\ cg'.ntpConf = cg.ntpConf
      /\ cg'.web = cg.web /\ cg'.du = cg.du
  BY <1>1 DEF CgIInv, Daemon, Addresses
<1>3. cg.flags = "DHCP" /\ UNCHANGED <<cgDc, cgWire, cgBehind, cgDcBehind>> /\ cgOps' \in 0..OpLimit /\ cgLease' \in Addresses
  BY <1>1, ConfigurationLimit DEF CgNewLease, CgIInv, Op, Addresses
<1>4. UsedBy(cg', cgBehind)
  BY <1>2, <1>3 DEF CgIInv, UsedBy, Follows
<1> QED BY <1>2, <1>3, <1>4 DEF CgIInv

LEMMA RereadOK == CgIInv /\ CgReread => CgIInv'
<1> SUFFICES ASSUME CgIInv, CgReread PROVE CgIInv'
  OBVIOUS
<1> DEFINE c == CheckBack(cg)
           e == cg'
<1>1. c \in Daemon /\ c.flags = cg.flags /\ c.doc = cg.doc /\ c.interface = cg.interface /\ c.ntpConf = cg.ntpConf
      /\ c.web = cg.web /\ c.du = cg.du
  BY DEF CheckBack, CgIInv, Daemon
<1>2. e = WriteNetOnly(c) /\ cg.flags = "DHCP"
  BY DEF CgReread
<1> HIDE DEF c, e
<1>3. NetWritten(c, e)
  BY <1>1, <1>2, WriteNetOnlyOK
<1>4. e \in Daemon /\ e.flags = "DHCP" /\ e.doc["mode"] = "DHCP" /\ e.interface = cg.interface /\ e.ntpConf = cg.ntpConf
      /\ e.web = cg.web /\ e.du = cg.du
  BY <1>1, <1>2, <1>3 DEF NetWritten, InUseAs
<1>5. e.doc["timeServer"] = cg.doc["timeServer"] /\ e.doc["port"] = cg.doc["port"] /\ e.doc["keep"] = cg.doc["keep"]
  BY <1>1, <1>3, NamesAre DEF NetWritten
<1>6. UsedBy(e, cgBehind)
  BY <1>4, <1>5 DEF CgIInv, UsedBy, Follows
<1> DEFINE left == cgBehind'
<1>7. UNCHANGED <<cgLease, cgDc, cgWire, cgOps>> /\ cgDcBehind' = (cgDcBehind \/ ~SameNetwork(cg'.doc, cg.doc))
      /\ left = {h \in cgBehind : ~InUse(e, h)} /\ cgBehind \subseteq Handlers
  BY DEF CgReread, CgIInv, Behind, e
<1>8. cgDcBehind' \in BOOLEAN /\ (cgDcBehind' = FALSE => DcKnows(cgWire', cg'.doc, cgDc'))
  BY <1>7, DcUnless
<1> HIDE DEF left
<1>9. e.interface.mode = e.flags
  BY <1>2, <1>4 DEF CgIInv
<1>10. UsedBy(e, left) /\ left \subseteq Handlers
  BY <1>6, <1>7, <1>9, UsedLeft
<1> QED BY <1>4, <1>7, <1>8, <1>9, <1>10 DEF CgIInv, e, left

LEMMA ConfigurationInit == CgInit => CgIInv
<1> SUFFICES ASSUME CgInit PROVE CgIInv
  OBVIOUS
<1> DEFINE raw == [doc |-> Defaults, mask |-> {}, flags |-> "DHCP", ip |-> "0.0.0.0", ntp |-> "0.0.0.0",
                   interface |-> [mode |-> "DHCP", ip |-> "0.0.0.0"], ntpConf |-> "0.0.0.0", web |-> "0", du |-> "0"]
           c == CollectNtpData(CollectData(raw))
           a == "a"
           u == UpdateNetwork(c, a)
<1>1. Defaults \in CgDocument /\ Defaults.mode = "DHCP" /\ Defaults.ip = "0.0.0.0" /\ Defaults["timeServer"] = "0.0.0.0"
      /\ Defaults["port"] = "0" /\ Defaults["keep"] = "0"
  BY DEF Defaults, CgDocument, Modes, Addresses
<1>2. raw \in Daemon /\ raw.doc = Defaults /\ raw.ntpConf = "0.0.0.0" /\ raw.web = "0" /\ raw.du = "0"
  BY <1>1 DEF Daemon, Modes, Addresses, Handlers
<1> HIDE DEF raw
<1>3. c \in Daemon /\ c.doc = Defaults /\ c.flags = "DHCP" /\ c.web = "0" /\ c.du = "0" /\ c.ntp = "0.0.0.0"
  BY <1>1, <1>2 DEF CollectNtpData, CollectData, Daemon, Addresses, CgDocument
<1>4. cg = UpdateNtpConfig(u) /\ u = UpdateNetwork(c, a) /\ a \in Addresses
  BY DEF CgInit, raw, Addresses
<1> HIDE DEF c, u, a
<1>5. NetUpdated(c, u)
  BY <1>3, <1>4, UpdateNetworkOK
<1>6. u \in Daemon /\ u.flags = "DHCP" /\ u.interface.mode = "DHCP" /\ u.doc["mode"] = "DHCP" /\ u.web = "0" /\ u.du = "0"
      /\ u.ntp = "0.0.0.0" /\ u.doc["timeServer"] = "0.0.0.0" /\ u.doc["port"] = "0" /\ u.doc["keep"] = "0"
  BY <1>1, <1>3, <1>5, NamesAre DEF NetUpdated
<1>7. cg \in Daemon /\ cg.interface.mode = cg.flags /\ Follows(cg) /\ cg.ntpConf = cg.doc.timeServer
      /\ cg.web = cg.doc.port /\ cg.du = cg.doc.keep /\ cg.doc.mode = "DHCP"
  BY <1>4, <1>6 DEF UpdateNtpConfig, Daemon, Follows
<1>8. cgLease \in Addresses /\ cgDc \in DcView /\ cgDc.mode = "DHCP" /\ cgWire = <<>> /\ cgBehind = {} /\ cgDcBehind = FALSE
      /\ cgOps \in 0..OpLimit
  BY ConfigurationLimit DEF CgInit, DcView, Modes, Addresses
<1>9. DcKnows(cgWire, cg.doc, cgDc)
  BY <1>7, <1>8 DEF DcKnows, ModeKnown
<1>10. cgWire \in Seq(Query)
  BY <1>8
<1> QED BY <1>7, <1>8, <1>9, <1>10 DEF CgIInv, UsedBy

LEMMA ConfigurationKeeps == CgIInv /\ [CgNext]_cgVars => CgIInv'
<1> SUFFICES ASSUME CgIInv, [CgNext]_cgVars PROVE CgIInv'
  OBVIOUS
<1>1. CASE UNCHANGED cgVars
  BY <1>1 DEF cgVars, CgIInv
<1> QED BY <1>1, SetConfOK, SetConfNodeOK, ResetConfOK, AssignOK, ResetOK, QueryEndsOK, DcRestartsOK, NewLeaseOK, RereadOK
        DEF CgNext

LEMMA CgTypes == CgSpec => []CgTypeOK
<1>1. CgIInv => CgTypeOK
  BY DEF CgIInv, CgTypeOK
<1> QED BY <1>1, ConfigurationInit, ConfigurationKeeps, PTL DEF CgSpec

\* What the document says is in use at the handlers and the interface, except
\* where a command changes it without their hearing of it; and when the queries
\* have ended the DC has the network that the last command of the tool, or the
\* replay after its update, told it, as long as nothing that tells it nothing (a
\* setConf, a node, a resetConf) has changed it since.  For any number of
\* commands in any order (emitConfigChanged, updateNetwork,
\* replay_network_settings, on_set_mode_parameter_finished).
THEOREM ChangesAlwaysReachAll == CgSpec => []ChangesReachAll
<1>1. ASSUME CgIInv PROVE ChangesReachAll
  <2>1. HandlersAdopt
    BY <1>1 DEF CgIInv, UsedBy, Follows, HandlersAdopt, InUse, Handlers
  <2>3. ASSUME cgWire = <<>>, ~cgDcBehind
        PROVE  cgDc.mode = cg.doc.mode /\ (cg.doc.mode = "Manual" => cgDc.ip = cg.doc.ip)
    <3>1. DcKnows(cgWire, cg.doc, cgDc)
      BY <1>1, <2>3 DEF CgIInv
    <3>2. \A i \in DOMAIN cgWire : FALSE
      BY <2>3
    <3> QED BY <3>1, <3>2 DEF DcKnows, ModeKnown, AddressKnown
  <2>4. DcKnowsNetwork
    BY <2>3 DEF DcKnowsNetwork
  <2> QED BY <2>1, <2>4 DEF ChangesReachAll
<1> QED BY <1>1, ConfigurationInit, ConfigurationKeeps, PTL DEF CgSpec
=============================================================================

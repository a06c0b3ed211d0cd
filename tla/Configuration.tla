--------------------------- MODULE Configuration ---------------------------
(* How a change of the configuration comes into use: the two signals of      *)
(* ConfHandler, their subscribers in the order in which they connect, and    *)
(* the network configuration, which is one of them and writes to the         *)
(* configuration itself (conf_handler.cc, network_config.cc,                 *)
(* core_function_set_conf.cc, core_function_data_in.cc, webservice.cc,       *)
(* disk_usage_manager.cc).                                                   *)
(*                                                                           *)
(* Everything a handler of the main loop calls runs to its end, so that a    *)
(* step is an operator on the whole state c.                                 *)
EXTENDS Integers, SequencesExt

CONSTANTS
    OpLimit         \* bound: commands and changed leases

ASSUME ConfigurationLimit == OpLimit \in Nat

Addresses == {"0.0.0.0", "a", "b"}
Modes == {"DHCP", "Manual"}
Params == {"mode", "ip", "timeServer", "hostname", "port", "keep"}
Values(p) == CASE p = "mode" -> Modes
               [] p \in {"ip", "timeServer"} -> Addresses
               [] OTHER -> {"0", "1"}

Handlers == {"network", "ntp", "web", "du"}

VARIABLES
    cg,         \* the daemon: document, mask, members, and what is in use
    cgLease,    \* the address the DHCP server gives
    cgDc,       \* mode and address as the DC knows them
    cgWire,     \* the queries to the DC under way
    cgBehind,   \* handlers that may use an old value, with a reason
    cgDcBehind, \* the DC may know old values, with a reason
    cgOps

cgVars == <<cg, cgLease, cgDc, cgWire, cgBehind, cgDcBehind, cgOps>>

CgDocument == [mode : Modes, ip : Addresses, timeServer : Addresses, hostname : {"0", "1"}, port : {"0", "1"}, keep : {"0", "1"}]
Daemon == [doc : CgDocument,
           mask : SUBSET Handlers,          \* configChangedHandlerMask
           flags : Modes,                   \* networkFlags
           ip : Addresses,                  \* the members ip and ntp_server
           ntp : Addresses,
           interface : [mode : Modes, ip : Addresses],
           ntpConf : Addresses,             \* /etc/ntp.conf
           web : {"0", "1"}, du : {"0", "1"}]
DcView == [mode : Modes, ip : Addresses]
Query == [kind : {"mode", "lan"}, only : BOOLEAN, mode : Modes, ip : Addresses]

CgTypeOK ==
    /\ cg \in Daemon
    /\ cgLease \in Addresses /\ cgDc \in DcView
    /\ cgWire \in Seq(Query)
    /\ cgBehind \subseteq Handlers /\ cgDcBehind \in BOOLEAN
    /\ cgOps \in 0..OpLimit

Defaults == [mode |-> "DHCP", ip |-> "0.0.0.0", timeServer |-> "0.0.0.0", hostname |-> "0", port |-> "0", keep |-> "0"]

(***************************************************************************)
(* confChangeAnnounce: who sets his bit for which parameter.  A node that  *)
(* is set by its path is announced by the name of its tag or attribute,    *)
(* which is nobody's parameter.                                            *)
(***************************************************************************)
Bits(p) ==
    CASE p \in {"mode", "ip"} -> {"network"}
      [] p = "port" -> {"network", "web"}
      [] p = "timeServer" -> {"ntp"}
      [] p = "keep" -> {"du"}
      [] p = "all" -> Handlers
      [] OTHER -> {}

Put(c, p, v) ==
    IF c.doc[p] = v THEN c ELSE [c EXCEPT !.doc[p] = v, !.mask = @ \cup Bits(p)]

(***************************************************************************)
(* The network configuration.                                              *)
(***************************************************************************)
CollectData(c) == [c EXCEPT !.flags = c.doc.mode, !.ip = c.doc.ip, !.ntp = "0.0.0.0"]

CollectNtpData(c) == [c EXCEPT !.ntp = c.doc.timeServer]

UpdateNtpConfig(c) == [c EXCEPT !.ntpConf = c.ntp]

CheckBack(c) == [c EXCEPT !.ip = c.interface.ip]

\* The mask is cleared before and after, so that the confChanged at the end
\* is for nobody.
WriteNetOnly(c) ==
    [Put(Put(c, "mode", c.flags), "ip", c.ip) EXCEPT !.mask = {}]

WriteToConfig(c) ==
    [Put(Put(WriteNetOnly(c), "timeServer", c.ntp), "port", "1") EXCEPT !.mask = {}]

UpdateNetwork(c, lease) ==
    LET up == [c EXCEPT !.interface = [mode |-> c.flags, ip |-> IF c.flags = "DHCP" THEN lease ELSE c.ip]]
    IN IF c.flags = "DHCP" THEN WriteNetOnly(CheckBack(up)) ELSE up

\* Mutant: The network is updated before its parameters are collected.
NetworkChangedStale(c, lease) ==
    LET net == IF "network" \in c.mask THEN CollectData(UpdateNetwork(c, lease)) ELSE c
    IN IF "ntp" \in c.mask THEN UpdateNtpConfig(CollectNtpData(net)) ELSE net

(***************************************************************************)
(* confChanged: the mask is handed on by reference, so that a later        *)
(* subscriber sees what an earlier one has left of it.                     *)
(***************************************************************************)
NetworkChanged(c, lease) ==
    LET net == IF "network" \in c.mask THEN UpdateNetwork(CollectData(c), lease) ELSE c
    IN IF "ntp" \in c.mask THEN UpdateNtpConfig(CollectNtpData(net)) ELSE net

LaterChanged(c) ==
    [c EXCEPT !.web = IF "web" \in c.mask THEN c.doc.port ELSE @,
              !.du = IF "du" \in c.mask THEN c.doc.keep ELSE @]

EmitConfigChanged(c, lease) == LaterChanged(NetworkChanged(c, lease))

\* setConfParameter: for the host name the network is set up again first.
SetConfParameter(c, p, v, lease) ==
    Put(IF p = "hostname" THEN UpdateNetwork(CollectData(c), lease) ELSE c, p, v)

\* Bound: one parameter or two.
SetParameters(c, settings, lease) ==
    LET first == SetConfParameter([c EXCEPT !.mask = {}], settings[1][1], settings[1][2], lease)
    IN IF Len(settings) = 1 THEN first ELSE SetConfParameter(first, settings[2][1], settings[2][2], lease)

\* With DHCP the address is the interface's own.
InUse(c, h) ==
    CASE h = "network" -> c.interface.mode = c.doc.mode /\ (c.doc.mode = "Manual" => c.interface.ip = c.doc.ip)
      [] h = "ntp" -> c.ntpConf = c.doc.timeServer
      [] h = "web" -> c.web = c.doc.port
      [] h = "du" -> c.du = c.doc.keep

----------------------------------------------------------------------------
\* CNetworkConfig::CNetworkConfig
CgInit ==
    /\ cgLease = "a"
    /\ cg = UpdateNtpConfig(UpdateNetwork(CollectNtpData(CollectData(
               [doc |-> Defaults, mask |-> {}, flags |-> "DHCP", ip |-> "0.0.0.0", ntp |-> "0.0.0.0",
                interface |-> [mode |-> "DHCP", ip |-> "0.0.0.0"], ntpConf |-> "0.0.0.0",
                web |-> "0", du |-> "0"])), "a"))
    /\ cgDc = [mode |-> "DHCP", ip |-> "0.0.0.0"]
    /\ cgWire = <<>> /\ cgBehind = {} /\ cgDcBehind = FALSE /\ cgOps = 0

Op == cgOps < OpLimit /\ cgOps' = cgOps + 1

Changed(c) == {p \in Params : c.doc[p] # cg.doc[p]}

Touched(c) == UNION {Bits(p) : p \in Changed(c)}

\* A reason stands until the handler uses what the document says.
Behind(c, more) == {h \in cgBehind \cup more : ~InUse(c, h)}

\* Of the network the DC is told the mode, and the address of a static one.
SameNetwork(doc, old) == doc.mode = old.mode /\ (doc.mode = "Manual" => doc.ip = old.ip)

\* A setConf of one or two parameters: a change of mode or address next to one
\* of another handler, and two handlers at once.
Settings == {<<s>> : s \in {"mode", "ip", "timeServer", "hostname", "port", "keep"}}
              \cup {<<"port", "keep">>, <<"mode", "ip">>, <<"keep", "hostname">>, <<"timeServer", "mode">>}
SettingsOf(ps) == {vs \in [1..Len(ps) -> UNION {Values(p) : p \in Params}] :
                  \A i \in 1..Len(ps) : vs[i] \in Values(ps[i])}

CgSetConf ==
    /\ Op
    /\ \E ps \in Settings : \E vs \in SettingsOf(ps) :
          LET set == SetParameters(cg, [i \in 1..Len(ps) |-> <<ps[i], vs[i]>>], cgLease)
          IN /\ \E complete \in BOOLEAN :
                   \* a parameter without a value ends the loop before confChanged
                   /\ cg' = IF complete THEN EmitConfigChanged(set, cgLease) ELSE set
                   /\ cgBehind' = Behind(cg',
                        IF ~complete \/ ("hostname" \in ToSet(ps) /\ cg'.flags = "DHCP") THEN Touched(cg')
                        ELSE IF cg'.flags = "DHCP" /\ ToSet(ps) \cap {"mode", "ip", "port"} # {}
                             THEN Touched(cg') \cap {"web", "du"}
                        ELSE {})
             /\ cgDcBehind' = (cgDcBehind \/ ~SameNetwork(cg'.doc, cg.doc))
    /\ UNCHANGED <<cgLease, cgDc, cgWire>>

\* setConf with a node, and the delConfNode next to it.
CgSetConfNode ==
    /\ Op
    /\ \E p \in {"mode", "port"} : \E v \in Values(p) \ {cg.doc[p]} :
          /\ cg' = [cg EXCEPT !.doc[p] = v]
          /\ cgBehind' = Behind(cg', Bits(p))
    /\ cgDcBehind' = (cgDcBehind \/ ~SameNetwork(cg'.doc, cg.doc))
    /\ UNCHANGED <<cgLease, cgDc, cgWire>>

\* resetConf, for the reset mode of setConf and for dataIn: all is announced,
\* and confChanged is not emitted.
CgResetConf ==
    /\ Op
    /\ \E doc \in {Defaults, [Defaults EXCEPT !.mode = "Manual", !.ip = "b", !.keep = "1"]} :
          cg' = [cg EXCEPT !.doc = doc, !.mask = @ \cup Bits("all")]
    /\ cgBehind' = Behind(cg', Handlers)
    /\ cgDcBehind' = (cgDcBehind \/ ~SameNetwork(cg'.doc, cg.doc))
    /\ UNCHANGED <<cgLease, cgDc, cgWire>>

----------------------------------------------------------------------------
(***************************************************************************)
(* The commands of the configuration tool, which arrive as UDP packets,    *)
(* and what the DC is told of them.                                        *)
(***************************************************************************)
ReplayNetwork(c, only) == Append(cgWire, [kind |-> "mode", only |-> only, mode |-> c.doc.mode, ip |-> c.doc.ip])

\* The settings are written for nobody: only the network itself is updated.
CgAssign ==
    /\ Op
    /\ \E mode \in Modes, ip \in {"a", "b"}, ntp \in Addresses :
          cg' = UpdateNetwork(WriteToConfig([cg EXCEPT !.flags = mode, !.ip = ip, !.ntp = ntp]), cgLease)
    /\ cgWire' = ReplayNetwork(cg', FALSE)
    /\ cgBehind' = Behind(cg', {"ntp", "web"})
    /\ cgDcBehind' = FALSE
    /\ UNCHANGED <<cgLease, cgDc>>

CgReset ==
    /\ Op
    /\ cg' = UpdateNetwork([cg EXCEPT !.flags = "DHCP", !.ip = "0.0.0.0", !.ntp = "0.0.0.0"], cgLease)
    /\ cgWire' = ReplayNetwork(cg', TRUE)
    /\ cgBehind' = Behind(cg', {})
    /\ cgDcBehind' = FALSE
    /\ UNCHANGED <<cgLease, cgDc>>

\* on_set_mode_parameter_finished goes on whatever the result was, with the
\* parameters as they are then.
CgQueryEnds ==
    /\ cgWire # <<>>
    /\ \E ok \in BOOLEAN :
          LET q == Head(cgWire)
              lan == [kind |-> "lan", only |-> FALSE, mode |-> cg.doc.mode,
                      ip |-> IF cg.doc.mode = "Manual" THEN cg.doc.ip ELSE cgDc.ip]
          IN /\ cgDc' = IF ~ok THEN cgDc
                        ELSE IF q.kind = "mode" THEN [cgDc EXCEPT !.mode = q.mode]
                        ELSE [cgDc EXCEPT !.ip = IF q.mode = "Manual" THEN q.ip ELSE @]
             /\ cgWire' = IF q.kind = "mode" /\ ~q.only THEN Append(Tail(cgWire), lan) ELSE Tail(cgWire)
             /\ cgDcBehind' = (cgDcBehind \/ ~ok)
    /\ UNCHANGED <<cg, cgLease, cgBehind, cgOps>>

\* At the end of an update of the DC, which has restarted and lost it all.
CgDcRestarts ==
    /\ Op
    /\ cgWire = <<>>
    /\ cgDc' = [mode |-> "DHCP", ip |-> "0.0.0.0"]
    /\ cgWire' = ReplayNetwork(cg, FALSE)
    /\ cgDcBehind' = FALSE
    /\ UNCHANGED <<cg, cgLease, cgBehind>>

----------------------------------------------------------------------------
\* udhcpc in the background gets another address.
CgNewLease ==
    /\ Op
    /\ cg.interface.mode = "DHCP"
    /\ \E lease \in {"a", "b"} \ {cgLease} :
          /\ cgLease' = lease
          /\ cg' = [cg EXCEPT !.interface.ip = lease]
    /\ UNCHANGED <<cgDc, cgWire, cgBehind, cgDcBehind>>

\* reread_network_config, every 10 seconds.
CgReread ==
    /\ cg.flags = "DHCP"
    /\ cg' = WriteNetOnly(CheckBack(cg))
    /\ cgBehind' = Behind(cg', {})
    /\ cgDcBehind' = (cgDcBehind \/ ~SameNetwork(cg'.doc, cg.doc))
    /\ UNCHANGED <<cgLease, cgDc, cgWire, cgOps>>

CgNext ==
    \/ CgSetConf \/ CgSetConfNode \/ CgResetConf
    \/ CgAssign \/ CgReset \/ CgQueryEnds \/ CgDcRestarts
    \/ CgNewLease \/ CgReread

CgSpec == CgInit /\ [][CgNext]_cgVars

----------------------------------------------------------------------------
(* What the document says is in use at its handlers, and at the interface    *)
(* (emitConfigChanged, updateNetwork).  What may be behind is known: with    *)
(* DHCP the handlers that come after the network, because its update clears  *)
(* the mask; and what an assign command, a node, a setConf with a bad        *)
(* parameter or resetConf has changed without a confChanged.                 *)
HandlersAdopt == \A h \in Handlers \ cgBehind : InUse(cg, h)

(* When the answers to all queries are there the DC has the mode, and for a  *)
(* static network the address, of the document, if the document still has    *)
(* the network of the last thing that tells the DC: a command of the tool or *)
(* the replay after its update (replay_network_settings, on_set_mode_        *)
(* parameter_finished).  A setConf, a node and a resetConf tell it nothing,  *)
(* so that after they have changed the network, as after a failed query, the *)
(* DC is behind until the next that does.                                    *)
DcKnowsNetwork ==
    cgWire = <<>> /\ ~cgDcBehind =>
        /\ cgDc.mode = cg.doc.mode
        /\ cg.doc.mode = "Manual" => cgDc.ip = cg.doc.ip

(* A change reaches its handlers and the interface, and what a command of    *)
(* the tool or the replay tells the DC reaches the DC.                       *)
ChangesReachAll == HandlersAdopt /\ DcKnowsNetwork

(* The address of a new lease reaches the configuration (reread_network_     *)
(* config).                                                                  *)
LeaseIsWritten == []<>(cg.flags = "DHCP" => cg.doc.ip = cg.interface.ip)
=============================================================================

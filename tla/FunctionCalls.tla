---------------------------- MODULE FunctionCalls ----------------------------
(* One function call from create_call to its answer (xml_function.cc,        *)
(* accessibility_checker.cc, restriction_check_request.cc,                   *)
(* function_call_restricted.cc, signature_check_request.cc,                  *)
(* function_call_sigcheck.cc, core_function_call.cc) with the functions that *)
(* go through files of the SIC and the DC (core_function_get_file.cc,        *)
(* core_function_set_file.cc, core_function_del_file.cc,                     *)
(* core_function_get_files_list.cc) or pass their XML to the DC              *)
(* (core_function_wrap_dc.cc).                                               *)
EXTENDS Integers, FiniteSets, Sequences

Channels == {"Internal IPC", "LAN:webservice", "LAN:webserver", "LAN:sharedFolder", "LAN:socket",
             "USB", "COM1", "COM2", "Debug"}

(***************************************************************************)
(* The tables of the three checks; an interface without a line in one of   *)
(* them passes it.                                                         *)
(***************************************************************************)
Fids == {"dataFree", "dataIn", "dataOut", "dataSync", "delFile", "delMeasurement", "delProfile", "delTemplate",
         "getCalibration", "getConf", "getDefaults", "getFile", "getFilesList", "getMeasurement",
         "getMeasurementsList", "getParameter", "getParametersList", "getProfile", "getProfilesList",
         "getTemplate", "getTemplatesList", "guiIO", "log", "procedure", "setCalibration", "setConf",
         "setDefaults", "setFile", "setMeasurement", "setMeasurementsList", "setParameter", "setProfile",
         "setProfilesList", "setTemplate", "setTemplatesList", "update"}

DataOfSic == {"dataFree", "dataIn", "dataSync", "log"}

AccessCheckMap(channel) ==
    CASE channel = "Internal IPC" -> DataOfSic \cup {"getConf", "setConf", "dataOut", "guiIO"}
      [] channel = "LAN:webservice" -> Fids \ (DataOfSic \cup {"procedure", "setConf"})
      [] channel = "LAN:webserver" -> Fids \ (DataOfSic \cup {"procedure"})
      [] channel \in {"LAN:sharedFolder", "USB"} -> Fids \ (DataOfSic \cup {"dataOut", "getConf", "setConf"})
      [] channel = "LAN:socket" -> Fids \ (DataOfSic \cup {"dataOut", "getConf", "setConf", "procedure"})
      [] channel \in {"COM1", "COM2"} ->
            {"update", "getMeasurementsList", "getMeasurement", "getCalibration", "getDefaults",
             "getProfilesList", "getProfile", "getParametersList", "getParameter", "getTemplatesList"}
      [] OTHER -> Fids

Protected == {"update", "setCalibration", "setDefaults", "setTemplatesList", "setTemplate",
                      "setFile", "delTemplate", "delFile"}

RestCheckMap(channel) ==
    CASE channel \in {"LAN:webservice", "LAN:webserver", "LAN:socket"} -> Protected
      [] channel \in {"LAN:sharedFolder", "USB"} -> Protected \cup {"procedure"}
      [] channel \in {"COM1", "COM2"} -> {"update"}
      [] OTHER -> {}

Signed == (Protected \ {"delTemplate"}) \cup
          {"getTemplate", "getFilesList", "getFile", "delTemplatesList", "guiIO"}

SigCheckMap(channel) ==
    CASE channel = "Internal IPC" -> {"guiIO"}
      [] channel \in {"LAN:webservice", "LAN:socket"} -> Signed
      [] channel \in {"LAN:sharedFolder", "USB"} -> Signed \cup {"procedure"}
      [] channel \in {"COM1", "COM2"} -> {"update"}
      [] OTHER -> {}

\* What CoreFunctionWrapDC passes to the DC: the functions that read ...
ReadAtDc == {"getCalibration", "getDefaults", "getProfilesList", "getProfile", "getParametersList",
             "getParameter", "getTemplatesList", "getTemplate"}

\* ... and those that change what the DC has, or ask its user.
ChangedAtDc == {"setMeasurementsList", "setMeasurement", "setCalibration", "setDefaults", "setProfilesList",
                "setProfile", "setParameter", "setTemplatesList", "setTemplate", "delMeasurement",
                "delProfile", "delTemplate", "guiIO"}

PassedToDc == ReadAtDc \cup ChangedAtDc

----------------------------------------------------------------------------
Hosts == {"none", "DC", "SIC", "XX"}    \* "none": the empty string
FileFunctions == {"getFile", "setFile", "delFile"}
Ids == {"x", "y"}                       \* parameters of a restriction

VARIABLE ca     \* the call

caVars == <<ca>>

Call == [phase : {"new", "restriction", "signature", "main", "answered", "silent", "dies"},
         fid : Fids, channel : Channels,
         restrictions : Seq(Seq(Ids)),  \* one of them is to hold, with all its parameters
         signature : {"good", "bad", "none"},
         host : Hosts,                  \* the host parameter of the function
         files : Seq(Hosts),            \* the files by their own host
         dest : {"none", "file", "bad"},
         values : [Ids -> {"holds", "fails", "missing"}],   \* what the DC told
         sync : BOOLEAN,                \* still within XmlRequest::execute
         at : Nat,
         done : Seq({"DC", "SIC"} \X Nat),
         status : Nat, answers : Nat, temps : 0..2]

CaTypeOK ==
    /\ ca \in Call
    /\ ca.phase = "main" => ca.at \in 1..(Len(ca.files) + 1)
    /\ Len(ca.done) <= Len(ca.files) + 1

\* The chain of calls as create_call builds it, before it is started.
NewCall(fid, channel, restrictions, signature, host, files, dest) ==
    [phase |-> "new", fid |-> fid, channel |-> channel, restrictions |-> restrictions,
     signature |-> signature, host |-> host, files |-> files, dest |-> dest,
     values |-> [i \in Ids |-> "missing"], sync |-> TRUE, at |-> 1, done |-> <<>>,
     status |-> 0, answers |-> 0, temps |-> 0]

Lists == {<<>>} \cup {<<h>> : h \in Hosts} \cup (Hosts \X Hosts)

Restrictions == {<<>>, <<<<"x">>>>, <<<<"x", "y">>>>, <<<<"x">>, <<"y">>>>, <<<<>>>>}

\* Every list of files where nothing is checked, every check with one list, and
\* every function of the DC with every check.
CaInit ==
    \/ \E fid \in FileFunctions \cup {"getFilesList", "getParameter"}, host \in Hosts, files \in Lists,
          dest \in {"none", "file", "bad"} :
          ca = NewCall(fid, "Debug", <<>>, "none", host, files, dest)
    \/ \E fid \in PassedToDc, channel \in Channels, restrictions \in {<<>>, <<<<"x">>>>},
          signature \in {"good", "bad", "none"} :
          ca = NewCall(fid, channel, restrictions, signature, "none", <<>>, "none")
    \/ \E fid \in {"setFile", "getFile", "delTemplate", "getConf", "procedure"}, channel \in Channels,
          restrictions \in Restrictions, signature \in {"good", "bad", "none"} :
          ca = NewCall(fid, channel, restrictions, signature, "none", <<"DC", "SIC">>, "none")

----------------------------------------------------------------------------
(***************************************************************************)
(* Answers.  What is thrown within execute is answered as a bad request;   *)
(* what a callback of the main loop throws ends the program.               *)
(***************************************************************************)
Answer(c, status) == [c EXCEPT !.phase = "answered", !.status = status, !.answers = @ + 1]

Throws(c) == IF c.sync THEN Answer(c, 400) ELSE [c EXCEPT !.phase = "dies"]

\* call_finished: the result may be redirected to a file.
CallFinished(c, status) == IF c.dest = "bad" THEN Throws(c) ELSE Answer(c, status)

----------------------------------------------------------------------------
(* The main call.                                                            *)

HostOf(c) == IF c.host # "none" THEN c.host ELSE IF c.files = <<>> THEN "none" ELSE c.files[c.at]

AtDc(c) == HostOf(c) \in {"none", "DC"}

NextFile(c, where) == [c EXCEPT !.done = Append(@, <<where, c.at>>), !.at = @ + 1]

\* Mutant: getFile and delFile, too, do nothing for an unknown host.
HandleOneFileSilent(c) ==
    IF HostOf(c) = "XX" THEN [c EXCEPT !.phase = "silent"] ELSE [c EXCEPT !.phase = "main"]

\* handle_one_file: a request is under way, except that a file of the SIC is
\* deleted at once; for setFile another host is nobody's.
HandleOneFile(c) ==
    IF c.fid = "setFile" /\ HostOf(c) = "XX" THEN [c EXCEPT !.phase = "silent"]
    ELSE [c EXCEPT !.phase = "main"]

CheckFileList(c) ==
    /\ "XX" \notin {c.files[i] : i \in DOMAIN c.files}
    /\ c.fid = "setFile" => c.files # <<>>

StartFileFunction(c) ==
    CASE c.fid # "delFile" /\ ~CheckFileList(c) -> CallFinished(c, 400)
      [] c.files = <<>> /\ c.fid = "getFile" /\ c.host = "SIC" -> CallFinished(c, 400)
      \* without a file: a null host, or the end of the list, is dereferenced
      [] c.files = <<>> /\ (c.fid = "delFile" \/ c.host = "none") -> [c EXCEPT !.phase = "dies"]
      [] OTHER -> HandleOneFile(c)

StartFilesList(c) ==
    IF \/ c.host = "XX"
       \/ c.host = "SIC" /\ c.files = <<>>
       \/ c.host # "SIC" /\ c.files # <<>>
    THEN CallFinished(c, 400) ELSE [c EXCEPT !.phase = "main"]

StartCall(c) ==
    CASE c.fid \in FileFunctions -> StartFileFunction(c)
      [] c.fid = "getFilesList" -> StartFilesList(c)
      [] OTHER -> [c EXCEPT !.phase = "main"]

\* on_write_query_finish, on_read_finish, on_write_finish and del_file
FileHandled(c, where) ==
    LET next == NextFile(c, where)
    IN IF next.at <= Len(c.files) THEN HandleOneFile(next) ELSE CallFinished(next, 200)

FailedStatus(c) == IF AtDc(c) THEN 408 ELSE IF c.fid = "setFile" THEN 403 ELSE 404

----------------------------------------------------------------------------
(* The checks.                                                               *)

\* start_check of the signature: both temporary files are removed also when
\* the signature is empty or gpg cannot be started.
StartSignatureCheck(c) ==
    IF c.fid \notin SigCheckMap(c.channel) THEN StartCall(c)
    ELSE IF c.signature = "none" THEN Answer(c, 400)
    ELSE [c EXCEPT !.phase = "signature", !.temps = 2]

Cleanup(c) == [c EXCEPT !.temps = 0]

StartRestrictionCheck(c) ==
    IF c.restrictions = <<>> \/ c.fid \notin RestCheckMap(c.channel) THEN StartSignatureCheck(c)
    ELSE [c EXCEPT !.phase = "restriction"]

\* Mutant: A parameter that holds is enough for its restriction.
HoldsAny(c, restriction) ==
    restriction = <<>> \/ \E i \in DOMAIN restriction : c.values[restriction[i]] = "holds"

(***************************************************************************)
(* evaluate: all restrictions are gone through, each up to the first       *)
(* parameter that does not hold; a missing value that is met throws.       *)
(***************************************************************************)
Holds(c, restriction) == \A i \in DOMAIN restriction : c.values[restriction[i]] = "holds"

ThrowsIn(c, restriction) ==
    \E i \in DOMAIN restriction :
        c.values[restriction[i]] = "missing" /\ \A j \in 1..(i - 1) : c.values[restriction[j]] = "holds"

EvaluateRestrictions(c) ==
    LET rs == {c.restrictions[i] : i \in DOMAIN c.restrictions}
    IN (\E r \in rs : Holds(c, r)) /\ \A r \in rs : ~ThrowsIn(c, r)

----------------------------------------------------------------------------
\* Functions that do their work in start_call.
Immediate(c) ==
    c.fid \in {"delFile", "getConf"} \/ (c.fid = "getFilesList" /\ c.host = "SIC")

\* XmlRequest::execute
CaExecute ==
    /\ ca.phase = "new"
    /\ ca' = IF ca.fid \notin AccessCheckMap(ca.channel) THEN Answer(ca, 400)
             ELSE LET started == StartRestrictionCheck(ca)
                  IN [started EXCEPT !.sync = started.phase = "main" /\ Immediate(started)]

\* RestrictionCheckRequest::on_write_query_finish
CaRestrictionReply ==
    /\ ca.phase = "restriction"
    /\ \E ok \in BOOLEAN, values \in [Ids -> {"holds", "fails", "missing"}] :
          LET told == IF ok THEN [ca EXCEPT !.values = values] ELSE ca
          IN ca' = IF ok /\ EvaluateRestrictions(told) THEN StartSignatureCheck(told) ELSE Answer(told, 200)

\* SignatureCheckRequest::on_gpg_proc_finish; gpg may be killed.
CaGpgFinishes ==
    /\ ca.phase = "signature"
    /\ \E ok \in BOOLEAN :
          ca' = IF ok /\ ca.signature = "good" THEN StartCall(Cleanup(ca)) ELSE Answer(Cleanup(ca), 400)

\* A file of the SIC is deleted without waiting, the others in callbacks.
CaFileDone ==
    /\ ca.phase = "main" /\ ca.fid \in FileFunctions
    /\ LET here == IF ca.fid = "delFile" /\ ~AtDc(ca) THEN ca ELSE [ca EXCEPT !.sync = FALSE]
       IN ca' \in {FileHandled(here, IF AtDc(ca) THEN "DC" ELSE "SIC"), CallFinished(here, FailedStatus(ca))}

\* Where a call that is no file function has its effect.
Place(c) ==
    IF c.fid \in PassedToDc \cup {"procedure"} \/ (c.fid = "getFilesList" /\ c.host # "SIC") THEN "DC" ELSE "SIC"

\* The answer of the DC is the answer; what is in the SIC is there at once, or
\* is not found.
CaOtherDone ==
    /\ ca.phase = "main" /\ ca.fid \notin FileFunctions
    /\ LET failed == IF Place(ca) = "DC" THEN 408 ELSE IF ca.fid = "getConf" THEN 400 ELSE 404
       IN ca' \in {CallFinished([ca EXCEPT !.done = <<<<Place(ca), 1>>>>], 200),
                   CallFinished(ca, failed)}

CaNext == CaExecute \/ CaRestrictionReply \/ CaGpgFinishes \/ CaFileDone \/ CaOtherDone

CaSpec == CaInit /\ [][CaNext]_caVars

----------------------------------------------------------------------------
(* A call is answered once.  Its files are handled in order and each at the  *)
(* host the call or the file names, and a call that did anything is told 200 *)
(* only when every file was handled: after a failure what was done is the    *)
(* part before the file that failed.                                         *)
AnswerTellsEffects ==
    /\ ca.answers = IF ca.phase = "answered" THEN 1 ELSE 0
    /\ ca.fid \in FileFunctions =>
         /\ \A i \in DOMAIN ca.done :
               /\ ca.done[i][2] = i
               /\ i <= Len(ca.files) =>
                    ca.done[i][1] = IF ca.host = "DC" \/ (ca.host = "none" /\ ca.files[i] \in {"none", "DC"}) THEN "DC" ELSE "SIC"
         /\ ca.status = 200 /\ ca.done # <<>> => Len(ca.done) >= Len(ca.files)

IsRestricted(c) == c.fid \in RestCheckMap(c.channel) /\ c.restrictions # <<>>

\* One of the restrictions holds, with all its parameters.
Permitted(c) ==
    IsRestricted(c) =>
        \E i \in DOMAIN c.restrictions :
            \A k \in DOMAIN c.restrictions[i] : c.values[c.restrictions[i][k]] = "holds"

(* Nothing is done for a call that its interface may not make, whose         *)
(* signature is needed and was not verified, or all of whose restrictions    *)
(* fail by the values the DC told: in each order in which the checks end.    *)
NothingUnchecked ==
    ca.done # <<>> =>
        /\ ca.fid \in AccessCheckMap(ca.channel)
        /\ ca.fid \in SigCheckMap(ca.channel) => ca.signature = "good"
        /\ Permitted(ca)

(* What a call that was refused is told.  That it may not be made, or that   *)
(* its signature is wrong, is a bad request.  That its restrictions fail "is *)
(* not fatal" (function_call_restricted.cc:38-43): it is told 200, although  *)
(* nothing was done.  No other call is told 200 without an effect: such an   *)
(* answer means that the call is restricted and a value was wrong or missing.*)
RefusalIsTold ==
    ca.phase = "answered" =>
        /\ ca.fid \notin AccessCheckMap(ca.channel) => ca.status = 400
        /\ ca.fid \in AccessCheckMap(ca.channel) /\ ~Permitted(ca) => ca.status = 200 /\ ca.done = <<>>
        /\ ca.fid \in SigCheckMap(ca.channel) /\ ca.signature # "good" => ca.status \in {200, 400}
        /\ ca.status = 200 /\ ca.done = <<>> =>
              IsRestricted(ca) /\ \E x \in Ids : ca.values[x] # "holds"

(* No temporary file of a signature check is left when the call goes on.     *)
NoTempLeft == ca.phase # "signature" => ca.temps = 0

(* A call does what was checked, and answers what it did or why it did not.  *)
CallsAreChecked == AnswerTellsEffects /\ NothingUnchecked /\ RefusalIsTold /\ NoTempLeft

(* Every started call is answered, if the DC and the processes end.  The exceptions  *)
(* are a setFile whose host parameter is unknown, which is never answered    *)
(* and keeps its place in the scheduler; an answer that cannot be redirected *)
(* in a callback; and delFile and getFile without a file.                    *)
CallEnds ==
    ca.phase # "new" ~>
        /\ ca.phase \in {"answered", "silent", "dies"}
        /\ ca.phase = "silent" => ca.fid = "setFile" /\ ca.host = "XX"
        /\ ca.phase = "dies" => \/ ca.dest = "bad"
                                \/ ca.fid \in {"delFile", "getFile"} /\ ca.files = <<>>
=============================================================================

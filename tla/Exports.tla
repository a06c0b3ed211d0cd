------------------------------- MODULE Exports -------------------------------
(* One dataOut call (core_function_data_out.cc): a measurement, the logs, the *)
(* monitor files or the configuration to a folder, a printer, a socket or a  *)
(* serial line.  The queue of the postprocessors is that of                  *)
(* post_processing_builder.cc, the configuration is signed by                *)
(* signature_creation_request.cc.  Measurements has the same call with       *)
(* others beside it that write and free the measurement.                     *)
EXTENDS Integers, FiniteSets, SequencesExt


FolderDests == {"lanFolder", "usbFolder"}
SocketDests == {"lanSocket", "serial"}
Dests == FolderDests \cup SocketDests \cup {"lanPrinter", "localPrinter", "unknown"}

(***************************************************************************)
(* The configuration: postprocessors as in defaults.xml, and two that an   *)
(* imported one may have, for images and with a name that tells no input.  *)
(***************************************************************************)
PostProcessors ==
    <<[id |-> "PDF", input |-> "xml", ext |-> "pdf", formats |-> <<"pdfStandard", "pdfEnhanced">>],
      [id |-> "JPG", input |-> "bmp", ext |-> "jpg", formats |-> <<"jpg">>],
      [id |-> "ODD", input |-> "odd", ext |-> "odd", formats |-> <<"odd">>]>>

PostProcessorsOf(dest) ==
    CASE dest \in FolderDests -> {"PDF", "JPG", "ODD"} [] dest = "lanPrinter" -> {"PDF"}
      [] OTHER -> {"JPG"}

FormatTag(format) == IF format = "pdfEnhanced" THEN "_enh" ELSE "_std"

\* "none": the empty string, here and below.
Formats == {"none", "pdfStandard", "pdfEnhanced", "jpg", "odd", "xx"}
Outputs == {"none", "1", "2", "9"}

\* A protocol with schemes needs one.
Protocols == {"none", "Listener", "Acknowledge", "xx"}
Schemes(protocol) == IF protocol = "Acknowledge" THEN {"ackLines"} ELSE {}

\* The files of the measurement, in the order its directory lists them.
MeasurementFile == [kind : {"xml", "bmp"}, tag : {"none", "_L", "_R"}]
XmlFile == [kind |-> "xml", tag |-> "none"]
BmpFile(tag) == [kind |-> "bmp", tag |-> tag]

VARIABLES
    ex,         \* the call
    exWorld,    \* the folders, the measurement and the configuration it meets
    exMade,     \* generated files that are there
    exOut,      \* what arrived, in order: the folder and the file
    exConfig,   \* the configuration file at the destination
    exTemps     \* temporary files of the signature

exVars == <<ex, exWorld, exMade, exOut, exConfig, exTemps>>

Generated == {<<e, t>> : e \in {"pdf", "jpg"}, t \in {"_std", "_enh", "_L", "_R"}}

Archive == <<"archive", "none">>
OutputOfScript == <<"script", "none">>

Export == [phase : {"new", "generate", "copy", "print", "send", "tar", "sign", "answered", "dies"},
           type : {"measurement", "log", "monitor", "conf", "xx"}, dest : Dests,
           named : {"iid", "id", "unknown", "none"}, format : Formats, output : Outputs,
           protocol : Protocols, scheme : BOOLEAN,
           queue : Seq([folder : Outputs, file : Generated]),
           at : Nat, status : {0, 200, 400, 500}, answers : 0..2]

Surroundings == [outputs : Seq([id : Outputs, format : Formats]),  \* folders for measurements
                 folders : 0..2,               \* folders for the type, if it is another
                 files : Seq(MeasurementFile),
                 serialNumber : BOOLEAN, mounted : BOOLEAN,
                 touched : {"no", "pulled", "freed"},
                 protocols : SUBSET Protocols, defaultProtocol : Protocols]

ExTypeOK ==
    /\ ex \in Export /\ exWorld \in Surroundings
    /\ exMade \subseteq Generated
    /\ exOut \in Seq(Outputs \X (Generated \cup {Archive, OutputOfScript}))
    /\ exConfig \in {"none", "torn", "unsigned", "signed"}
    /\ exTemps \in 0..2
    /\ ex.phase \in {"generate", "copy"} => ex.at \in DOMAIN ex.queue

NewExport(type, dest, named, format, output, protocol, scheme) ==
    [phase |-> "new", type |-> type, dest |-> dest, named |-> named, format |-> format, output |-> output,
     protocol |-> protocol, scheme |-> scheme, queue |-> <<>>, at |-> 1, status |-> 0, answers |-> 0]

NewWorld(outputs, folders, files, serialNumber, mounted, protocols, defaultProtocol) ==
    [outputs |-> outputs, folders |-> folders, files |-> files, serialNumber |-> serialNumber,
     mounted |-> mounted, touched |-> "no", protocols |-> protocols, defaultProtocol |-> defaultProtocol]

TwoOutputs(f, g) == <<[id |-> "1", format |-> f], [id |-> "2", format |-> g]>>

OutputLists == {<<>>} \cup {TwoOutputs(f, g) : f \in Formats, g \in {"none", "pdfStandard", "jpg"}}

FileLists == {<<>>, <<XmlFile>>, <<BmpFile("_L"), XmlFile, BmpFile("_R")>>, <<BmpFile("none")>>}

Known == {"Listener", "Acknowledge"}

\* A measurement to the folders, with each choice of them.
ExInitFolders ==
    \E dest \in FolderDests, format \in Formats, output \in Outputs, files \in FileLists, outputs \in OutputLists :
       /\ ex = NewExport("measurement", dest, "iid", format, output, "none", FALSE)
       /\ exWorld = NewWorld(outputs, 1, files, TRUE, TRUE, {}, "none")

\* A measurement to each destination, named in each way.
ExInitDests ==
    \E dest \in Dests, named \in {"iid", "id", "unknown", "none"}, format \in Formats,
       protocol \in Protocols, scheme \in BOOLEAN, files \in FileLists :
       /\ ex = NewExport("measurement", dest, named, format, "none", protocol, scheme)
       /\ exWorld = NewWorld(TwoOutputs("jpg", "jpg"), 1, files, TRUE, TRUE, Known, "Listener")

\* Another type.
ExInitTypes ==
    \E type \in {"log", "monitor", "conf", "xx"}, dest \in Dests, protocol \in Protocols, folders \in 0..2,
       scheme \in BOOLEAN, serialNumber \in BOOLEAN, mounted \in BOOLEAN, default \in {"none", "Acknowledge"} :
       /\ ex = NewExport(type, dest, "none", "none", "none", protocol, scheme)
       /\ exWorld = NewWorld(<<>>, folders, <<>>, serialNumber, mounted, Known, default)

ExInit ==
    /\ ExInitFolders \/ ExInitDests \/ ExInitTypes
    /\ ex.dest \notin SocketDests => ex.protocol = "none" /\ ~ex.scheme
    /\ ex.dest \in SocketDests => exWorld.serialNumber /\ exWorld.mounted /\ exWorld.folders = 1
    /\ exMade \in IF ex.type = "measurement" THEN {{}, {<<"pdf", "_std">>}} ELSE {{}}
    /\ exOut = <<>> /\ exConfig = "none" /\ exTemps = 0

----------------------------------------------------------------------------
(* The queue of the postprocessors.                                          *)

\* The entries of s that are in S, in their order.
Those(s, S) == FlattenSeq([k \in DOMAIN s |-> IF s[k] \in S THEN <<s[k]>> ELSE <<>>])

\* getSpecificPostProcessor: the first of the destination that has the format
ProcessorsFor ==
    [dest \in Dests |-> [format \in Formats |->
        Those(PostProcessors, {pp \in Range(PostProcessors) : pp.id \in PostProcessorsOf(dest) /\ Contains(pp.formats, format)})]]

GeneratedName(pp, format, file) == <<pp.ext, IF file.tag # "none" THEN file.tag ELSE FormatTag(format)>>

\* generated_files_by_pp: one for each file of the measurement that is input
GeneratedFiles(pp, format) ==
    LET inputs == Those(exWorld.files, {f \in MeasurementFile : f.kind = pp.input})
    IN [k \in DOMAIN inputs |-> GeneratedName(pp, format, inputs[k])]

\* The entries of a folder; none where an exception is thrown.
Entries(dest, format, folder) ==
    LET pps == ProcessorsFor[dest][format]
    IN IF pps = <<>> THEN <<>>
       ELSE LET files == GeneratedFiles(pps[1], format)
            IN [k \in DOMAIN files |-> [folder |-> folder, file |-> files[k]]]

\* Mutant: A folder of another format is not removed.
MatchingAny(c) == {f \in Range(exWorld.outputs) : c.output \in {"none", f.id}}

Matching(c) ==
    {f \in Range(exWorld.outputs) : c.output \in {"none", f.id} /\ c.format \in {"none", f.format}}

\* build_queue_file_dest: folders without a format are passed over, and one
\* folder whose files cannot be determined fails them all.
Formatted(c) == Those(exWorld.outputs, {f \in Matching(c) : f.format # "none"})

FolderQueue(c, formatted) ==
    LET queues == [k \in DOMAIN formatted |-> Entries(c.dest, formatted[k].format, formatted[k].id)]
    IN IF \/ ~exWorld.mounted \/ ~exWorld.serialNumber
          \/ \E k \in DOMAIN queues : queues[k] = <<>>
       THEN <<>> ELSE FlattenSeq(queues)

\* build_queue
BuildQueue(c, formatted) ==
    IF c.dest \in FolderDests THEN FolderQueue(c, formatted) ELSE Entries(c.dest, c.format, "none")

----------------------------------------------------------------------------
Answered(c, status) == [c EXCEPT !.phase = "answered", !.status = status, !.answers = @ + 1]

\* get_copy_script: whether there is a script for the protocol; the scheme is
\* asked for by the protocol that was named, not by the default one.
HasCopyScript(c) ==
    LET id == IF c.protocol = "none" THEN exWorld.defaultProtocol ELSE c.protocol
    IN /\ c.protocol \in exWorld.protocols /\ Schemes(c.protocol) # {} => c.scheme
       /\ id \in exWorld.protocols

StartScript(c) == IF HasCopyScript(c) THEN [c EXCEPT !.phase = "send"] ELSE Answered(c, 500)

AllMade(c) == \A k \in DOMAIN c.queue : c.queue[k].file \in exMade'

\* start_copying
StartCopying(c) ==
    CASE c.dest \in FolderDests -> [c EXCEPT !.phase = "copy", !.at = 1]
      [] c.dest \in SocketDests -> StartScript(c)
      [] c.dest = "lanPrinter" -> [c EXCEPT !.phase = "print"]
      [] OTHER -> Answered(c, IF AllMade(c) THEN 200 ELSE 500)

\* The files the local printer is given are in the answer.
LocalOut(c) ==
    IF c.dest = "localPrinter" /\ c.phase = "answered" /\ c.status = 200
    THEN [k \in DOMAIN c.queue |-> <<"none", c.queue[k].file>>] ELSE exOut

\* From entry k on: the first whose file is not there is generated.
Generate(c, k) ==
    LET missing == {j \in DOMAIN c.queue : j >= k /\ c.queue[j].file \notin exMade'}
    IN IF missing = {} THEN StartCopying(c)
       ELSE [c EXCEPT !.phase = "generate", !.at = CHOOSE j \in missing : \A i \in missing : j <= i]

\* start_postprocessing: an empty queue has no first entry
StartPostprocessing(c, queue) ==
    IF c.named = "unknown" \/ queue = <<>> THEN Answered(c, 500) ELSE Generate([c EXCEPT !.queue = queue], 1)

CheckValidXml(c) ==
    /\ c.dest # "unknown" /\ c.type # "xx"
    /\ c.type = "measurement" => c.named # "none"

\* start_tar_process, create_config_xml; getRootFolder starts another mount when
\* the share is not there (Boot) and throws all the same
HasFolder(c) ==
    c.dest \in FolderDests /\ exWorld.folders = 1 /\ exWorld.mounted /\ exWorld.serialNumber

\* start_call, type_dispatcher
ExStart ==
    /\ ex.phase = "new"
    /\ ex.type # "conf" \/ ~CheckValidXml(ex) \/ ~HasFolder(ex)
    /\ UNCHANGED <<exWorld, exMade, exConfig, exTemps>>
    /\ \E formatted \in {Formatted(ex)} : \E queue \in {BuildQueue(ex, formatted)} :
        ex' = CASE ~CheckValidXml(ex) -> Answered(ex, 400)
                [] CheckValidXml(ex) /\ ex.type = "measurement" -> StartPostprocessing(ex, queue)
                [] ex.type \in {"log", "monitor"} /\ ex.dest \in SocketDests -> StartScript(ex)
                [] ex.type \in {"log", "monitor"} /\ HasFolder(ex) -> [ex EXCEPT !.phase = "tar"]
                [] OTHER -> Answered(ex, 500)
    /\ exOut' = LocalOut(ex')

\* A failed signature removes the configuration; without the stick del_file
\* throws out of the callback.
SignatureFails(c) ==
    /\ ex' = IF exWorld.mounted THEN Answered(c, 500) ELSE [c EXCEPT !.phase = "dies"]
    /\ exConfig' = IF exWorld.mounted THEN "none" ELSE exConfig
    /\ exTemps' = 0

\* create_config_xml writes the configuration with a placeholder and
\* start_creation starts openssl.  A configuration that cannot be written is
\* left as far as it was; what fails in start_creation is not cleaned up.
ExStartConfig ==
    /\ ex.phase = "new" /\ ex.type = "conf" /\ CheckValidXml(ex) /\ HasFolder(ex)
    /\ \/ exConfig' = "torn" /\ ex' = Answered(ex, 500) /\ UNCHANGED exTemps
       \/ exConfig' = "unsigned" /\ ex' = [ex EXCEPT !.phase = "sign"] /\ exTemps' = 2
       \/ exConfig' = "none" /\ ex' = Answered(ex, 500) /\ exTemps' \in 0..2
    /\ UNCHANGED <<exWorld, exMade, exOut>>

\* on_hmac_proc_finish, on_signature_creation_finish: the signature takes the
\* place of the placeholder, which may fail as well.
ExSigned ==
    /\ ex.phase = "sign"
    /\ \/ exWorld.mounted /\ exConfig' = "signed" /\ exTemps' = 0 /\ ex' = Answered(ex, 200)
       \/ SignatureFails(ex)
    /\ UNCHANGED <<exWorld, exMade, exOut>>

----------------------------------------------------------------------------
Freed == exWorld.touched = "freed"

\* on_post_proc_finish.  In a directory that was removed no other file can be
\* created, and none to be deleted is found: del_file throws out of the callback.
ExGenerated ==
    /\ ex.phase = "generate"
    /\ exMade' = IF Freed THEN exMade ELSE exMade \cup {ex.queue[ex.at].file}
    /\ LET next == Generate(ex, ex.at + 1)
       IN ex' = IF Freed /\ next.phase = "generate" THEN [next EXCEPT !.phase = "dies"] ELSE next
    /\ exOut' = LocalOut(ex')
    /\ UNCHANGED <<exWorld, exConfig, exTemps>>

(***************************************************************************)
(* The postprocessor fails, or could not be started.  For an entry that is *)
(* not the first the message of the second case is made of two unrelated   *)
(* pointers (a ustring of a range): it may come out as any text, or end    *)
(* the program.                                                            *)
(***************************************************************************)
ExGenerateFails ==
    /\ ex.phase = "generate"
    /\ exMade' = exMade \ {ex.queue[ex.at].file}
    /\ \/ ~Freed /\ ex' = Answered(ex, 500)
       \/ (ex.at > 1 \/ Freed) /\ ex' = [ex EXCEPT !.phase = "dies"]
    /\ UNCHANGED <<exWorld, exOut, exConfig, exTemps>>

\* on_copy_finish
ExCopied ==
    /\ ex.phase = "copy" /\ exWorld.mounted /\ ex.queue[ex.at].file \in exMade
    /\ exOut' = Append(exOut, <<ex.queue[ex.at].folder, ex.queue[ex.at].file>>)
    /\ ex' = IF ex.at < Len(ex.queue) THEN [ex EXCEPT !.at = @ + 1] ELSE Answered(ex, 200)
    /\ UNCHANGED <<exWorld, exMade, exConfig, exTemps>>

\* on_lp_proc_finish: one lp has all the files
ExPrinted ==
    /\ ex.phase = "print" /\ \A k \in DOMAIN ex.queue : ex.queue[k].file \in exMade
    /\ exOut' = [k \in DOMAIN ex.queue |-> <<"none", ex.queue[k].file>>]
    /\ ex' = Answered(ex, 200)
    /\ UNCHANGED <<exWorld, exMade, exConfig, exTemps>>

\* on_copy_proc_finish
ExSent ==
    /\ ex.phase = "send"
    /\ exOut' = <<<<"none", OutputOfScript>>>> /\ ex' = Answered(ex, 200)
    /\ UNCHANGED <<exWorld, exMade, exConfig, exTemps>>

\* on_tar_proc_finish: status 1, a file that changed meanwhile, is no failure
ExArchived ==
    /\ ex.phase = "tar" /\ exWorld.mounted
    /\ exOut' = <<<<"none", Archive>>>> /\ ex' = Answered(ex, 200)
    /\ UNCHANGED <<exWorld, exMade, exConfig, exTemps>>

\* A copy or a process fails, or is killed by its timeout.
ExTransferFails ==
    /\ ex.phase \in {"copy", "print", "send", "tar"}
    /\ ex' = Answered(ex, 500)
    /\ UNCHANGED <<exWorld, exMade, exOut, exConfig, exTemps>>

\* Meanwhile the stick is pulled or the share lost, or another call frees the
\* measurement with all that was generated from it.
ExOthers ==
    /\ ex.phase \notin {"new", "answered", "dies"} /\ exWorld.touched = "no"
    /\ \/ exWorld' = [exWorld EXCEPT !.touched = "pulled", !.mounted = FALSE] /\ UNCHANGED exMade
       \/ exWorld' = [exWorld EXCEPT !.touched = "freed"] /\ exMade' = {}
    /\ UNCHANGED <<ex, exOut, exConfig, exTemps>>

ExOwn ==
    \/ ExStart \/ ExStartConfig \/ ExSigned \/ ExGenerated \/ ExGenerateFails
    \/ ExCopied \/ ExPrinted \/ ExSent \/ ExArchived \/ ExTransferFails

ExNext == ExOwn \/ ExOthers

ExSpec == ExInit /\ [][ExNext]_exVars

----------------------------------------------------------------------------
\* What the folders, or the printer, are to get: by the configuration alone.
Wanted ==
    LET targets == IF ex.dest \in FolderDests
                   THEN {o \in Range(exWorld.outputs) : /\ ex.output \in {"none", o.id}
                                                        /\ ex.format \in {"none", o.format} /\ o.format # "none"}
                   ELSE {[id |-> "none", format |-> ex.format]}
        tag(o, f) == IF f.tag = "none" THEN FormatTag(o.format) ELSE f.tag
    IN UNION {UNION {{<<o.id, <<pp.ext, tag(o, f)>>>> :
                  f \in {g \in Range(exWorld.files) : g.kind = pp.input}} :
              o \in {t \in targets : Contains(pp.formats, t.format)}} :
              pp \in Range(PostProcessors)}

(* An export that is answered with OK has brought everything there, once: to *)
(* every folder that the call asks for the files of its own format, all of   *)
(* them to a printer, an archive, or the output of a script; whatever was    *)
(* generated before, failed, or was taken away meanwhile.                    *)
OkMeansDelivered ==
    ex.status = 200 =>
        CASE ex.dest \in SocketDests -> exOut = <<<<"none", OutputOfScript>>>>
          [] ex.type = "measurement" /\ ex.dest \notin SocketDests ->
                Range(exOut) = Wanted /\ Len(exOut) = Cardinality(Wanted) /\ Wanted # {}
          [] ex.type = "conf" -> exConfig = "signed"
          [] OTHER -> exOut = <<<<"none", Archive>>>>

(* Once a call for the configuration is answered, a whole configuration at   *)
(* the destination is a signed one, for dataIn refuses the other; it is      *)
(* there only if the answer is OK, and then no copy of it is left in the     *)
(* temporary files.  (They stay when openssl cannot be started.)             *)
ConfigIsSigned ==
    ex.phase = "answered" /\ ex.type = "conf" =>
        IF ex.status = 200 THEN exConfig = "signed" /\ exTemps = 0 ELSE exConfig \in {"none", "torn"}

\* An entry of the queue as it arrives.
Arrival(entry) == <<entry.folder, entry.file>>

(* The queue of the postprocessors names each file that is to be brought     *)
(* somewhere once and no other, though it is made by the folders, formats    *)
(* and files that happen to be there, and failed folders empty it.           *)
QueueIsWanted ==
    /\ ex.queue \in Seq([folder : Outputs, file : Generated])
    /\ ex.queue # <<>> =>
          /\ {Arrival(ex.queue[k]) : k \in DOMAIN ex.queue} = Wanted
          /\ Len(ex.queue) = Cardinality(Wanted)

(* What an export leaves at its destination is what its answer says.         *)
ExportsHold == QueueIsWanted /\ OkMeansDelivered /\ ConfigIsSigned

(* Every export is answered, once, through up to one process and one copy    *)
(* for each file, also when the destination or the files are taken away      *)
(* meanwhile.  Three ends of the daemon are the exceptions: the stick is     *)
(* pulled while the configuration is signed, the measurement is freed while  *)
(* a file is generated, and a postprocessor after the first cannot be started. *)
ExportEnds ==
    ex.phase # "new" ~>
        \/ ex.phase = "answered" /\ ex.answers = 1
        \/ ex.phase = "dies" /\ IF ex.type = "conf" THEN ~exWorld.mounted ELSE Freed \/ Len(ex.queue) > 1
=============================================================================

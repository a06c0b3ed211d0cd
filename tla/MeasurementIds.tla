--------------------------- MODULE MeasurementIds ---------------------------
(* ML.xml, the file that maps the internal id of a measurement (iid) to the  *)
(* id that a database gave it (id_mapper.cc), and those who use it: dataSync *)
(* (core_function_data_sync.cc), dataFree and the disk alarm, dataOut and    *)
(* getMeasurement, and the list getMeasurementsList gives                    *)
(* (core_function_get_measurements_list.cc).                                 *)
EXTENDS Integers, FiniteSets, SequencesExt

CONSTANT MappingLimit       \* bounds the requests

ASSUME MappingAssumption == MappingLimit \in Nat

Iids == {"m1", "m2"}
AllocatedIds == {"a", "b"}
NoId == ""
Stamps == {"", "now"}     \* date, time and zone; "" when they are not given

Mapping == [iid : Iids, id : AllocatedIds \cup {NoId}, stamp : Stamps]
ChangedFor == [kind : {"none", "sync", "free"}, iid : Iids, id : AllocatedIds \cup {NoId}]

VARIABLES
    mlFile,     \* ML.xml: its state and, when it is whole, its mappings
    mlTmp,      \* ML.xml.tmp
    mpDoc,      \* the document in memory, parsed anew for every request
    mpStep,     \* "idle", or what save does next: "write" or "move"
    mpOp,       \* the request the document was changed for
    mpList,     \* the last list: its target, its scope, what it holds and its answers
    mpCount

mpVars == <<mlFile, mlTmp, mpDoc, mpStep, mpOp, mpList, mpCount>>

Targets == {"", "DC", "SIC", "XX"}
Scopes == {"", "conducted", "scheduled", "allocated", "all", "xx"}

MlFile == [state : {"none", "damaged", "torn", "whole"}, doc : Seq(Mapping)]
Without(state) == [state |-> state, doc |-> <<>>]

NoList == [target |-> "", scope |-> "", content |-> <<>>, answers |-> <<>>]

MpTypeOK ==
    /\ mlFile \in MlFile /\ mlTmp \in MlFile
    /\ mpDoc \in Seq(Mapping)
    /\ mpStep \in {"idle", "write", "move"}
    /\ mpOp \in ChangedFor
    /\ mpList.target \in Targets /\ mpList.scope \in Scopes
    /\ mpList.content \in Seq(Mapping) /\ mpList.answers \in Seq({200, 400, 408, 500})
    /\ mpCount \in 0..MappingLimit

MpInit ==
    /\ mlFile \in {Without("none"), Without("damaged")}
    /\ mlTmp = Without("none") /\ mpDoc = <<>> /\ mpStep = "idle"
    /\ mpOp = [kind |-> "none", iid |-> "m1", id |-> NoId]
    /\ mpList = NoList /\ mpCount = 0

----------------------------------------------------------------------------
\* setup: instance is never set (id_mapper.h), so every use parses the file.
SetupFails == mlFile.state \in {"damaged", "torn"}
Parsed == mlFile.doc

Positions(doc, iid) == {k \in DOMAIN doc : doc[k].iid = iid}

\* The first of the positions, and 0 when there is none.
First(positions) ==
    IF positions = {} THEN 0 ELSE CHOOSE k \in positions : \A j \in positions : k <= j

Kept(old, new) == IF new = "" THEN old ELSE new

Updated(m, e) == [m EXCEPT !.id = Kept(@, e.id), !.stamp = Kept(@, e.stamp)]

\* Mutant: A mapping is always created.
AddMappingTwice(doc, e) == Append(doc, e)

\* Mutant: What is not given is cleared.
AddMappingClears(doc, e) ==
    LET k == First(Positions(doc, e.iid)) IN IF k = 0 THEN Append(doc, e) ELSE [doc EXCEPT ![k] = e]

\* add_mapping: update or create
AddMapping(doc, e) ==
    LET k == First(Positions(doc, e.iid))
    IN IF k = 0 THEN Append(doc, e) ELSE [doc EXCEPT ![k] = Updated(@, e)]

\* get_iid: the first mapping with the id; the id is never empty
GetIid(doc, id) ==
    LET k == First({j \in DOMAIN doc : doc[j].id = id}) IN IF k = 0 THEN "none" ELSE doc[k].iid

\* get_all_mappings and get_all_allocated_mappings
Listed(doc, scope) ==
    IF scope = "allocated" THEN FlattenSeq([k \in DOMAIN doc |-> IF doc[k].id = NoId THEN <<>> ELSE <<doc[k]>>])
    ELSE doc

----------------------------------------------------------------------------
MpRequest == mpStep = "idle" /\ mpCount < MappingLimit /\ mpCount' = mpCount + 1

\* add_id_mapping of dataSync, with the id of the call or of the database: what
\* is thrown is caught and dataSync answers as if the mapping were there.
MpSync(iid, id, stamp) ==
    /\ MpRequest
    /\ IF SetupFails THEN UNCHANGED <<mpDoc, mpStep, mpOp>>
       ELSE /\ mpDoc' = AddMapping(Parsed, [iid |-> iid, id |-> id, stamp |-> stamp])
            /\ mpStep' = "write"
            /\ mpOp' = [kind |-> "sync", iid |-> iid, id |-> id]
    /\ mpList' = NoList /\ UNCHANGED <<mlFile, mlTmp>>

\* remove_mapping, of dataFree and of the disk alarm: nothing is saved when
\* there is no mapping.
MpFree(iid) ==
    /\ MpRequest
    /\ LET k == First(Positions(Parsed, iid))
       IN IF SetupFails \/ k = 0 THEN UNCHANGED <<mpDoc, mpStep, mpOp>>
          ELSE /\ mpDoc' = RemoveAt(Parsed, k)
               /\ mpStep' = "write"
               /\ mpOp' = [kind |-> "free", iid |-> iid, id |-> NoId]
    /\ mpList' = NoList /\ UNCHANGED <<mlFile, mlTmp>>

\* save: the temporary file is written, ...
MpWrite ==
    /\ mpStep = "write" /\ mpStep' = "move"
    /\ mlTmp' = [state |-> "whole", doc |-> mpDoc]
    /\ UNCHANGED <<mlFile, mpDoc, mpOp, mpList, mpCount>>

\* ... which fails on a full flash; the change is lost with the document,
MpWriteFails ==
    /\ mpStep = "write" /\ mpStep' = "idle"
    /\ mlTmp' = Without("torn")
    /\ UNCHANGED <<mlFile, mpDoc, mpOp, mpList, mpCount>>

\* ... and takes the place of the file.
MpMove ==
    /\ mpStep = "move" /\ mpStep' = "idle"
    /\ mlFile' = mlTmp /\ mlTmp' = Without("none")
    /\ UNCHANGED <<mpDoc, mpOp, mpList, mpCount>>

\* The power fails; what was being written is torn.
MpCrash ==
    /\ mpStep # "idle" /\ mpStep' = "idle"
    /\ mlTmp' = IF mpStep = "write" THEN Without("torn") ELSE mlTmp
    /\ UNCHANGED <<mlFile, mpDoc, mpOp, mpList, mpCount>>

----------------------------------------------------------------------------
\* check_xml_and_get_values
TargetOf(target) == IF target = "" THEN "DC" ELSE target
ScopeOf(target, scope) ==
    IF scope # "" THEN scope ELSE IF TargetOf(target) = "DC" THEN "conducted" ELSE "allocated"
ListIsValid(target, scope) ==
    \/ TargetOf(target) = "DC" /\ ScopeOf(target, scope) \in {"conducted", "scheduled", "all"}
    \/ TargetOf(target) = "SIC" /\ ScopeOf(target, scope) \in {"allocated", "all"}

\* getMeasurementsList: handle_sic answers that the file is damaged, and goes
\* on to answer with an empty list; handle_dc answers as the DC does.
MpGetList(target, scope) ==
    /\ MpRequest
    /\ LET request == [target |-> target, scope |-> scope, content |-> <<>>, answers |-> <<>>]
       IN \/ /\ ~ListIsValid(target, scope)
             /\ mpList' = [request EXCEPT !.answers = <<400>>]
          \/ /\ ListIsValid(target, scope) /\ TargetOf(target) = "DC"
             /\ \E status \in {200, 408} : mpList' = [request EXCEPT !.answers = <<status>>]
          \/ /\ ListIsValid(target, scope) /\ TargetOf(target) = "SIC"
             /\ mpList' = IF SetupFails THEN [request EXCEPT !.answers = <<500, 200>>]
                          ELSE [request EXCEPT !.answers = <<200>>,
                                               !.content = Listed(Parsed, ScopeOf(target, scope))]
    /\ UNCHANGED <<mlFile, mlTmp, mpDoc, mpStep, mpOp>>

MpNext ==
    \/ \E iid \in Iids, id \in AllocatedIds \cup {NoId}, stamp \in Stamps : MpSync(iid, id, stamp)
    \/ \E iid \in Iids : MpFree(iid)
    \/ MpWrite \/ MpWriteFails \/ MpMove \/ MpCrash
    \/ \E target \in Targets, scope \in Scopes : MpGetList(target, scope)

MpSpec == MpInit /\ [][MpNext]_mpVars

----------------------------------------------------------------------------
IdIn(file, iid) ==
    IF Positions(file.doc, iid) = {} THEN NoId ELSE file.doc[First(Positions(file.doc, iid))].id

(* A measurement has one mapping in the file, however often it is stored.    *)
OneMappingEach == \A iid \in Iids : Cardinality(Positions(mlFile.doc, iid)) <= 1

(* Neither a power failure nor a full flash within save loses the mappings   *)
(* that were there: ML.xml is never a file that is half written.             *)
MappingsSurvive == mlFile.state # "torn"

(* ML.xml is a whole file with one mapping for each measurement.             *)
MappingsHold == OneMappingEach /\ MappingsSurvive

(* A measurement keeps the id it was given until it is freed or stored with  *)
(* another id: not when it is stored again without one, nor by what happens  *)
(* to another measurement.                                                   *)
IdStays ==
    [][\A iid \in Iids :
          IdIn(mlFile, iid) # NoId /\ IdIn(mlFile', iid) # IdIn(mlFile, iid) =>
              /\ mpOp.iid = iid
              /\ mpOp.kind = "sync" => mpOp.id # NoId /\ IdIn(mlFile', iid) = mpOp.id]_mpVars

(* An id finds the same measurement until that one is freed or gets another  *)
(* id, also when a second measurement is stored with the same id; only a     *)
(* measurement that stands before it in the file can take the id over.       *)
IdKeepsItsMeasurement ==
    [][\A id \in AllocatedIds :
          LET found == GetIid(mlFile.doc, id)
              takes == Positions(mlFile.doc, mpOp.iid)
          IN found # "none" =>
              \/ GetIid(mlFile'.doc, id) = found
              \/ mpOp.iid = found /\ (mpOp.kind = "free" \/ mpOp.id \notin {NoId, id})
              \/ /\ mpOp.kind = "sync" /\ mpOp.id = id
                 /\ \E k \in takes, j \in Positions(mlFile.doc, found) : k < j]_mpVars
=============================================================================

------------------------------ MODULE ConfFile ------------------------------
(* The configuration on disk (conf_handler.cc, simple_crypt.cc): what save() *)
(* leaves behind when the power fails between its steps or the disk is full, *)
(* and what load() makes of it.                                              *)
(*                                                                           *)
(* The document is reduced to its version, to whether it is a long one, to   *)
(* whether it has a MAC address (the key of its passwords), to how often its *)
(* passwords are crypted, and to whether it got them on this device.         *)
EXTENDS Integers

CONSTANTS
    ChangeLimit,        \* bound: changed configurations
    CrashLimit,         \* bound: power failures
    FullLimit           \* bound: documents written to a full disk

ASSUME ConfFileLimits == ChangeLimit \in Nat /\ CrashLimit \in Nat /\ FullLimit \in Nat

VARIABLES
    cfDoc,      \* the document in memory
    cfStep,     \* how far save() is
    cfConfig,   \* zixconf.xml
    cfBackup,   \* zixconf.xml.bak
    cfTemp,     \* zixconf.xml.tmp: 0 not there, 1 a short text, 2 a long one
    cfTorn,     \* what save() has written there is no document
    cfSaved,    \* the version of the last save() that has ended
    cfLoss,     \* excuses for a lost version: a full disk, a rest of an older text
    cfChanges, cfCrashes, cfFulls

cfVars == <<cfDoc, cfStep, cfConfig, cfBackup, cfTemp, cfTorn, cfSaved, cfLoss, cfChanges, cfCrashes, cfFulls>>

Steps == {"idle", "write", "rename", "backup", "off"}

\* How often the passwords of a document are crypted; Garbled once something
\* that was not crypted has been decrypted: base64_decode skips what is not base64.
Garbled == -1
Crypting == {Garbled} \cup 0..(ChangeLimit + 1)

CfDocument == [v : 0..ChangeLimit, long : BOOLEAN, key : BOOLEAN, pw : Crypting, own : BOOLEAN]
Unreadable == [v |-> -1, long |-> FALSE, key |-> FALSE, pw |-> 0, own |-> TRUE]
CfFile == CfDocument \cup {Unreadable}
CfDefaults == [v |-> 0, long |-> FALSE, key |-> FALSE, pw |-> 0, own |-> TRUE]

CfTypeOK ==
    /\ cfDoc \in CfDocument
    /\ cfStep \in Steps
    /\ cfConfig \in CfFile /\ cfBackup \in CfFile
    /\ cfTemp \in 0..2
    /\ cfTorn \in BOOLEAN /\ cfLoss \in BOOLEAN
    /\ cfSaved \in 0..ChangeLimit
    /\ cfChanges \in 0..ChangeLimit /\ cfCrashes \in 0..CrashLimit /\ cfFulls \in 0..FullLimit

(***************************************************************************)
(* simple_crypt and simple_decrypt leave the text alone without a key.     *)
(***************************************************************************)
Crypted(d) ==
    [d EXCEPT !.pw = IF ~d.key \/ d.pw = Garbled THEN @ ELSE @ + 1]
Decrypted(d) ==
    [d EXCEPT !.pw = IF ~d.key THEN @ ELSE IF d.pw = 0 THEN Garbled ELSE IF d.pw = Garbled THEN @ ELSE @ - 1]

\* What the properties do not ask of passwords that were decrypted but never
\* crypted, or the other way round.
FromClearText(d) == [d EXCEPT !.own = ~d.key]

(***************************************************************************)
(* load(): the first of config, backup and defaults that can be parsed     *)
(* (nobody writes the damaged file that comes first); its passwords are    *)
(* decrypted whatever file it was.                                         *)
(***************************************************************************)
Loaded(config, backup) ==
    IF config # Unreadable THEN Decrypted(config)
    ELSE IF backup # Unreadable THEN FromClearText(Decrypted(backup))
    ELSE Decrypted(CfDefaults)

Length(d) == IF d.long THEN 2 ELSE 1

CfInit ==
    /\ cfDoc = CfDefaults /\ cfStep = "idle"
    /\ cfConfig = Unreadable /\ cfBackup = Unreadable /\ cfTemp = 0 /\ cfTorn = FALSE
    /\ cfSaved = 0 /\ cfLoss = FALSE
    /\ cfChanges = 0 /\ cfCrashes = 0 /\ cfFulls = 0

----------------------------------------------------------------------------
\* setConfParameter, setConfNode, delConfNode and updatePrinters change the
\* document and save it; a parameter that keeps its value does neither.
Changes(d) ==
    /\ cfStep = "idle" /\ cfChanges < ChangeLimit
    /\ cfChanges' = cfChanges + 1
    /\ cfDoc' = [d EXCEPT !.v = cfChanges + 1]
    /\ cfStep' = "write"
    /\ UNCHANGED <<cfConfig, cfBackup, cfTemp, cfTorn, cfSaved, cfLoss, cfCrashes, cfFulls>>

CfSet ==
    \E long \in BOOLEAN : Changes([cfDoc EXCEPT !.long = long])

CfSetPasswords ==
    Changes([cfDoc EXCEPT !.pw = 0, !.own = TRUE])

\* CNetworkConfig writes the address of the device into it.
CfSetMac ==
    /\ ~cfDoc.key
    /\ Changes([cfDoc EXCEPT !.key = TRUE])

\* resetConf(): the defaults, or the document a dataIn has prepared from an
\* export, which holds the passwords as they are on disk.
CfReset ==
    Changes(CfDefaults)

CfImport ==
    /\ cfConfig # Unreadable
    /\ Changes(FromClearText(cfConfig))

\* ... and when it cannot be parsed, load() again.
CfImportFails ==
    Changes(Loaded(cfConfig, cfBackup))

----------------------------------------------------------------------------
(***************************************************************************)
(* save().  The temporary file is opened without O_TRUNC: what a save that *)
(* a power failure has interrupted left there stays behind a shorter text. *)
(* Nobody looks at the state of the stream.                                *)
(***************************************************************************)
Overwrites(d) == cfTemp > Length(d)

CfWrite ==
    /\ cfStep = "write"
    /\ cfStep' = "rename"
    /\ cfTorn' = Overwrites(cfDoc)
    /\ cfTemp' = IF Overwrites(cfDoc) THEN cfTemp ELSE Length(cfDoc)
    /\ cfLoss' = (cfLoss \/ Overwrites(cfDoc))
    /\ UNCHANGED <<cfDoc, cfConfig, cfBackup, cfSaved, cfChanges, cfCrashes, cfFulls>>

CfWriteFull ==
    /\ cfStep = "write" /\ cfFulls < FullLimit
    /\ cfStep' = "rename"
    /\ cfFulls' = cfFulls + 1
    /\ cfTorn' = TRUE /\ cfLoss' = TRUE
    /\ cfTemp' \in {t \in 1..2 : t >= cfTemp}
    /\ UNCHANGED <<cfDoc, cfConfig, cfBackup, cfSaved, cfChanges, cfCrashes>>

\* The temporary file cannot be opened; save() returns.
CfOpenFails ==
    /\ cfStep = "write" /\ cfFulls < FullLimit
    /\ cfStep' = "idle"
    /\ cfFulls' = cfFulls + 1
    /\ cfLoss' = TRUE
    /\ UNCHANGED <<cfDoc, cfConfig, cfBackup, cfTemp, cfTorn, cfSaved, cfChanges, cfCrashes>>

\* The file gets the passwords crypted, the document has them decrypted again.
CfRename ==
    /\ cfStep = "rename"
    /\ cfStep' = "backup"
    /\ cfConfig' = IF cfTorn THEN Unreadable ELSE Crypted(cfDoc)
    /\ cfDoc' = Decrypted(Crypted(cfDoc))
    /\ cfTemp' = 0
    /\ UNCHANGED <<cfBackup, cfTorn, cfSaved, cfLoss, cfChanges, cfCrashes, cfFulls>>

\* Mutant: a failed rename is not noticed.
CfRenameFailsGoesOn ==
    /\ cfStep = "rename" /\ cfFulls < FullLimit
    /\ cfStep' = "backup"
    /\ cfFulls' = cfFulls + 1
    /\ cfDoc' = Decrypted(Crypted(cfDoc))
    /\ UNCHANGED <<cfConfig, cfBackup, cfTemp, cfTorn, cfSaved, cfLoss, cfChanges, cfCrashes>>

\* A failed rename leaves the old files and the temporary one; save() returns.
CfRenameFails ==
    /\ cfStep = "rename" /\ cfFulls < FullLimit
    /\ cfStep' = "idle"
    /\ cfFulls' = cfFulls + 1
    /\ cfLoss' = TRUE
    /\ cfDoc' = Decrypted(Crypted(cfDoc))
    /\ UNCHANGED <<cfConfig, cfBackup, cfTemp, cfTorn, cfSaved, cfChanges, cfCrashes>>

\* The backup is written in place, with the passwords as they are in memory.
CfBackup ==
    /\ cfStep = "backup"
    /\ cfStep' = "idle"
    /\ cfBackup' \in {cfDoc} \cup (IF cfTorn /\ cfFulls > 0 THEN {Unreadable} ELSE {})
    /\ cfSaved' = cfDoc.v
    /\ cfLoss' = cfTorn
    /\ UNCHANGED <<cfDoc, cfConfig, cfTemp, cfTorn, cfChanges, cfCrashes, cfFulls>>

----------------------------------------------------------------------------
\* A power failure.  The temporary file may have grown to some part of the
\* text, the backup may be half written.
CfCrash ==
    /\ cfStep # "off" /\ cfCrashes < CrashLimit
    /\ cfCrashes' = cfCrashes + 1
    /\ cfStep' = "off"
    /\ IF cfStep = "write"
         THEN cfTemp' \in cfTemp..(IF Overwrites(cfDoc) THEN cfTemp ELSE Length(cfDoc))
         ELSE UNCHANGED cfTemp
    /\ IF cfStep = "backup" THEN cfBackup' \in {cfBackup, Unreadable, cfDoc} ELSE UNCHANGED cfBackup
    /\ UNCHANGED <<cfDoc, cfConfig, cfTorn, cfSaved, cfLoss, cfChanges, cfFulls>>

\* ConfHandler::ConfHandler; cfChanges still names the version that was to be
\* saved last.
CfBoot ==
    /\ cfStep = "off"
    /\ cfStep' = "idle"
    /\ cfDoc' = Loaded(cfConfig, cfBackup)
    /\ UNCHANGED <<cfConfig, cfBackup, cfTemp, cfTorn, cfSaved, cfLoss, cfChanges, cfCrashes, cfFulls>>

CfNext ==
    \/ CfSet \/ CfSetPasswords \/ CfSetMac \/ CfReset \/ CfImport \/ CfImportFails
    \/ CfWrite \/ CfWriteFull \/ CfOpenFails \/ CfRename \/ CfRenameFails \/ CfBackup
    \/ CfCrash \/ CfBoot

CfSpec == CfInit /\ [][CfNext]_cfVars

----------------------------------------------------------------------------
(* After every boot the settings are those of the last save that ended or   *)
(* of a later one that was interrupted (save, load), unless a document went *)
(* to a full disk or over the longer rest of an interrupted one.            *)
SettingsSurvive == ~cfLoss => cfDoc.v >= cfSaved

(* The passwords in memory are readable, unless they were read from the      *)
(* backup, which holds them in clear and is decrypted all the same, or came  *)
(* with the configuration of an export, which holds them crypted.            *)
PasswordsKept == cfDoc.own => cfDoc.pw = 0

(* There is always a document on disk that a boot can read and that is not   *)
(* older than the last completed save: save() never destroys the only copy.  *)
SomeCopyIsWhole == ~cfLoss /\ cfSaved > 0 =>
    \E f \in {cfConfig, cfBackup} : f # Unreadable /\ f.v >= cfSaved

(* What save and load promise together: the settings, their passwords and a  *)
(* copy to read them from.                                                   *)
ConfigurationSurvives == SettingsSurvive /\ PasswordsKept /\ SomeCopyIsWhole
=============================================================================

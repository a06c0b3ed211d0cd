--------------------------- MODULE MCXmlProcessor ---------------------------
(* Instances of XmlProcessor: a procedure from the shared folder whose      *)
(* script asks the user, requests of the DC, and a web client.              *)
EXTENDS XmlProcessor, TLC

CONSTANTS proc, script, ask, form, dc1, dc2, dc3, folder, ipc, sock, web

\* A procedure with the guiIO of its script below it, a guiIO of a web client
\* that may go away, one of a file in the shared folder, whose caller catches
\* exceptions, and three requests of the DC.
MixedRequests == {proc, script, ask, form, dc1, dc2, dc3}
MixedConnOf == proc :> folder @@ script :> sock @@ ask :> web @@ form :> folder
               @@ dc1 :> ipc @@ dc2 :> ipc @@ dc3 :> ipc
MixedInterface == proc :> "LANsharedfolder" @@ script :> "LANwebservice"
               @@ ask :> "LANwebserver" @@ form :> "LANsharedfolder"
               @@ dc1 :> "IPC" @@ dc2 :> "IPC" @@ dc3 :> "IPC"
MixedFid == proc :> "procedure" @@ script :> "guiIO" @@ ask :> "guiIO"
               @@ form :> "guiIO" @@ dc1 :> "dataSync" @@ dc2 :> "getConf"
               @@ dc3 :> "getConf"
MixedParent == [r \in MixedRequests |-> IF r = script THEN proc ELSE None]

\* These make too many schedules together: either the third guiIO arrives or
\* the web client goes away, or the second and third request of the DC arrive.
Apart == \/ Fresh(form) /\ closed = {}
         \/ Fresh(dc2) /\ Fresh(dc3)
=============================================================================

---------------------------- MODULE MCSerialLink ----------------------------
(* An instance of SerialLink: the SIC sends two messages, the first in two  *)
(* frames, and the DC one.                                                  *)
EXTENDS SerialLink, TLC

CONSTANTS sic, dc, a1, a2, b1

Ends == {sic, dc}
Messages == {a1, a2, b1}
Senders == a1 :> sic @@ a2 :> sic @@ b1 :> dc
MessageFrames == a1 :> 2 @@ a2 :> 1 @@ b1 :> 1

\* Counters that happen to be zero and ones that give up at the first error.
Counters == {<<0, 0>>, <<3, 3>>}
=============================================================================

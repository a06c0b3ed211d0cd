---------------------------- MODULE MCProcedure ----------------------------
(* Instances of Procedure: a procedure that updates the SIC, one that       *)
(* updates the DC, and one without a limit that has a function without a    *)
(* description.                                                             *)
EXTENDS Procedure, TLC

CONSTANTS sic, dc, log, i

Requests == {sic, dc, log}
RequestSteps ==
    sic :> <<"plain", "sicUpdate", "plain", "plain">> @@ dc :> <<"dcUpdate", "sicUpdate">>
        @@ log :> <<"plain", "undescribed">>
Ids == [r \in Requests |-> i]
Limits == sic :> 1 @@ dc :> 2 @@ log :> None

=============================================================================

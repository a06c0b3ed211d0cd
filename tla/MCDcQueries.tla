---------------------------- MODULE MCDcQueries ----------------------------
(* An instance of DcQueries: queries of two functions and a guiIO.          *)
EXTENDS DcQueries

CONSTANTS q1, q2, gui

Queries == {q1, q2, gui}
GuiQueries == {gui}
=============================================================================

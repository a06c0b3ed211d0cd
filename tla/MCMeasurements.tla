----------------------------- MODULE MCMeasurements -----------------------------
(***************************************************************************)
(* An instance of Measurements: two slots, two generated files, and calls  *)
(* that ask for one of them or for both.                                   *)
(***************************************************************************)
EXTENDS Measurements

CONSTANTS numbers, picture

MCFile == {numbers, picture}
MCCar == {numbers}
MCQueue == {<<numbers>>, <<numbers, picture>>}
===============================================================================

------------------------------ MODULE MCBlocks ------------------------------
(***************************************************************************)
(* Blocks with the forms as small as nested tests in both branches, a         *)
(* closure inside a test, and an Error between two forms need.               *)
(***************************************************************************)
EXTENDS Blocks
=============================================================================

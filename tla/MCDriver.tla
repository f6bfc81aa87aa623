------------------------------ MODULE MCDriver ------------------------------
(***************************************************************************)
(* The instances of Driver that TLC checks.                                 *)
(***************************************************************************)
EXTENDS Driver
=============================================================================

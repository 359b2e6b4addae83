-------------------------- MODULE MCHelperListener --------------------------
(***************************************************************************)
(* The instance of HelperListener that TLC checks.                         *)
(***************************************************************************)
EXTENDS HelperListener
=============================================================================

-------------------------- MODULE MCHelperForward --------------------------
(***************************************************************************)
(* The instances of HelperForward that TLC checks.                         *)
(***************************************************************************)
EXTENDS HelperForward
=============================================================================

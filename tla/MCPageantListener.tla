------------------------- MODULE MCPageantListener --------------------------
(***************************************************************************)
(* The instance of PageantListener that TLC checks.                        *)
(***************************************************************************)
EXTENDS PageantListener
=============================================================================

-------------------------- MODULE MCForwardManager --------------------------
(***************************************************************************)
(* The instances of ForwardManager that TLC checks.                        *)
(***************************************************************************)
EXTENDS ForwardManager
=============================================================================

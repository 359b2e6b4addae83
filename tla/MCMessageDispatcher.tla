------------------------ MODULE MCMessageDispatcher ------------------------
(***************************************************************************)
(* The instances of MessageDispatcher that TLC checks.  The constants are  *)
(* given values in the configurations; there is nothing to define.         *)
(***************************************************************************)
EXTENDS MessageDispatcher
=============================================================================

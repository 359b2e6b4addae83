-------------------------- MODULE MCHelperSessions --------------------------
(***************************************************************************)
(* The instance of HelperSessions that TLC checks: -b -p with -c -d, and   *)
(* with neither.                                                           *)
(***************************************************************************)
EXTENDS HelperSessions

MCOptions == {<<TRUE, TRUE>>, <<FALSE, FALSE>>}
=============================================================================

--------------------------- MODULE MCProxyManager ---------------------------
(***************************************************************************)
(* The instances of ProxyManager that TLC checks.                          *)
(***************************************************************************)
EXTENDS ProxyManager, TLC

MCSymmetry == Permutations(Context)
=============================================================================

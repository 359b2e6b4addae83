-------------------------- MODULE MCHyperVListener --------------------------
(***************************************************************************)
(* The instance of HyperVListener that TLC checks: a machine of the user,  *)
(* one of another user, and two processes with one guid, of which one has  *)
(* a space after it and is taken for a machine.                            *)
(***************************************************************************)
EXTENDS HyperVListener

CONSTANTS h1, h2, h3, h4, distro, vm1, vm2, vm3

MCOwnedBySelf == {h1, h2, h4}

MCCmdline ==
  [p \in Host |->
    CASE p = h1 -> [words |-> <<"word", distro, vm1>>, space |-> FALSE]
      [] p = h2 -> [words |-> <<"word", vm2>>, space |-> TRUE]
      [] p = h3 -> [words |-> <<"word", distro, vm3>>, space |-> TRUE]
      [] p = h4 -> [words |-> <<"word", distro>>, space |-> FALSE]]
=============================================================================

--------------------------- MODULE MCControlAuth ---------------------------
(***************************************************************************)
(* Apps that come, ask for control, give it back and go, with a daemon     *)
(* that has two slots.                                                     *)
(***************************************************************************)
EXTENDS ControlAuth, TLC

Symmetry == Permutations(Client)
=============================================================================

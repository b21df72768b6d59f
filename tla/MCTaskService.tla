--------------------------- MODULE MCTaskService ---------------------------
(***************************************************************************)
(* Two clients, two data types and two intervals.  The clients are alike,  *)
(* also in the table of subscriptions, and so are the types, which are     *)
(* both collected: the run takes them up to symmetry.                      *)
(***************************************************************************)
EXTENDS TaskService, TLC

Symmetry == Permutations(Client) \union Permutations(DataType)
=============================================================================

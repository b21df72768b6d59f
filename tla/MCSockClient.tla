---------------------------- MODULE MCSockClient ----------------------------
(***************************************************************************)
(* Calls of concurrent app threads.  Three calls are the fewest with which *)
(* a list has a node that is neither head nor tail, and a send buffer of   *)
(* two messages drops the oldest request.                                  *)
(***************************************************************************)
EXTENDS SockClient, TLC

Symmetry == Permutations(Call)
=============================================================================

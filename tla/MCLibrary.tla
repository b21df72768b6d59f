----------------------------- MODULE MCLibrary -----------------------------
(***************************************************************************)
(* Two app threads, so that a function can run beside another.  With two   *)
(* descriptors and two socket threads an app registers twice in a row, or  *)
(* loses its connection, gets another and unregisters.                     *)
(***************************************************************************)
EXTENDS Library
=============================================================================

----------------------------- MODULE MCQueries -----------------------------
(***************************************************************************)
(* Three cores and one other line in /proc/stat, so that with two cores    *)
(* off-line the file is too short; two governors; buffers without room,    *)
(* with less room than there are entries, and with enough.                 *)
(***************************************************************************)
EXTENDS Queries

MCAvailable == <<"performance", "userspace">>
=============================================================================

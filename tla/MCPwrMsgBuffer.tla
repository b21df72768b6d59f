--------------------------- MODULE MCPwrMsgBuffer ---------------------------
(***************************************************************************)
(* A ring of four slots and four addresses: it wraps, fills, drops, and a  *)
(* freed address comes back.  Messages are interchangeable, but a temporal *)
(* property is checked too, so no symmetry is used.                        *)
(***************************************************************************)
EXTENDS PwrMsgBuffer
=============================================================================

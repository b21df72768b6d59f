----------------------------- MODULE MCCpuFreq -----------------------------
(***************************************************************************)
(* Three policies of twelve processors, listed by name: policy10 comes     *)
(* before policy2.  Requests may also name policy 1, a processor without a *)
(* policy of its own, and 99, which is no processor.                       *)
(* With 2 kHz in a MHz, limits and frequencies are a whole MHz (2 and 4)   *)
(* and one with a rest (5 and 3): 3 is cut to 2, and a maximum of 5 to 4.  *)
(***************************************************************************)
EXTENDS CpuFreq

MCListing == <<0, 10, 2>>
=============================================================================

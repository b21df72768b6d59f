------------------------------ MODULE MCLogger ------------------------------
(***************************************************************************)
(* Two threads that log, files of more than one line, one backup.  Six     *)
(* lines are three rotations, each in a second of its own: when the daemon *)
(* dies before it has deleted what is too many, the next rotation finds    *)
(* two of them, while a second thread is anywhere in Logger.               *)
(***************************************************************************)
EXTENDS Logger, TLC

Symmetry == Permutations(Thread)
=============================================================================

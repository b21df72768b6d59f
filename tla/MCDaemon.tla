------------------------------ MODULE MCDaemon ------------------------------
(***************************************************************************)
(* One client that comes and goes, two tasks, one of a type that is        *)
(* collected and one of a type that is not: the service thread and the     *)
(* socket thread may be anywhere in a creation, deletion or clean-up when  *)
(* main starts or stops.  Several clients are in MCTaskService.            *)
(***************************************************************************)
EXTENDS Daemon
=============================================================================

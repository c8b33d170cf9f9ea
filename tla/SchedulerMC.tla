---------------------------- MODULE SchedulerMC ----------------------------
(* A collector that may hang in a system call, and the status writer.      *)
EXTENDS Scheduler

MCOrder == <<"process_monitor", "status_writer">>
MCInline == {"process_monitor"}
MCHanging == {"process_monitor"}
=============================================================================

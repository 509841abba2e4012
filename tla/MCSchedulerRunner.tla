-------------------------- MODULE MCSchedulerRunner --------------------------
(* Small instances of SchedulerRunner.  The model values are schedules, and *)
(* threads: the loop, a second loop after a restart, and the server's event *)
(* loop.                                                                    *)
EXTENDS SchedulerRunner
CONSTANTS s1, s2, s3, l1, l2, server
=============================================================================

---------------------------- MODULE MCScheduler ----------------------------
(* Small instances of Scheduler for TLC. *)
EXTENDS Scheduler

Config(type, valid, v) == [type |-> type, valid |-> valid, version |-> v]

\* A schedule, a one-shot task and a task that scheduleTask refuses: an entry of
\* an older configuration is always told from one of the stored configuration.
MixedConfigs == { Config("cron", TRUE, 1), Config("once", TRUE, 1), Config("interval", FALSE, 1) }
=============================================================================

--------------------------- MODULE MCAlarmScheduler ---------------------------
(* AlarmScheduler with a cron mount and an interval mount.  The claims of the *)
(* code last two periods of an interval, and two minutes for a cron.          *)
EXTENDS AlarmScheduler

CONSTANTS cron, every

Periods == [m \in {cron, every} |-> IF m = cron THEN 5 ELSE 2]

Ttls == [m \in {cron, every} |-> IF m = cron THEN 2 ELSE 4]
=============================================================================

---------------------------- MODULE MCScheduler ----------------------------
EXTENDS Scheduler, TLC

MCSchedules == {[type |-> "every", hours |-> 1, day |-> 0, hour |-> 0]}
MCBuiltin == "updates" :> [action |-> "updates.check", enabled |-> FALSE,
                           schedule |-> [type |-> "daily", hours |-> 0, day |-> 0, hour |-> 1],
                           lastRunAt |-> 0, enabledAt |-> 0]
MCOrder == <<"updates", "custom">>
=============================================================================

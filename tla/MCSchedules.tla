---------------------------- MODULE MCSchedules ----------------------------
(* Instances of Schedules for TLC. *)
EXTENDS Schedules

CONSTANTS
    call,    \* a schedule that carries an approved call
    repeat,  \* a repeating schedule, or a plain one beside the call
    lost     \* a schedule whose delivery target is incomplete

MCRepeating == [s \in Schedule |-> {"interval", "cron"}]
MCOnceOnly == [s \in Schedule |-> {"once"}]
MCPeriod == [s \in Schedule |-> 2]
MCMaxRunCount == [s \in Schedule |-> IF s = repeat THEN 2 ELSE 0]

\* A daemon whose own statements take no time: the clock moves, and people edit
\* the table, only while the poller sleeps or waits for a run.
PromptSpec ==
    Init /\ [][Next /\ (pollerVars' # pollerVars \/ pc \in {"idle", "running"})]_vars
=============================================================================

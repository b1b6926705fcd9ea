----------------------------- MODULE Schedules -----------------------------
(***************************************************************************)
(* The schedule table, the poller that runs due schedules, and the people  *)
(* who edit the table while the poller is in the middle of a batch.        *)
(*                                                                         *)
(* SchedulePoller.RunDue reads the clock once, claims up to ClaimLimit due *)
(* rows in one statement, and then works through the claimed copies one    *)
(* after another.  Everything it decides about a schedule it decides from  *)
(* that copy (snap) and that one reading (refTime), while the clock runs   *)
(* on and the row may be cancelled, deleted or edited underneath it.       *)
(*                                                                         *)
(* Time is counted in ticks.  NoTime stands for SQL NULL.  The lease       *)
(* columns are left out: one worker id is compiled into the daemon, so the *)
(* lease clause of the claim is true of every row this daemon, or one      *)
(* before it, has leased.  Morning briefings, which do check their lease,  *)
(* are not part of this module.  A daemon that is quiesced, or does not    *)
(* trust its clock, takes no RunDue step; every step here is optional.     *)
(***************************************************************************)
EXTENDS Integers, FiniteSets

CONSTANTS
    Schedule,        \* schedule ids
    NoSchedule,      \* the poller is between two schedules
    AllowedKinds,    \* [Schedule -> SUBSET Kinds]: the kinds its writers choose from
    Period,          \* [Schedule -> Nat]: interval length or cron period
    MaxRunCount,     \* [Schedule -> Nat], 0 for no limit
    ApprovedCall,    \* the schedules that carry an approved call
    MessageMode,     \* the schedules whose prompt is delivered as it stands
    Deliverable,     \* the schedules with a complete delivery target
    StartWindow,     \* task.ScheduledRunStartWindow
    RetryUnit,       \* the five minutes of scheduleRetryDelay
    RetryCap,        \* the hour of scheduleRetryDelay
    MaxFailureCount, \* maxScheduleFailureCount
    ClaimLimit,      \* the limit Start passes to RunDue
    StaleTimeout,    \* defaultStaleScheduledTaskRunTimeout
    Delays,          \* how far ahead a writer may place the next run
    Lifetimes,       \* how far ahead a writer may place the expiry
    MaxTime,         \* bound on the clock
    MaxCrashes       \* bound on the number of daemon restarts

NoTime == -1
Time == Nat
MaybeTime == Time \cup {NoTime}
Kinds == {"once", "interval", "cron"}

ASSUME ConstantsAssumption ==
    /\ NoSchedule \notin Schedule
    /\ AllowedKinds \in [Schedule -> SUBSET Kinds]
    /\ Period \in [Schedule -> Nat \ {0}]
    /\ MaxRunCount \in [Schedule -> Nat]
    /\ ApprovedCall \subseteq Schedule
    /\ MessageMode \subseteq Schedule
    /\ Deliverable \subseteq Schedule
    /\ StartWindow \in Nat
    /\ Delays \subseteq Nat
    /\ Lifetimes \subseteq Nat \ {0}
    /\ RetryUnit \in Nat
    /\ RetryCap \in Nat
    /\ MaxFailureCount \in Nat \ {0}
    /\ ClaimLimit \in Nat \ {0}
    /\ StaleTimeout \in Nat
    /\ MaxTime \in Nat
    /\ MaxCrashes \in Nat

\* The database enforces it (schedule_approved_call_runs_once), and the only
\* writer of an approved call builds a once schedule.
ASSUME ApprovedCallsRunOnce ==
    \A s \in ApprovedCall : AllowedKinds[s] = {"once"} /\ s \notin MessageMode

VARIABLES
    now,       \* the wall clock
    row,       \* the schedule table
    pc,        \* where the poller is
    refTime,   \* the clock as RunDue read it
    batch,     \* the claimed schedules RunDue has still to look at
    snap,      \* their rows as ClaimDueSchedules returned them
    current,   \* the schedule runSchedule is working on
    outcome,   \* what executeSchedule returned for it
    orphan,    \* a run an earlier daemon left behind, by schedule
    outbox,    \* connector_outbox entries of scheduled deliveries
    calls,     \* how often each approved call has been carried out
    ended,     \* the schedules somebody cancelled or the poller gave up on
    crashes

vars == <<now, row, pc, refTime, batch, snap, current, outcome,
          orphan, outbox, calls, ended, crashes>>

pollerVars == <<pc, refTime, batch, snap, current, outcome>>

Row == [status : {"absent", "open", "deleted"},
        kind : Kinds,
        nextRunAt : MaybeTime,
        nextAttemptAt : Time,
        expiresAt : MaybeTime,
        failureCount : Nat,
        completedRunCount : Nat]

NoRow == [status |-> "absent", kind |-> "once", nextRunAt |-> NoTime,
          nextAttemptAt |-> 0, expiresAt |-> NoTime, failureCount |-> 0,
          completedRunCount |-> 0]

Phases == {"idle", "batch", "starting", "running", "settling", "failing"}
Outcomes == {"none", "result", "missedReport", "failed", "interaction", "noReply",
             "undeliverable"}
Deliveries == [schedule : Schedule, occurrence : MaybeTime, kind : {"occurrence", "notice"}]
Orphans == [status : {"none", "interrupted", "active"}, since : Time]
NoOrphan == [status |-> "none", since |-> 0]

----------------------------------------------------------------------------
(* task.Scheduler *)

scheduleExpired(r, t) == r.expiresAt # NoTime /\ r.expiresAt <= t

IsScheduleDue(r, t) == ~scheduleExpired(r, t) /\ r.nextRunAt # NoTime /\ r.nextRunAt <= t

HasOutlivedItsStartWindow(r, t) == IsScheduleDue(r, t) /\ t - r.nextRunAt > StartWindow

\* Mutant: one run too many.
LimitOffByOne(s, completed) == MaxRunCount[s] > 0 /\ completed > MaxRunCount[s]

scheduleReachedRunLimit(s, completed) == MaxRunCount[s] > 0 /\ completed >= MaxRunCount[s]

\* Mutant: the occurrence that has just run matches the cron expression again.
NextRunInclusive(s, kind, t) ==
    CASE kind = "once"     -> NoTime
      [] kind = "interval" -> t + Period[s]
      [] kind = "cron"     -> Period[s] * (t \div Period[s])

\* Of a schedule that has just run at t: a once schedule has no other run.
calculateNextRunAt(s, kind, t) ==
    CASE kind = "once"     -> NoTime
      [] kind = "interval" -> t + Period[s]
      [] kind = "cron"     -> Period[s] * ((t \div Period[s]) + 1)

\* The next_run_at AdvanceSchedule gives the claimed copy r of schedule s.
AdvanceSchedule(s, r, t) ==
    IF scheduleReachedRunLimit(s, r.completedRunCount + 1) \/ scheduleExpired(r, t)
    THEN NoTime
    ELSE calculateNextRunAt(s, r.kind, t)

scheduleRetryDelay(n) == IF n * RetryUnit > RetryCap THEN RetryCap ELSE n * RetryUnit

----------------------------------------------------------------------------
(* store/postgres.ScheduleRepository.  Each operator gives the new row.    *)
(* A row that was deleted meanwhile matches no WHERE clause.               *)

Claimable(r, t) ==
    /\ r.status = "open"
    /\ r.nextRunAt # NoTime
    /\ r.nextRunAt <= t
    /\ r.nextAttemptAt <= t
    /\ r.expiresAt = NoTime \/ r.expiresAt > t

\* Mutant: the whole claimed copy is written back, its open-ended expiry included.
MarkedWithoutItsExpiry(r, next, completed) ==
    IF r.status # "open" THEN r
    ELSE [r EXCEPT !.nextRunAt = next, !.failureCount = 0, !.nextAttemptAt = now,
                   !.completedRunCount = completed, !.expiresAt = NoTime]

MarkedSucceeded(r, next, completed) ==
    IF r.status # "open" THEN r
    ELSE [r EXCEPT !.nextRunAt = next,
                   !.failureCount = 0,
                   !.nextAttemptAt = now,
                   !.completedRunCount = completed]

MarkedFailed(r, claimed) ==
    IF r.status # "open" THEN r
    ELSE [r EXCEPT !.failureCount = @ + 1,
                   !.nextAttemptAt = refTime + scheduleRetryDelay(claimed.failureCount + 1)]

\* Mutant: next_attempt_at, which is never NULL, is cleared with next_run_at.
ExpiredWithoutAttempt(r) ==
    IF r.status # "open" THEN r
    ELSE [r EXCEPT !.expiresAt = refTime, !.nextRunAt = NoTime,
                   !.failureCount = @ + 1, !.nextAttemptAt = NoTime]

Expired(r) ==
    IF r.status # "open" THEN r
    ELSE [r EXCEPT !.expiresAt = refTime,
                   !.nextRunAt = NoTime,
                   !.failureCount = @ + 1,
                   !.nextAttemptAt = refTime]

Occurrence(s) == [schedule |-> s, occurrence |-> snap[s].nextRunAt, kind |-> "occurrence"]
Notice(s) == [schedule |-> s, occurrence |-> snap[s].nextRunAt, kind |-> "notice"]

----------------------------------------------------------------------------
Init ==
    /\ now = 0
    /\ row = [s \in Schedule |-> NoRow]
    /\ pc = "idle"
    /\ refTime = 0
    /\ batch = {}
    /\ snap = [s \in Schedule |-> NoRow]
    /\ current = NoSchedule
    /\ outcome = "none"
    /\ orphan = [s \in Schedule |-> NoOrphan]
    /\ outbox = {}
    /\ calls = [s \in Schedule |-> 0]
    /\ ended = {}
    /\ crashes = 0

Tick ==
    /\ now < MaxTime
    /\ now' = now + 1
    /\ UNCHANGED <<row, pollerVars, orphan, outbox, calls, ended, crashes>>

----------------------------------------------------------------------------
(* The people who write the table. *)

Expiries == {NoTime} \cup {now + l : l \in Lifetimes}

\* CreateSchedule and CreateApprovedCallSchedule: an approved call needs a
\* start that has not come yet, any other schedule a start that has not passed.
CreateSchedule(s) ==
    /\ row[s].status = "absent"
    /\ \E kind \in AllowedKinds[s], d \in Delays, until \in Expiries :
        /\ s \in ApprovedCall => d > 0 /\ until = NoTime
        /\ row' = [row EXCEPT ![s] =
                    [NoRow EXCEPT !.status = "open", !.kind = kind,
                                  !.nextRunAt = now + d, !.nextAttemptAt = now,
                                  !.expiresAt = until]]
    /\ UNCHANGED <<now, pollerVars, orphan, outbox, calls, ended, crashes>>

\* UpdateSchedule with ApplyScheduleUpdate: the row is read, changed and written
\* back under one row lock.  A schedule that has run before cannot become a once
\* schedule and is given a time after now; one that has not may start at once.
UpdateSchedule(s) ==
    /\ s \notin ApprovedCall
    /\ row[s].status = "open"
    /\ row[s].nextRunAt # NoTime
    /\ ~scheduleExpired(row[s], now)
    /\ ~scheduleReachedRunLimit(s, row[s].completedRunCount)
    /\ \E kind \in AllowedKinds[s], d \in Delays, until \in Expiries :
        /\ row[s].completedRunCount > 0 => d > 0 /\ kind # "once"
        /\ row' = [row EXCEPT ![s].kind = kind, ![s].nextRunAt = now + d,
                              ![s].nextAttemptAt = now, ![s].expiresAt = until]
    /\ UNCHANGED <<now, pollerVars, orphan, outbox, calls, ended, crashes>>

\* CancelSchedules finds only rows that still have a run ahead of them.
CancelSchedule(s) ==
    /\ row[s].status = "open"
    /\ row[s].nextRunAt # NoTime
    /\ ~scheduleExpired(row[s], now)
    /\ row' = [row EXCEPT ![s].expiresAt = now, ![s].nextRunAt = NoTime]
    /\ ended' = ended \cup {s}
    /\ UNCHANGED <<now, pollerVars, orphan, outbox, calls, crashes>>

DeleteSchedule(s) ==
    /\ row[s].status = "open"
    /\ row' = [row EXCEPT ![s] = [NoRow EXCEPT !.status = "deleted"]]
    /\ ended' = ended \cup {s}
    /\ UNCHANGED <<now, pollerVars, orphan, outbox, calls, crashes>>

----------------------------------------------------------------------------
(* The poller. *)

Due(t) == {s \in Schedule : Claimable(row[s], t)}

\* LIMIT ClaimLimit, ORDER BY next_run_at: the earliest due rows.
ClaimSets(t) ==
    {c \in SUBSET Due(t) :
        /\ Cardinality(c) <= ClaimLimit
        /\ Cardinality(c) = ClaimLimit \/ c = Due(t)
        /\ \A s \in c, u \in Due(t) \ c : row[s].nextRunAt <= row[u].nextRunAt}

IsStale(s) == orphan[s].status = "active" /\ orphan[s].since <= now - StaleTimeout

\* RunDue up to its loop: runs nobody has touched for the stale timeout are
\* cancelled, then the due rows are claimed and copied in one statement.
RunDue ==
    /\ pc = "idle"
    /\ refTime' = now
    /\ orphan' = [s \in Schedule |-> IF IsStale(s) THEN NoOrphan ELSE orphan[s]]
    /\ \E c \in ClaimSets(now) :
        /\ c # {}
        /\ batch' = c
        /\ snap' = [s \in Schedule |-> IF s \in c THEN row[s] ELSE NoRow]
    /\ pc' = "batch"
    /\ UNCHANGED <<now, row, current, outcome, outbox, calls, ended, crashes>>

\* A run an earlier daemon started is still at work: the schedule is passed over.
hasActiveScheduleRun(s) == orphan[s].status = "active"

SkipActive(s) ==
    /\ pc = "batch"
    /\ s \in batch
    /\ hasActiveScheduleRun(s)
    /\ batch' = batch \ {s}
    /\ UNCHANGED <<now, row, pc, refTime, snap, current, outcome,
                   orphan, outbox, calls, ended, crashes>>

\* RunDue returns, or the daemon goes down in the middle of it.
ForgetBatch ==
    /\ pc' = "idle"
    /\ refTime' = 0
    /\ batch' = {}
    /\ snap' = [s \in Schedule |-> NoRow]
    /\ current' = NoSchedule
    /\ outcome' = "none"

EndBatch ==
    /\ pc = "batch"
    /\ batch = {}
    /\ ForgetBatch
    /\ UNCHANGED <<now, row, orphan, outbox, calls, ended, crashes>>

\* Mutant: an approved call is only marked run when its run is over.
BeginUnspent(s) ==
    /\ pc = "batch"
    /\ s \in batch
    /\ ~hasActiveScheduleRun(s)
    /\ batch' = batch \ {s}
    /\ current' = s
    /\ pc' = IF s \in Deliverable THEN "starting" ELSE "failing"
    /\ outcome' = IF s \in Deliverable THEN "none" ELSE "undeliverable"
    /\ UNCHANGED <<now, row, refTime, snap, orphan, outbox, calls, ended, crashes>>

\* runSchedule up to executeSchedule.  A schedule that carries an approved call
\* is marked run here, before anything runs.
BeginSchedule(s) ==
    /\ pc = "batch"
    /\ s \in batch
    /\ ~hasActiveScheduleRun(s)
    /\ batch' = batch \ {s}
    /\ current' = s
    /\ IF s \notin Deliverable
       THEN /\ pc' = "failing"
            /\ outcome' = "undeliverable"
            /\ row' = row
       ELSE /\ pc' = "starting"
            /\ outcome' = "none"
            /\ row' = IF s \in ApprovedCall
                      THEN [row EXCEPT ![s] =
                              MarkedSucceeded(@, AdvanceSchedule(s, snap[s], refTime),
                                              snap[s].completedRunCount + 1)]
                      ELSE row
    /\ UNCHANGED <<now, refTime, snap, orphan, outbox, calls, ended, crashes>>

\* The statement that marks an approved call run fails: nothing has started.
SpendFails(s) ==
    /\ pc = "batch"
    /\ s \in batch \cap Deliverable \cap ApprovedCall
    /\ ~hasActiveScheduleRun(s)
    /\ batch' = batch \ {s}
    /\ current' = s
    /\ pc' = "failing"
    /\ outcome' = "noReply"
    /\ UNCHANGED <<now, row, refTime, snap, orphan, outbox, calls, ended, crashes>>

\* executeSchedule, when the window is over: a failed run records why, and its
\* notice, if the model words one, is delivered like a result.
ReportOutlivedStartWindow ==
    /\ pc = "starting"
    /\ HasOutlivedItsStartWindow(snap[current], refTime)
    /\ pc' = "settling"
    /\ outcome' \in {"missedReport", "noReply"}
    /\ UNCHANGED <<now, row, refTime, batch, snap, current, orphan,
                   outbox, calls, ended, crashes>>

\* executeMessageSchedule opens, advances and completes its run without a model.
ExecuteMessageSchedule ==
    /\ pc = "starting"
    /\ ~HasOutlivedItsStartWindow(snap[current], refTime)
    /\ current \in MessageMode
    /\ pc' = "settling"
    /\ outcome' = "result"
    /\ UNCHANGED <<now, row, refTime, batch, snap, current, orphan,
                   outbox, calls, ended, crashes>>

\* executeAgentSchedule: the launcher opens a task run.
StartAgentRun ==
    /\ pc = "starting"
    /\ ~HasOutlivedItsStartWindow(snap[current], refTime)
    /\ current \notin MessageMode
    /\ pc' = "running"
    /\ UNCHANGED <<now, row, refTime, batch, snap, current, outcome,
                   orphan, outbox, calls, ended, crashes>>

\* carryOutApprovedCallLaunchStep invokes the call once per launch, before the
\* model takes a step.
CarryOutApprovedCall ==
    /\ pc = "running"
    /\ current \in ApprovedCall
    /\ outcome = "none"
    /\ calls' = [calls EXCEPT ![current] = @ + 1]
    /\ outcome' = "result"
    /\ UNCHANGED <<now, row, pc, refTime, batch, snap, current, orphan,
                   outbox, ended, crashes>>

\* The run returns: completed with a reply, failed in a launch step or in the
\* turn with or without a notice, or waiting for an interaction nobody will
\* answer, which the poller fails.
FinishAgentRun ==
    /\ pc = "running"
    /\ \/ /\ current \notin ApprovedCall \/ outcome = "result"
          /\ outcome' = "result"
          /\ pc' = "settling"
       \/ /\ outcome' \in {"failed", "interaction", "noReply"}
          /\ pc' = "failing"
    /\ UNCHANGED <<now, row, refTime, batch, snap, current, orphan,
                   outbox, calls, ended, crashes>>

\* runSchedule is over and RunDue's loop turns to the next schedule.
LeaveSchedule ==
    /\ pc' = "batch"
    /\ current' = NoSchedule
    /\ outcome' = "none"

\* MarkScheduleSucceededAndEnqueueDelivery: one transaction.  A report without a
\* notice has nothing to enqueue and only marks the schedule.
SettleSchedule ==
    /\ pc = "settling"
    /\ row' = [row EXCEPT ![current] =
                MarkedSucceeded(@, AdvanceSchedule(current, snap[current], refTime),
                                snap[current].completedRunCount + 1)]
    /\ outbox' = IF outcome = "noReply" THEN outbox ELSE outbox \cup {Occurrence(current)}
    /\ LeaveSchedule
    /\ UNCHANGED <<now, refTime, batch, snap, orphan, calls,
                   ended, crashes>>

\* The transaction fails and is rolled back.
SettlementFails ==
    /\ pc = "settling"
    /\ pc' = "failing"
    /\ outcome' = "noReply"
    /\ UNCHANGED <<now, row, refTime, batch, snap, current, orphan,
                   outbox, calls, ended, crashes>>

scheduleFailureIsTerminal ==
    \/ snap[current].failureCount + 1 >= MaxFailureCount
    \/ outcome \in {"interaction", "undeliverable"}

\* recordScheduleFailure.  Only a run that failed has a notice to send, and it
\* is sent only when the schedule is given up on.
RecordScheduleFailure ==
    /\ pc = "failing"
    /\ IF scheduleFailureIsTerminal
       THEN /\ row' = [row EXCEPT ![current] = Expired(@)]
            /\ outbox' = IF outcome = "failed" THEN outbox \cup {Notice(current)} ELSE outbox
            /\ ended' = ended \cup {current}
       ELSE /\ row' = [row EXCEPT ![current] = MarkedFailed(@, snap[current])]
            /\ UNCHANGED <<outbox, ended>>
    /\ LeaveSchedule
    /\ UNCHANGED <<now, refTime, batch, snap, orphan, calls, crashes>>

\* The error of that last statement is dropped; the notice is already enqueued.
FailureNotRecorded ==
    /\ pc = "failing"
    /\ outbox' = IF scheduleFailureIsTerminal /\ outcome = "failed"
                 THEN outbox \cup {Notice(current)} ELSE outbox
    /\ LeaveSchedule
    /\ UNCHANGED <<now, row, refTime, batch, snap, orphan, calls,
                   ended, crashes>>

----------------------------------------------------------------------------
(* The daemon stops at any point; the database keeps what was committed.   *)
(* A run that was active is interrupted when the daemon boots, and the     *)
(* auto-resume either continues it or fails it, without the scheduled      *)
(* call: the launch request it builds carries none.                        *)

Crash ==
    /\ crashes < MaxCrashes
    /\ crashes' = crashes + 1
    /\ orphan' = [s \in Schedule |->
                    IF (pc = "running" /\ current = s) \/ orphan[s].status = "active"
                    THEN [status |-> "interrupted", since |-> 0]
                    ELSE orphan[s]]
    /\ ForgetBatch
    /\ UNCHANGED <<now, row, outbox, calls, ended>>

ResumeInterruptedRun(s) ==
    /\ orphan[s].status = "interrupted"
    /\ orphan' = [orphan EXCEPT ![s] = [status |-> "active", since |-> now]]
    /\ UNCHANGED <<now, row, pollerVars, outbox, calls, ended, crashes>>

\* A resumed run ends, or a run that was not resumed is failed.
OrphanEnds(s) ==
    /\ orphan[s].status # "none"
    /\ orphan' = [orphan EXCEPT ![s] = NoOrphan]
    /\ UNCHANGED <<now, row, pollerVars, outbox, calls, ended, crashes>>

----------------------------------------------------------------------------
PollerStep ==
    \/ RunDue
    \/ EndBatch
    \/ ReportOutlivedStartWindow
    \/ ExecuteMessageSchedule
    \/ StartAgentRun
    \/ CarryOutApprovedCall
    \/ FinishAgentRun
    \/ SettleSchedule
    \/ SettlementFails
    \/ RecordScheduleFailure
    \/ FailureNotRecorded
    \/ \E s \in Schedule : SkipActive(s) \/ BeginSchedule(s) \/ SpendFails(s)

Next ==
    \/ Tick
    \/ PollerStep
    \/ Crash
    \/ \E s \in Schedule :
        \/ CreateSchedule(s)
        \/ UpdateSchedule(s)
        \/ CancelSchedule(s)
        \/ DeleteSchedule(s)
        \/ ResumeInterruptedRun(s)
        \/ OrphanEnds(s)

Spec == Init /\ [][Next]_vars

----------------------------------------------------------------------------
(* Properties. *)

\* Every variable keeps its shape.
TypeOK ==
    /\ now \in Time
    /\ row \in [Schedule -> Row]
    /\ pc \in Phases
    /\ refTime \in Time
    /\ batch \subseteq Schedule
    /\ snap \in [Schedule -> Row]
    /\ current \in Schedule \cup {NoSchedule}
    /\ outcome \in Outcomes
    /\ orphan \in [Schedule -> Orphans]
    /\ outbox \subseteq Deliveries
    /\ calls \in [Schedule -> Nat]
    /\ ended \subseteq Schedule
    /\ crashes \in Nat

\* One approval carries out one call: however the daemon is stopped, the run
\* retried or the table edited, the poller marks an approved call run before it
\* starts it, so it is never carried out a second time.
ApprovedCallCarriedOutAtMostOnce == \A s \in ApprovedCall : calls[s] <= 1

\* A schedule somebody cancelled or deleted, or that the poller gave up on, is
\* never due again: the run that was in flight writes next_run_at back over the
\* cancelled row, but the expiry that the cancellation set stays.
EndedSchedulesStayEnded ==
    \A s \in ended : row[s].status = "deleted" \/ scheduleExpired(row[s], now)

\* An occurrence whose result or report has been put in the outbox is not run
\* again: its mark and its delivery are committed together, so neither a retry
\* nor a restart finds the occurrence due.
ToldOccurrenceNeverRunsAgain ==
    pc \in {"starting", "running"} => Occurrence(current) \notin outbox

\* A schedule with a run limit delivers no more occurrences than the limit,
\* although the count it is checked against is the claimed copy's.
RunLimitHolds ==
    \A s \in Schedule :
        MaxRunCount[s] > 0 =>
            Cardinality({d \in outbox : d.schedule = s /\ d.kind = "occurrence"})
                <= MaxRunCount[s]

\* A run happens within the start window of its time or not at all.  The window
\* is measured when the batch is claimed, and the schedules ahead in the batch
\* may run for any length of time before this one starts.
RunsStartInsideTheirWindow ==
    [][StartAgentRun => now - snap[current].nextRunAt <= StartWindow]_vars

\* Cancelling the schedule of an approved call cancels the call.  The poller
\* works from the copy it claimed, so a call that was cancelled while it waited
\* for its turn in the batch is carried out all the same.
CancelledCallIsNotCarriedOut ==
    [][CarryOutApprovedCall => ~scheduleExpired(row[current], now)]_vars

\* When a run failed, no other run of its schedule is to come and the model
\* worded a notice, the requester is sent one.  recordScheduleFailure sends it
\* only when it gives up on the schedule, which a spent call never reaches.
RequesterHearsOfAFailedRun ==
    [][(RecordScheduleFailure /\ outcome = "failed" /\ row'[current].nextRunAt = NoTime)
        => \E d \in outbox' : d.schedule = current]_vars
=============================================================================

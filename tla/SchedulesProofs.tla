-------------------------- MODULE SchedulesProofs --------------------------
(***************************************************************************)
(* Proofs about Schedules, for any number of schedules, any clock and any  *)
(* number of restarts.                                                     *)
(*                                                                         *)
(* That an approved call is carried out at most once is not inductive: the *)
(* right to run it is handed from the table to the claimed batch, and from *)
(* there to the run.  IInv says that at most one of them holds it, and     *)
(* that it is gone once the call has been carried out.                     *)
(***************************************************************************)
EXTENDS Schedules, TLAPS

\* A run of s is under way: the poller has passed the point where it marks an
\* approved call run.
InFlight(s) == current = s /\ pc \in {"starting", "running", "settling"}

\* The poller has a current schedule exactly while it works on one.
PollerInv ==
    /\ pc \in {"idle", "batch"} <=> current = NoSchedule
    /\ pc = "starting" => outcome = "none"
    /\ refTime <= now

\* A row that does not exist yet is nobody's business, and only an open row has
\* a run ahead of it.
RowInv ==
    \A s \in Schedule :
        /\ row[s].status # "open" => row[s].nextRunAt = NoTime
        /\ row[s].status = "absent" =>
            s \notin batch /\ s \notin ended /\ current # s /\ calls[s] = 0

\* The right to carry out a call is in the row, in the batch or in the run.
CallInv ==
    \A s \in ApprovedCall :
        /\ row[s].kind = "once"
        /\ snap[s].kind = "once"
        /\ calls[s] <= 1
        /\ row[s].nextRunAt # NoTime => calls[s] = 0 /\ ~InFlight(s)
        /\ s \in batch => calls[s] = 0 /\ current # s
        /\ InFlight(s) /\ outcome = "none" => calls[s] = 0

IInv == TypeOK /\ PollerInv /\ RowInv /\ CallInv /\ EndedSchedulesStayEnded

----------------------------------------------------------------------------
\* The next run of a schedule, as AdvanceSchedule computes it, is a time or none.
LEMMA AdvanceType ==
    ASSUME NEW s \in Schedule, NEW r \in Row, NEW t \in Time
    PROVE  AdvanceSchedule(s, r, t) \in MaybeTime
<1>1. Period[s] \in Nat /\ Period[s] > 0
  BY ConstantsAssumption
<1>2. t \div Period[s] \in Nat
  BY <1>1, SMT DEF Time
<1>3. t + Period[s] \in Nat /\ Period[s] * ((t \div Period[s]) + 1) \in Nat
  BY <1>1, <1>2, SMT DEF Time
<1>4. r.kind \in Kinds
  BY DEF Row
<1> QED
  BY <1>3, <1>4 DEF AdvanceSchedule, calculateNextRunAt, MaybeTime, Time, Kinds

\* A once schedule that has run has no other run: calculateOneTimeNextRunAt.
LEMMA OnceRunsOnce ==
    ASSUME NEW s \in Schedule, NEW r \in Row, NEW t, r.kind = "once"
    PROVE  AdvanceSchedule(s, r, t) = NoTime
BY DEF AdvanceSchedule, calculateNextRunAt

\* MarkScheduleSucceeded writes next_run_at and leaves the kind and the expiry.
LEMMA MarkedSucceededRow ==
    ASSUME NEW r \in Row, NEW next \in MaybeTime, NEW n \in Nat, now \in Time
    PROVE  LET m == MarkedSucceeded(r, next, n)
           IN  /\ m \in Row
               /\ m.status = r.status
               /\ m.kind = r.kind
               /\ m.expiresAt = r.expiresAt
               /\ m.nextRunAt = IF r.status = "open" THEN next ELSE r.nextRunAt
BY DEF MarkedSucceeded, Row

\* MarkScheduleFailed leaves next_run_at where it was.
LEMMA MarkedFailedRow ==
    ASSUME NEW r \in Row, NEW c \in Row, refTime \in Time
    PROVE  LET m == MarkedFailed(r, c)
           IN  /\ m \in Row
               /\ m.status = r.status
               /\ m.kind = r.kind
               /\ m.expiresAt = r.expiresAt
               /\ m.nextRunAt = r.nextRunAt
<1>1. scheduleRetryDelay(c.failureCount + 1) \in Nat
  <2>1. c.failureCount + 1 \in Nat
    BY DEF Row
  <2> DEFINE p == (c.failureCount + 1) * RetryUnit
  <2>2. p \in Nat
    BY <2>1, ConstantsAssumption, SMT
  <2>3. scheduleRetryDelay(c.failureCount + 1) = IF p > RetryCap THEN RetryCap ELSE p
    BY Zenon DEF scheduleRetryDelay
  <2>4. RetryCap \in Nat
    BY ConstantsAssumption
  <2> HIDE DEF p
  <2> QED
    BY <2>2, <2>3, <2>4
<1> DEFINE d == scheduleRetryDelay(c.failureCount + 1)
<1>2. refTime + d \in Time
  BY <1>1, SMT DEF Time
<1> HIDE DEF d
<1>3. MarkedFailed(r, c) = IF r.status # "open" THEN r
        ELSE [r EXCEPT !.failureCount = @ + 1, !.nextAttemptAt = refTime + d]
  BY DEF MarkedFailed, d
<1>4. r.failureCount + 1 \in Nat
  BY DEF Row
<1>5. CASE r.status # "open"
  BY <1>3, <1>5
<1>6. CASE r.status = "open"
  <2>1. MarkedFailed(r, c) = [r EXCEPT !.failureCount = r.failureCount + 1,
                                       !.nextAttemptAt = refTime + d]
    BY <1>3, <1>6
  <2> QED
    BY <1>2, <1>4, <2>1 DEF Row
<1> QED
  BY <1>5, <1>6

\* ExpireSchedule leaves an open row expired and without a next run.
LEMMA ExpiredRow ==
    ASSUME NEW r \in Row, refTime \in Time
    PROVE  LET m == Expired(r)
           IN  /\ m \in Row
               /\ m.status = r.status
               /\ m.kind = r.kind
               /\ r.status = "open" => m.expiresAt = refTime /\ m.nextRunAt = NoTime
               /\ r.status # "open" => m = r
<1>1. r.failureCount + 1 \in Nat
  BY DEF Row
<1>2. refTime \in MaybeTime /\ NoTime \in MaybeTime
  BY DEF MaybeTime
<1>3. CASE r.status # "open"
  BY <1>3 DEF Expired
<1>4. CASE r.status = "open"
  <2>1. Expired(r) = [r EXCEPT !.expiresAt = refTime, !.nextRunAt = NoTime,
                               !.failureCount = r.failureCount + 1,
                               !.nextAttemptAt = refTime]
    BY <1>4 DEF Expired
  <2> QED
    BY <1>1, <1>2, <1>4, <2>1 DEF Row
<1> QED
  BY <1>3, <1>4

\* A row that is not there, as the model writes it.
LEMMA NoRowType ==
    /\ NoRow \in Row
    /\ NoRow.status = "absent"
    /\ NoRow.kind = "once"
    /\ NoRow.nextRunAt = NoTime
    /\ NoRow.expiresAt = NoTime
BY DEF NoRow, Row, Kinds, MaybeTime, NoTime, Time

\* What a writer puts into a row has the types of a row.
LEMMA WrittenValues ==
    ASSUME TypeOK, NEW s \in Schedule
    PROVE  /\ AllowedKinds[s] \subseteq Kinds
           /\ \A d \in Delays : now + d \in MaybeTime
           /\ Expiries \subseteq MaybeTime
           /\ now \in Time
<1>1. now \in Nat
  BY DEF TypeOK, Time
<1>2. AllowedKinds[s] \subseteq Kinds
  BY ConstantsAssumption
<1>3. \A d \in Delays : now + d \in MaybeTime
  BY <1>1, ConstantsAssumption DEF MaybeTime, Time
<1>4. Expiries \subseteq MaybeTime
  BY <1>1, ConstantsAssumption DEF Expiries, MaybeTime, Time
<1> QED
  BY <1>1, <1>2, <1>3, <1>4 DEF Time

\* A row that is edited is a row.
LEMMA EditedRow ==
    ASSUME NEW r \in Row, NEW kind \in Kinds, NEW next \in MaybeTime,
           NEW attempt \in Time, NEW until \in MaybeTime
    PROVE  [r EXCEPT !.kind = kind, !.nextRunAt = next, !.nextAttemptAt = attempt,
                     !.expiresAt = until] \in Row
BY DEF Row

\* A schedule without a run left behind.
LEMMA NoOrphanType == NoOrphan \in Orphans
BY DEF NoOrphan, Orphans, Time

\* A scheduled delivery is keyed by the schedule and the claimed occurrence.
LEMMA DeliveryType ==
    ASSUME TypeOK, NEW s \in Schedule
    PROVE  Occurrence(s) \in Deliveries /\ Notice(s) \in Deliveries
BY DEF TypeOK, Row, Occurrence, Notice, Deliveries

----------------------------------------------------------------------------
(* The inductive invariant holds at the start and every step keeps it. *)

\* The empty table with an idle poller satisfies the invariant.
LEMMA InitIInv == Init => IInv
BY ConstantsAssumption, ApprovedCallsRunOnce
   DEF Init, IInv, TypeOK, PollerInv, RowInv, CallInv, InFlight, EndedSchedulesStayEnded,
      NoRow, Row,
       NoOrphan, Orphans, Phases, Outcomes, Deliveries, Kinds, Time, MaybeTime, NoTime

\* The clock moving on un-expires nothing.
LEMMA TickStep ==
    ASSUME IInv, Tick
    PROVE  IInv'
<1> USE DEF IInv
<1>1. TypeOK'
  BY DEF Tick, pollerVars, TypeOK, Phases, Outcomes, Time
<1>2. PollerInv'
  BY ConstantsAssumption DEF Tick, pollerVars, TypeOK, PollerInv, Time
<1>3. RowInv'
  BY ConstantsAssumption DEF Tick, pollerVars, RowInv
<1>4. CallInv'
  BY ConstantsAssumption DEF Tick, pollerVars, CallInv, InFlight
<1>5. EndedSchedulesStayEnded'
  BY DEF Tick, TypeOK, Row, MaybeTime, NoTime, Time, EndedSchedulesStayEnded,
         scheduleExpired
<1> QED
  BY <1>1, <1>2, <1>3, <1>4, <1>5

\* ClaimDueSchedules takes only open rows with a run ahead, so the right to carry
\* out a claimed call was still in its row.
LEMMA RunDueStep ==
    ASSUME IInv, RunDue
    PROVE  IInv'
<1> USE DEF IInv
<1>1. PICK c \in ClaimSets(now) :
        /\ batch' = c
        /\ snap' = [s \in Schedule |-> IF s \in c THEN row[s] ELSE NoRow]
  BY DEF RunDue
<1>2. c \subseteq Schedule /\ \A s \in c : Claimable(row[s], now)
  BY DEF ClaimSets, Due
<1>3. current = NoSchedule /\ pc' = "batch"
  BY DEF RunDue, PollerInv
<1>4. TypeOK'
  <2>1. snap' \in [Schedule -> Row]
    BY <1>1, NoRowType DEF TypeOK
  <2>2. orphan' \in [Schedule -> Orphans]
    BY NoOrphanType DEF RunDue, TypeOK
  <2> QED
    BY <1>1, <1>2, <2>1, <2>2 DEF RunDue, TypeOK, Phases
<1>5. PollerInv'
  BY <1>3 DEF RunDue, TypeOK, PollerInv, Time
<1>6. RowInv'
  BY <1>1, <1>2 DEF RunDue, RowInv, Claimable
<1>7. CallInv'
  <2> SUFFICES ASSUME NEW s \in ApprovedCall
               PROVE  CallInv!(s)'
    BY DEF CallInv
  <2>1. s \in Schedule /\ current # s
    BY <1>3, ConstantsAssumption
  <2>2. snap'[s].kind = "once"
    BY <1>1, <2>1, NoRowType DEF CallInv
  <2>3. ~InFlight(s)'
    BY <1>3 DEF InFlight
  <2>4. s \in batch' => calls[s] = 0
    BY <1>1, <1>2 DEF Claimable, CallInv
  <2> QED
    BY <1>3, <2>1, <2>2, <2>3, <2>4 DEF RunDue, CallInv
<1>8. EndedSchedulesStayEnded'
  BY DEF RunDue, EndedSchedulesStayEnded, scheduleExpired
<1> QED
  BY <1>4, <1>5, <1>6, <1>7, <1>8

\* RunDue returns with nothing left to run.
LEMMA EndBatchStep ==
    ASSUME IInv, EndBatch
    PROVE  IInv'
<1> USE DEF IInv
<1>1. TypeOK'
  BY NoRowType DEF EndBatch, ForgetBatch, TypeOK, Phases, Outcomes, Time
<1>2. PollerInv'
  BY DEF EndBatch, ForgetBatch, TypeOK, PollerInv, Time
<1>3. RowInv'
  BY ConstantsAssumption DEF EndBatch, ForgetBatch, RowInv
<1>4. CallInv'
  BY ConstantsAssumption, NoRowType DEF EndBatch, ForgetBatch, CallInv, InFlight
<1>5. EndedSchedulesStayEnded'
  BY DEF EndBatch, ForgetBatch, EndedSchedulesStayEnded, scheduleExpired
<1> QED
  BY <1>1, <1>2, <1>3, <1>4, <1>5

\* Reporting a missed window carries out no call.
LEMMA ReportOutlivedStartWindowStep ==
    ASSUME IInv, ReportOutlivedStartWindow
    PROVE  IInv'
<1> USE DEF IInv
<1>1. TypeOK'
  BY DEF ReportOutlivedStartWindow, TypeOK, Phases, Outcomes, Time
<1>2. PollerInv'
  BY ConstantsAssumption DEF ReportOutlivedStartWindow, PollerInv
<1>3. RowInv'
  BY ConstantsAssumption DEF ReportOutlivedStartWindow, RowInv
<1>4. CallInv'
  BY ConstantsAssumption DEF ReportOutlivedStartWindow, CallInv, InFlight
<1>5. EndedSchedulesStayEnded'
  BY DEF ReportOutlivedStartWindow, EndedSchedulesStayEnded, scheduleExpired
<1> QED
  BY <1>1, <1>2, <1>3, <1>4, <1>5

\* A message schedule carries no approved call.
LEMMA ExecuteMessageScheduleStep ==
    ASSUME IInv, ExecuteMessageSchedule
    PROVE  IInv'
<1> USE DEF IInv
<1>1. TypeOK'
  BY DEF ExecuteMessageSchedule, TypeOK, Phases, Outcomes, Time
<1>2. PollerInv'
  BY ConstantsAssumption DEF ExecuteMessageSchedule, PollerInv
<1>3. RowInv'
  BY ConstantsAssumption DEF ExecuteMessageSchedule, RowInv
<1>4. CallInv'
  BY ConstantsAssumption DEF ExecuteMessageSchedule, CallInv, InFlight
<1>5. EndedSchedulesStayEnded'
  BY DEF ExecuteMessageSchedule, EndedSchedulesStayEnded, scheduleExpired
<1> QED
  BY <1>1, <1>2, <1>3, <1>4, <1>5

\* A run starts with its call not yet carried out.
LEMMA StartAgentRunStep ==
    ASSUME IInv, StartAgentRun
    PROVE  IInv'
<1> USE DEF IInv
<1>1. TypeOK'
  BY DEF StartAgentRun, TypeOK, Phases, Outcomes, Time
<1>2. PollerInv'
  BY ConstantsAssumption DEF StartAgentRun, PollerInv
<1>3. RowInv'
  BY ConstantsAssumption DEF StartAgentRun, RowInv
<1>4. CallInv'
  BY ConstantsAssumption DEF StartAgentRun, CallInv, InFlight
<1>5. EndedSchedulesStayEnded'
  BY DEF StartAgentRun, EndedSchedulesStayEnded, scheduleExpired
<1> QED
  BY <1>1, <1>2, <1>3, <1>4, <1>5

\* The run uses up the right: its call is carried out and the row has no run ahead.
LEMMA CarryOutApprovedCallStep ==
    ASSUME IInv, CarryOutApprovedCall
    PROVE  IInv'
<1> USE DEF IInv
<1>1. TypeOK'
  BY ConstantsAssumption DEF CarryOutApprovedCall, TypeOK, Outcomes
<1>2. PollerInv'
  BY ConstantsAssumption DEF CarryOutApprovedCall, PollerInv
<1>3. RowInv'
  BY ConstantsAssumption DEF CarryOutApprovedCall, RowInv
<1>4. CallInv'
  BY ConstantsAssumption DEF CarryOutApprovedCall, CallInv, InFlight
<1>5. EndedSchedulesStayEnded'
  BY DEF CarryOutApprovedCall, EndedSchedulesStayEnded, scheduleExpired
<1> QED
  BY <1>1, <1>2, <1>3, <1>4, <1>5

\* The end of a run leaves the table alone.
LEMMA FinishAgentRunStep ==
    ASSUME IInv, FinishAgentRun
    PROVE  IInv'
<1> USE DEF IInv
<1>1. TypeOK'
  BY DEF FinishAgentRun, TypeOK, Phases, Outcomes, Time
<1>2. PollerInv'
  BY ConstantsAssumption DEF FinishAgentRun, PollerInv
<1>3. RowInv'
  BY ConstantsAssumption DEF FinishAgentRun, RowInv
<1>4. CallInv'
  BY ConstantsAssumption DEF FinishAgentRun, CallInv, InFlight
<1>5. EndedSchedulesStayEnded'
  BY DEF FinishAgentRun, EndedSchedulesStayEnded, scheduleExpired
<1> QED
  BY <1>1, <1>2, <1>3, <1>4, <1>5

\* MarkScheduleSucceededAndEnqueueDelivery gives no run back to a once schedule.
LEMMA SettleScheduleStep ==
    ASSUME IInv, SettleSchedule
    PROVE  IInv'
<1> USE DEF IInv
<1> DEFINE m == MarkedSucceeded(row[current], AdvanceSchedule(current, snap[current], refTime),
                                snap[current].completedRunCount + 1)
<1>1. current \in Schedule
  BY DEF SettleSchedule, TypeOK, PollerInv
<1>2. row[current] \in Row /\ snap[current] \in Row
  BY <1>1 DEF TypeOK
<1>3. AdvanceSchedule(current, snap[current], refTime) \in MaybeTime
  BY <1>1, <1>2, AdvanceType DEF TypeOK
<1>4. snap[current].completedRunCount + 1 \in Nat
  BY <1>2 DEF Row
<1>5. /\ m \in Row
      /\ m.status = row[current].status
      /\ m.kind = row[current].kind
      /\ m.expiresAt = row[current].expiresAt
      /\ m.nextRunAt = IF row[current].status = "open"
                       THEN AdvanceSchedule(current, snap[current], refTime)
                       ELSE row[current].nextRunAt
  BY <1>2, <1>3, <1>4, MarkedSucceededRow DEF TypeOK
<1>6. row' = [row EXCEPT ![current] = m]
  BY DEF SettleSchedule
<1>7. current \in ApprovedCall => m.nextRunAt = NoTime
  BY <1>1, <1>2, <1>5, OnceRunsOnce DEF CallInv, RowInv
<1> HIDE DEF m
<1>8. TypeOK'
  <2>1. outbox' \subseteq Deliveries
    BY <1>1, DeliveryType DEF SettleSchedule, TypeOK
  <2> QED
    BY <1>5, <1>6, <2>1 DEF SettleSchedule, LeaveSchedule, TypeOK, Phases, Outcomes
<1>9. PollerInv'
  BY DEF SettleSchedule, LeaveSchedule, PollerInv
<1>10. RowInv'
  BY <1>1, <1>5, <1>6, ConstantsAssumption
     DEF SettleSchedule, LeaveSchedule, TypeOK, RowInv
<1>11. CallInv'
  BY <1>1, <1>5, <1>6, <1>7, ConstantsAssumption
     DEF SettleSchedule, LeaveSchedule, TypeOK, CallInv, InFlight
<1>12. EndedSchedulesStayEnded'
  BY <1>1, <1>5, <1>6 DEF SettleSchedule, TypeOK, EndedSchedulesStayEnded, scheduleExpired
<1> QED
  BY <1>8, <1>9, <1>10, <1>11, <1>12

\* A rolled back settlement leaves the table alone.
LEMMA SettlementFailsStep ==
    ASSUME IInv, SettlementFails
    PROVE  IInv'
<1> USE DEF IInv
<1>1. TypeOK'
  BY DEF SettlementFails, TypeOK, Phases, Outcomes, Time
<1>2. PollerInv'
  BY ConstantsAssumption DEF SettlementFails, PollerInv
<1>3. RowInv'
  BY ConstantsAssumption DEF SettlementFails, RowInv
<1>4. CallInv'
  BY ConstantsAssumption DEF SettlementFails, CallInv, InFlight
<1>5. EndedSchedulesStayEnded'
  BY DEF SettlementFails, EndedSchedulesStayEnded, scheduleExpired
<1> QED
  BY <1>1, <1>2, <1>3, <1>4, <1>5

\* Recording a failure moves no run ahead and expires what it gives up on.
LEMMA RecordScheduleFailureStep ==
    ASSUME IInv, RecordScheduleFailure
    PROVE  IInv'
<1> USE DEF IInv
<1>1. current \in Schedule /\ row[current] \in Row /\ snap[current] \in Row
  BY DEF RecordScheduleFailure, TypeOK, PollerInv
<1>2. row[current].status # "absent"
  BY <1>1 DEF RowInv
<1>3. PICK m \in Row :
        /\ row' = [row EXCEPT ![current] = m]
        /\ m.status = row[current].status
        /\ m.kind = row[current].kind
        /\ m.nextRunAt = row[current].nextRunAt \/ m.nextRunAt = NoTime
        /\ \/ m.expiresAt = row[current].expiresAt /\ ended' = ended
           \/ m.expiresAt = refTime /\ ended' = ended \cup {current}
           \/ row[current].status = "deleted" /\ ended' = ended \cup {current}
  <2>1. CASE scheduleFailureIsTerminal
    <3>1. /\ row' = [row EXCEPT ![current] = Expired(row[current])]
          /\ ended' = ended \cup {current}
      BY <2>1 DEF RecordScheduleFailure
    <3>2. row[current].status = "open" \/ row[current].status = "deleted"
      BY <1>1, <1>2 DEF Row
    <3> DEFINE e == Expired(row[current])
    <3>3. /\ e \in Row
          /\ e.status = row[current].status
          /\ e.kind = row[current].kind
          /\ row[current].status = "open" => e.expiresAt = refTime /\ e.nextRunAt = NoTime
          /\ row[current].status # "open" => e = row[current]
      BY <1>1, ExpiredRow DEF TypeOK
    <3> HIDE DEF e
    <3>4. row' = [row EXCEPT ![current] = e]
      BY <3>1 DEF e
    <3> QED
      BY <3>1, <3>2, <3>3, <3>4
  <2>2. CASE ~scheduleFailureIsTerminal
    <3> DEFINE e == MarkedFailed(row[current], snap[current])
    <3>1. row' = [row EXCEPT ![current] = e] /\ ended' = ended
      BY <2>2 DEF RecordScheduleFailure
    <3>2. /\ e \in Row
          /\ e.status = row[current].status
          /\ e.kind = row[current].kind
          /\ e.expiresAt = row[current].expiresAt
          /\ e.nextRunAt = row[current].nextRunAt
      BY <1>1, MarkedFailedRow DEF TypeOK
    <3> HIDE DEF e
    <3> QED
      BY <3>1, <3>2
  <2> QED
    BY <2>1, <2>2
<1>4. /\ pc' = "batch"
      /\ current' = NoSchedule
      /\ outcome' = "none"
      /\ UNCHANGED <<now, refTime, batch, snap, orphan, calls, crashes>>
  BY DEF RecordScheduleFailure, LeaveSchedule
<1>5. TypeOK'
  <2>1. outbox' \subseteq Deliveries
    BY <1>1, DeliveryType DEF RecordScheduleFailure, TypeOK
  <2>2. ended' \subseteq Schedule
    BY <1>1, <1>3 DEF TypeOK
  <2> QED
    BY <1>3, <1>4, <2>1, <2>2 DEF TypeOK, Phases, Outcomes
<1>6. PollerInv'
  BY <1>4 DEF PollerInv
<1>7. RowInv'
  BY <1>1, <1>2, <1>3, <1>4, ConstantsAssumption DEF TypeOK, RowInv
<1>8. CallInv'
  BY <1>1, <1>3, <1>4, ConstantsAssumption DEF TypeOK, CallInv, InFlight
<1>9. EndedSchedulesStayEnded'
  <2>1. refTime # NoTime
    BY DEF TypeOK, Time, NoTime
  <2> QED
    BY <1>1, <1>2, <1>3, <1>4, <2>1
       DEF TypeOK, PollerInv, EndedSchedulesStayEnded, scheduleExpired
<1> QED
  BY <1>5, <1>6, <1>7, <1>8, <1>9

\* A failure that could not be recorded leaves the table alone.
LEMMA FailureNotRecordedStep ==
    ASSUME IInv, FailureNotRecorded
    PROVE  IInv'
<1> USE DEF IInv
<1>1. TypeOK'
  <2>1. current \in Schedule
    BY DEF FailureNotRecorded, TypeOK, PollerInv
  <2>2. outbox' \subseteq Deliveries
    BY <2>1, DeliveryType DEF FailureNotRecorded, TypeOK
  <2> QED
    BY <2>2 DEF FailureNotRecorded, LeaveSchedule, TypeOK, Phases, Outcomes
<1>2. PollerInv'
  BY ConstantsAssumption DEF FailureNotRecorded, LeaveSchedule, PollerInv
<1>3. RowInv'
  BY ConstantsAssumption DEF FailureNotRecorded, LeaveSchedule, RowInv
<1>4. CallInv'
  BY ConstantsAssumption DEF FailureNotRecorded, LeaveSchedule, CallInv, InFlight
<1>5. EndedSchedulesStayEnded'
  BY DEF FailureNotRecorded, LeaveSchedule, EndedSchedulesStayEnded, scheduleExpired
<1> QED
  BY <1>1, <1>2, <1>3, <1>4, <1>5

\* Passing over a schedule drops its copy and nothing else.
LEMMA SkipActiveStep ==
    ASSUME IInv, NEW s \in Schedule, SkipActive(s)
    PROVE  IInv'
<1> USE DEF IInv
<1>1. TypeOK'
  BY ConstantsAssumption DEF SkipActive, TypeOK, Phases, Outcomes, Time
<1>2. PollerInv'
  BY ConstantsAssumption DEF SkipActive, PollerInv
<1>3. RowInv'
  BY ConstantsAssumption DEF SkipActive, RowInv
<1>4. CallInv'
  BY ConstantsAssumption DEF SkipActive, CallInv, InFlight
<1>5. EndedSchedulesStayEnded'
  BY ConstantsAssumption DEF SkipActive, EndedSchedulesStayEnded, scheduleExpired
<1> QED
  BY <1>1, <1>2, <1>3, <1>4, <1>5

\* spendAnApprovedCallBeforeItRuns takes the right from the batch and from the row
\* before the run can use it.
LEMMA BeginScheduleStep ==
    ASSUME IInv, NEW s \in Schedule, BeginSchedule(s)
    PROVE  IInv'
<1> USE DEF IInv
<1> DEFINE m == MarkedSucceeded(row[s], AdvanceSchedule(s, snap[s], refTime),
                                snap[s].completedRunCount + 1)
<1>1. row[s] \in Row /\ snap[s] \in Row /\ s # NoSchedule
  BY ConstantsAssumption DEF TypeOK
<1>2. AdvanceSchedule(s, snap[s], refTime) \in MaybeTime
  BY <1>1, AdvanceType DEF TypeOK
<1>3. snap[s].completedRunCount + 1 \in Nat
  BY <1>1 DEF Row
<1>4. /\ m \in Row
      /\ m.status = row[s].status
      /\ m.kind = row[s].kind
      /\ m.expiresAt = row[s].expiresAt
      /\ m.nextRunAt = IF row[s].status = "open"
                       THEN AdvanceSchedule(s, snap[s], refTime)
                       ELSE row[s].nextRunAt
  BY <1>1, <1>2, <1>3, MarkedSucceededRow DEF TypeOK
<1>5. s \in ApprovedCall => m.nextRunAt = NoTime
  BY <1>1, <1>4, OnceRunsOnce DEF CallInv, RowInv
<1>6. row[s].status # "absent" /\ current = NoSchedule
  BY DEF BeginSchedule, RowInv, PollerInv
<1>7. \/ /\ row' = row
         /\ s \in ApprovedCall => pc' = "failing"
      \/ /\ row' = [row EXCEPT ![s] = m]
         /\ s \in ApprovedCall
  BY DEF BeginSchedule
<1>8. /\ pc' = "failing" \/ (pc' = "starting" /\ outcome' = "none")
      /\ batch' = batch \ {s}
      /\ current' = s
      /\ UNCHANGED <<now, refTime, snap, orphan, outbox, calls, ended, crashes>>
  BY DEF BeginSchedule
<1> HIDE DEF m
<1>9. TypeOK'
  BY <1>4, <1>7, <1>8 DEF BeginSchedule, TypeOK, Phases, Outcomes
<1>10. PollerInv'
  BY <1>1, <1>8 DEF PollerInv
<1>11. RowInv'
  BY <1>4, <1>6, <1>7, <1>8 DEF TypeOK, RowInv
<1>12. CallInv'
  <2> SUFFICES ASSUME NEW u \in ApprovedCall
               PROVE  CallInv!(u)'
    BY DEF CallInv
  <2>1. u \in Schedule
    BY ConstantsAssumption
  <2>2. CASE u # s
    BY <1>6, <1>7, <1>8, <2>1, <2>2 DEF TypeOK, CallInv, InFlight
  <2>3. CASE u = s
    <3>1. s \in batch
      BY DEF BeginSchedule
    <3>2. calls[s] = 0
      BY <2>3, <3>1 DEF CallInv
    <3> QED
      BY <1>4, <1>5, <1>7, <1>8, <2>1, <2>3, <3>2 DEF TypeOK, CallInv, InFlight
  <2> QED
    BY <2>2, <2>3
<1>13. EndedSchedulesStayEnded'
  BY <1>4, <1>7, <1>8 DEF TypeOK, EndedSchedulesStayEnded, scheduleExpired
<1> QED
  BY <1>9, <1>10, <1>11, <1>12, <1>13

\* A call that could not be marked run does not run.
LEMMA SpendFailsStep ==
    ASSUME IInv, NEW s \in Schedule, SpendFails(s)
    PROVE  IInv'
<1> USE DEF IInv
<1>1. TypeOK'
  BY ConstantsAssumption DEF SpendFails, TypeOK, Phases, Outcomes, Time
<1>2. PollerInv'
  BY ConstantsAssumption DEF SpendFails, PollerInv
<1>3. RowInv'
  BY ConstantsAssumption DEF SpendFails, RowInv
<1>4. CallInv'
  BY ConstantsAssumption DEF SpendFails, CallInv, InFlight
<1>5. EndedSchedulesStayEnded'
  BY ConstantsAssumption DEF SpendFails, EndedSchedulesStayEnded, scheduleExpired
<1> QED
  BY <1>1, <1>2, <1>3, <1>4, <1>5

\* A restart loses the batch and the run; a call that was marked run stays marked.
LEMMA CrashStep ==
    ASSUME IInv, Crash
    PROVE  IInv'
<1> USE DEF IInv
<1>1. TypeOK'
  <2>1. orphan' \in [Schedule -> Orphans]
    BY DEF Crash, TypeOK, Orphans, Time
  <2>2. snap' \in [Schedule -> Row]
    BY NoRowType DEF Crash, ForgetBatch
  <2>3. pc' \in Phases /\ outcome' \in Outcomes /\ refTime' \in Time
    BY DEF Crash, ForgetBatch, Phases, Outcomes, Time
  <2>4. batch' \subseteq Schedule /\ current' \in Schedule \cup {NoSchedule}
    BY DEF Crash, ForgetBatch
  <2>5. crashes' \in Nat
    BY DEF Crash, TypeOK
  <2> QED
    BY <2>1, <2>2, <2>3, <2>4, <2>5 DEF Crash, TypeOK
<1>2. PollerInv'
  BY DEF Crash, ForgetBatch, TypeOK, PollerInv, Time
<1>3. RowInv'
  BY ConstantsAssumption DEF Crash, ForgetBatch, RowInv
<1>4. CallInv'
  BY ConstantsAssumption, NoRowType DEF Crash, ForgetBatch, CallInv, InFlight
<1>5. EndedSchedulesStayEnded'
  BY ConstantsAssumption DEF Crash, ForgetBatch, EndedSchedulesStayEnded, scheduleExpired
<1> QED
  BY <1>1, <1>2, <1>3, <1>4, <1>5

\* A new row is the first to hold the right to its call.
LEMMA CreateScheduleStep ==
    ASSUME IInv, NEW s \in Schedule, CreateSchedule(s)
    PROVE  IInv'
<1> USE DEF IInv
<1>1. TypeOK'
  <2>1. PICK kind \in AllowedKinds[s], d \in Delays, until \in Expiries :
          row' = [row EXCEPT ![s] =
                    [NoRow EXCEPT !.status = "open", !.kind = kind, !.nextRunAt = now + d,
                                  !.nextAttemptAt = now, !.expiresAt = until]]
    BY DEF CreateSchedule
  <2>2. kind \in Kinds /\ now + d \in MaybeTime /\ until \in MaybeTime /\ now \in Time
    BY WrittenValues
  <2>3. [NoRow EXCEPT !.status = "open", !.kind = kind, !.nextRunAt = now + d,
                      !.nextAttemptAt = now, !.expiresAt = until] \in Row
    BY <2>2, NoRowType DEF Row
  <2> QED
    BY <2>1, <2>3 DEF CreateSchedule, pollerVars, TypeOK
<1>2. PollerInv'
  BY ConstantsAssumption DEF CreateSchedule, Expiries, pollerVars, TypeOK, PollerInv
<1>3. RowInv'
  BY ConstantsAssumption DEF CreateSchedule, Expiries, pollerVars, TypeOK, RowInv, NoRow
<1>4. CallInv'
  <2>0. s \in ApprovedCall => AllowedKinds[s] = {"once"}
    BY ApprovedCallsRunOnce
  <2>1. PICK kind \in AllowedKinds[s], d \in Delays, until \in Expiries :
          row' = [row EXCEPT ![s] =
                    [NoRow EXCEPT !.status = "open", !.kind = kind, !.nextRunAt = now + d,
                                  !.nextAttemptAt = now, !.expiresAt = until]]
    BY DEF CreateSchedule
  <2>2. s \in ApprovedCall => kind = "once"
    BY <2>0
  <2>3. row'[s].kind = kind
    BY <2>1, NoRowType DEF TypeOK, Row
  <2>4. \A u \in Schedule : u # s => row'[u] = row[u]
    BY <2>1 DEF TypeOK
  <2>5. s \notin batch /\ current # s /\ calls[s] = 0
    BY DEF CreateSchedule, RowInv
  <2> QED
    BY <2>2, <2>3, <2>4, <2>5, ConstantsAssumption
       DEF CreateSchedule, pollerVars, CallInv, InFlight
<1>5. EndedSchedulesStayEnded'
  BY ConstantsAssumption DEF CreateSchedule, Expiries, pollerVars, TypeOK, RowInv,
     EndedSchedulesStayEnded, scheduleExpired, NoRow
<1> QED
  BY <1>1, <1>2, <1>3, <1>4, <1>5

\* A schedule that carries an approved call, or has ended, is not edited.
LEMMA UpdateScheduleStep ==
    ASSUME IInv, NEW s \in Schedule, UpdateSchedule(s)
    PROVE  IInv'
<1> USE DEF IInv
<1>1. TypeOK'
  <2>1. PICK kind \in AllowedKinds[s], d \in Delays, until \in Expiries :
          row' = [row EXCEPT ![s].kind = kind, ![s].nextRunAt = now + d,
                             ![s].nextAttemptAt = now, ![s].expiresAt = until]
    BY ZenonT(30) DEF UpdateSchedule
  <2>2. kind \in Kinds /\ now + d \in MaybeTime /\ until \in MaybeTime /\ now \in Time
    BY WrittenValues
  <2>3. row' = [row EXCEPT ![s] = [row[s] EXCEPT !.kind = kind, !.nextRunAt = now + d,
                                        !.nextAttemptAt = now, !.expiresAt = until]]
    BY <2>1 DEF TypeOK
  <2>4. [row[s] EXCEPT !.kind = kind, !.nextRunAt = now + d,
                       !.nextAttemptAt = now, !.expiresAt = until] \in Row
    BY <2>2, EditedRow DEF TypeOK
  <2> QED
    BY <2>3, <2>4 DEF UpdateSchedule, pollerVars, TypeOK
<1>2. PollerInv'
  BY ConstantsAssumption DEF UpdateSchedule, Expiries, pollerVars, TypeOK, PollerInv
<1>3. RowInv'
  BY ConstantsAssumption DEF UpdateSchedule, Expiries, pollerVars, TypeOK, RowInv, NoRow
<1>4. CallInv'
  BY ConstantsAssumption DEF UpdateSchedule, Expiries, pollerVars, TypeOK, RowInv, CallInv,
     InFlight, NoRow
<1>5. EndedSchedulesStayEnded'
  BY ConstantsAssumption DEF UpdateSchedule, Expiries, pollerVars, TypeOK, RowInv,
     EndedSchedulesStayEnded, scheduleExpired, NoRow
<1> QED
  BY <1>1, <1>2, <1>3, <1>4, <1>5

\* Cancelling takes the run ahead from the row and expires it.
LEMMA CancelScheduleStep ==
    ASSUME IInv, NEW s \in Schedule, CancelSchedule(s)
    PROVE  IInv'
<1> USE DEF IInv
<1>1. TypeOK'
  BY ConstantsAssumption DEF CancelSchedule, pollerVars, TypeOK, Row, NoRow, Time, MaybeTime
<1>2. PollerInv'
  BY ConstantsAssumption DEF CancelSchedule, pollerVars, TypeOK, PollerInv
<1>3. RowInv'
  BY ConstantsAssumption DEF CancelSchedule, pollerVars, TypeOK, RowInv, NoRow
<1>4. CallInv'
  BY ConstantsAssumption DEF CancelSchedule, pollerVars, TypeOK, RowInv, CallInv, InFlight,
     NoRow
<1>5. EndedSchedulesStayEnded'
  BY DEF CancelSchedule, TypeOK, Row, Time, MaybeTime, NoTime, EndedSchedulesStayEnded,
         scheduleExpired
<1> QED
  BY <1>1, <1>2, <1>3, <1>4, <1>5

\* A deleted row stays deleted.
LEMMA DeleteScheduleStep ==
    ASSUME IInv, NEW s \in Schedule, DeleteSchedule(s)
    PROVE  IInv'
<1> USE DEF IInv
<1>1. TypeOK'
  <2>1. [NoRow EXCEPT !.status = "deleted"] \in Row
    BY NoRowType DEF Row
  <2> QED
    BY <2>1 DEF DeleteSchedule, pollerVars, TypeOK
<1>2. PollerInv'
  BY ConstantsAssumption DEF DeleteSchedule, pollerVars, TypeOK, PollerInv
<1>3. RowInv'
  BY ConstantsAssumption DEF DeleteSchedule, pollerVars, TypeOK, RowInv, NoRow
<1>4. CallInv'
  BY ConstantsAssumption DEF DeleteSchedule, pollerVars, TypeOK, RowInv, CallInv, InFlight,
     NoRow
<1>5. EndedSchedulesStayEnded'
  BY ConstantsAssumption DEF DeleteSchedule, pollerVars, TypeOK, RowInv,
     EndedSchedulesStayEnded, scheduleExpired, NoRow
<1> QED
  BY <1>1, <1>2, <1>3, <1>4, <1>5

\* A resumed run carries no scheduled call.
LEMMA ResumeInterruptedRunStep ==
    ASSUME IInv, NEW s \in Schedule, ResumeInterruptedRun(s)
    PROVE  IInv'
<1> USE DEF IInv
<1>1. TypeOK'
  BY DEF ResumeInterruptedRun, pollerVars, TypeOK, Phases, Outcomes, Time, Orphans, NoOrphan
<1>2. PollerInv'
  BY ConstantsAssumption DEF ResumeInterruptedRun, pollerVars, PollerInv
<1>3. RowInv'
  BY ConstantsAssumption DEF ResumeInterruptedRun, pollerVars, RowInv
<1>4. CallInv'
  BY ConstantsAssumption DEF ResumeInterruptedRun, pollerVars, CallInv, InFlight
<1>5. EndedSchedulesStayEnded'
  BY DEF ResumeInterruptedRun, pollerVars, EndedSchedulesStayEnded, scheduleExpired
<1> QED
  BY <1>1, <1>2, <1>3, <1>4, <1>5

\* The end of a resumed run leaves the table alone.
LEMMA OrphanEndsStep ==
    ASSUME IInv, NEW s \in Schedule, OrphanEnds(s)
    PROVE  IInv'
<1> USE DEF IInv
<1>1. TypeOK'
  BY DEF OrphanEnds, pollerVars, TypeOK, Phases, Outcomes, Time, Orphans, NoOrphan
<1>2. PollerInv'
  BY ConstantsAssumption DEF OrphanEnds, pollerVars, PollerInv
<1>3. RowInv'
  BY ConstantsAssumption DEF OrphanEnds, pollerVars, RowInv
<1>4. CallInv'
  BY ConstantsAssumption DEF OrphanEnds, pollerVars, CallInv, InFlight
<1>5. EndedSchedulesStayEnded'
  BY DEF OrphanEnds, pollerVars, EndedSchedulesStayEnded, scheduleExpired
<1> QED
  BY <1>1, <1>2, <1>3, <1>4, <1>5

\* Every step of the specification keeps the invariant.
LEMMA NextIInv ==
    ASSUME IInv, [Next]_vars
    PROVE  IInv'
<1>1. CASE UNCHANGED vars
  BY <1>1 DEF vars, IInv, TypeOK, PollerInv, RowInv, CallInv, InFlight,
              EndedSchedulesStayEnded, scheduleExpired
<1>2. CASE PollerStep
  BY <1>2, RunDueStep, EndBatchStep, ReportOutlivedStartWindowStep,
     ExecuteMessageScheduleStep, StartAgentRunStep, CarryOutApprovedCallStep,
     FinishAgentRunStep, SettleScheduleStep, SettlementFailsStep,
     RecordScheduleFailureStep, FailureNotRecordedStep, SkipActiveStep,
     BeginScheduleStep, SpendFailsStep DEF PollerStep
<1>3. CASE Tick \/ Crash
  BY <1>3, TickStep, CrashStep
<1>4. ASSUME NEW s \in Schedule,
             \/ CreateSchedule(s) \/ UpdateSchedule(s) \/ CancelSchedule(s)
             \/ DeleteSchedule(s) \/ ResumeInterruptedRun(s) \/ OrphanEnds(s)
      PROVE  IInv'
  BY <1>4, CreateScheduleStep, UpdateScheduleStep, CancelScheduleStep,
     DeleteScheduleStep, ResumeInterruptedRunStep, OrphanEndsStep
<1> QED
  BY <1>1, <1>2, <1>3, <1>4 DEF Next

\* Every reachable state of the schedule table and its poller satisfies IInv.
THEOREM Invariance == Spec => []IInv
BY InitIInv, NextIInv, PTL DEF Spec

\* The variables keep their types, whatever is scheduled, edited or restarted.
THEOREM TypeCorrect == Spec => []TypeOK
<1>1. IInv => TypeOK
  BY DEF IInv
<1> QED
  BY <1>1, Invariance, PTL

\* spendAnApprovedCallBeforeItRuns is enough: no interleaving of polls, edits,
\* failures and restarts carries out an approved call a second time.
THEOREM ApprovedCallOnce == Spec => []ApprovedCallCarriedOutAtMostOnce
<1>1. IInv => ApprovedCallCarriedOutAtMostOnce
  BY DEF IInv, CallInv, ApprovedCallCarriedOutAtMostOnce
<1> QED
  BY <1>1, Invariance, PTL

\* A schedule that was cancelled, deleted or given up on is never due again,
\* although runs in flight still write to its row.
THEOREM EndedForGood == Spec => []EndedSchedulesStayEnded
<1>1. IInv => EndedSchedulesStayEnded
  BY DEF IInv
<1> QED
  BY <1>1, Invariance, PTL
=============================================================================

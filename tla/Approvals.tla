----------------------------- MODULE Approvals -----------------------------
(***************************************************************************)
(* A tool call that needs an approval, from the gate that holds it to the  *)
(* approval it is carried out on: internal/approvalgate, the asking        *)
(* threads of internal/connectors/ask_in_thread.go, the questions taken up *)
(* again after a restart (ask_in_thread_restart.go) and the operator's     *)
(* endpoint (internal/adminapi/task_approval_handler.go), for one task run *)
(* and the thread it asks in.                                              *)
(*                                                                         *)
(* Turns run the task; each asks and waits for itself.  Wakers take a      *)
(* pending question up again: "start" when the connectors start, "resume"  *)
(* when an interrupted run is resumed, "session" when a session prompt     *)
(* arrives.  Replies are chat messages of the requester.                   *)
(*                                                                         *)
(* The hold record and the task run service belong to the blueprotocol     *)
(* module and are external: a hold is opened pending, decided once, and    *)
(* spent when approved; a run that has ended neither pauses nor advances;  *)
(* a restart interrupts a running run, and may leave a waiting one waiting *)
(* (the repository's tests resume both).                                   *)
(***************************************************************************)
EXTENDS Integers, Sequences, FiniteSets

CONSTANTS
    Calls,        \* calls that need an approval
    ChoiceCalls,  \* those that offer "now" and "later"
    Turns,        \* turns that can be under way at once
    Wakers,       \* who takes up pending questions: "start", "resume", "session"
    Replies,      \* messages the requester sends in the thread
    Meanings,     \* what they can mean: "approve", "later", "reject", "other"
    Signals,      \* what the operator's endpoint is sent: "approve", "reject"
    Faults,       \* "expiry" (24 hours pass), "stop", "refused" and "transport"
                  \* (the question), "deferral" (the schedule)
    MaxHolds,     \* bound: holds of the run
    MaxRestarts,  \* bound: restarts of the daemon
    None

ASSUME ConstantsAssumption ==
    /\ Calls # {}
    /\ ChoiceCalls \subseteq Calls
    /\ Wakers \subseteq {"start", "resume", "session"}
    /\ Turns \cap Wakers = {}
    /\ Meanings \subseteq {"approve", "later", "reject", "other"}
    /\ Signals \subseteq {"approve", "reject"}
    /\ MaxHolds \in Nat
    /\ MaxRestarts \in Nat
    /\ None \notin Turns

VARIABLES
    status,    \* of the task run
    holds,     \* the hold record of the run, oldest first
    threads,   \* the askingThread objects of this process
    joined,    \* those in askingThreads.threads
    pc,        \* where each turn and each waker is
    thread,    \* the thread each of them waits on
    call,      \* the call each turn is making
    picked,    \* the hold RecordApprovalSpent found for it, 0 for none
    found,     \* the pending hold each waker read, and whether it was posted
    carries,   \* the turn each waker resumed the run with
    replies,   \* the requester's messages
    operator,  \* the request at the operator's endpoint
    ran,       \* bookkeeping: the holds of the calls that passed the gate
    restarts

turnVars == <<call, picked>>
wakerVars == <<found, carries>>
vars == <<status, holds, threads, joined, pc, thread, call, picked, found,
          carries, replies, operator, ran, restarts>>

Waiters == Turns \cup Wakers
Statuses == {"running", "waiting_approval", "interrupted", "ended", "cancelled"}
IsOver == status \in {"ended", "cancelled"}

\* What decided a hold: a message (its meaning and the question its sender
\* had seen), the operator, or nobody.
Reasons == [seen : 0 .. MaxHolds, meaning : Meanings \cup {"operator", "nobody"}]
Options == {"approve", "later", "reject"}
Answers == [option : Options, reason : Reasons]

ASSUME NoneAssumption == None \notin Answers

Nobody == [seen |-> 0, meaning |-> "nobody"]
ByOperator == [seen |-> 0, meaning |-> "operator"]
-----------------------------------------------------------------------------
(***************************************************************************)
(* The hold record.                                                        *)
(***************************************************************************)
Hold(c) == [call |-> c, state |-> "pending", posts |-> 0, redeemed |-> 0,
            reason |-> Nobody]

InState(s) == {h \in DOMAIN holds : holds[h].state = s}
Latest(H) == IF H = {} THEN 0 ELSE CHOOSE h \in H : \A g \in H : g <= h
PendingHold == Latest(InState("pending"))

\* Mutant: a hold that was spent still answers the call.
approvedOrSpentHold(c) ==
    Latest({h \in InState("approved") \cup InState("spent") : holds[h].call = c})
approvedHold(c) == Latest({h \in InState("approved") : holds[h].call = c})
PostedQuestion == Latest({h \in DOMAIN holds : holds[h].posts > 0})

SettleLatest(decision, reason) ==
    holds' = IF PendingHold = 0
             THEN holds
             ELSE [holds EXCEPT ![PendingHold].state = decision,
                                ![PendingHold].reason = reason]

\* approvalQuestionIsPosted: since the latest hold was opened.
approvalQuestionIsPosted == holds # <<>> /\ holds[Len(holds)].posts > 0

Post == holds' = [holds EXCEPT ![Len(holds)].posts = @ + 1]
-----------------------------------------------------------------------------
(***************************************************************************)
(* The asking threads.  A thread carries the question it is read against   *)
(* (here: whether it offers choices) and a channel for one answer.         *)
(***************************************************************************)
join(w, c) ==
    /\ threads' = Append(threads, [offers |-> c \in ChoiceCalls,
                                   isClaimed |-> FALSE, answer |-> None])
    /\ joined' = joined \cup {Len(threads) + 1}
    /\ thread' = [thread EXCEPT ![w] = Len(threads) + 1]

leave(w) == joined' = joined \ {thread[w]}

isAwaiting == joined # {}
Unclaimed == {i \in joined : ~threads[i].isClaimed}

\* awaiting, awaitingRun: the oldest unclaimed thread, 0 for none.
FirstUnclaimed ==
    IF Unclaimed = {} THEN 0
    ELSE CHOOSE i \in Unclaimed : \A j \in Unclaimed : i <= j

\* Mutant: the thread takes an answer and stays open.
claimNothing(i, a) == threads' = [threads EXCEPT ![i].answer = a]

claim(i, a) ==
    threads' = [threads EXCEPT ![i].isClaimed = TRUE, ![i].answer = a]

HasAnswer(w) == threads[thread[w]].answer # None
AnswerOf(w) == threads[thread[w]].answer

At(w, from, to) == pc[w] = from /\ pc' = [pc EXCEPT ![w] = to]
-----------------------------------------------------------------------------
(***************************************************************************)
(* A turn and the gate.                                                    *)
(***************************************************************************)
Init ==
    /\ status = "running"
    /\ holds = <<>>
    /\ threads = <<>>
    /\ joined = {}
    /\ \E t \in Turns : pc = [w \in Waiters |-> IF w = t THEN "working" ELSE "idle"]
    /\ thread = [w \in Waiters |-> 0]
    /\ call \in [Turns -> {CHOOSE c \in Calls : TRUE}]
    /\ picked = [t \in Turns |-> 0]
    /\ found = [w \in Wakers |-> [hold |-> 0, isPosted |-> FALSE]]
    /\ carries = [w \in Wakers |-> None]
    /\ replies = [r \in Replies |-> [at |-> "unwritten", reason |-> Nobody, thread |-> 0]]
    /\ operator = [at |-> "idle", signal |-> "reject"]
    /\ ran = <<>>
    /\ restarts = 0

\* ReviewToolCall of a call some approved hold is for.
ReviewApprovedCall(t, c) ==
    /\ At(t, "working", "spending")
    /\ approvedHold(c) # 0
    /\ call' = [call EXCEPT ![t] = c]
    /\ UNCHANGED <<status, holds, threads, joined, thread, picked, wakerVars,
                   replies, operator, ran, restarts>>

\* AwaitApproval up to holdCall; a run that has ended cannot be paused and the
\* call is refused.
holdCall(t, c) ==
    /\ approvedHold(c) = 0
    /\ ~IsOver
    /\ Len(holds) < MaxHolds
    /\ At(t, "working", "held")
    /\ status' = "waiting_approval"
    /\ holds' = Append(holds, Hold(c))
    /\ call' = [call EXCEPT ![t] = c]
    /\ UNCHANGED <<threads, joined, thread, picked, wakerVars, replies,
                   operator, ran, restarts>>

\* askWhereTheyAre: the thread joins before its question is delivered.
askWhereTheyAre(t) ==
    \/ /\ At(t, "held", "joined")
       /\ join(t, call[t])
       /\ UNCHANGED <<status, holds, turnVars, wakerVars, replies, operator, ran, restarts>>
    \/ /\ "refused" \in Faults
       /\ At(t, "held", "unanswered")
       /\ UNCHANGED <<status, holds, threads, joined, thread, turnVars, wakerVars,
                      replies, operator, ran, restarts>>

\* deliverApprovalQuestion of a turn and statusOfFailedQuestionDelivery: the
\* platform's refusal ends the hold, a transport error leaves it held, and a
\* held result ends the turn.
deliverApprovalQuestion(t) ==
    /\ pc[t] = "joined"
    /\ \/ /\ At(t, "joined", "waiting")
          /\ Post
          /\ UNCHANGED joined
       \/ /\ "refused" \in Faults
          /\ At(t, "joined", "unanswered")
          /\ leave(t)
          /\ UNCHANGED holds
       \/ /\ "transport" \in Faults
          /\ At(t, "joined", "yielded")
          /\ leave(t)
          /\ UNCHANGED holds
    /\ UNCHANGED <<status, threads, thread, turnVars, wakerVars, replies, operator,
                   ran, restarts>>

\* awaitAnswer: an answer, the expiry, or the end of the turn's context.
awaitAnswer(w) ==
    /\ \/ At(w, "waiting", "answered") /\ HasAnswer(w)
       \/ At(w, "waiting", "unanswered") /\ "expiry" \in Faults
       \/ At(w, "waiting", "yielded") /\ w \in Turns /\ status = "cancelled"
    /\ IF w \in Turns THEN leave(w) ELSE UNCHANGED joined
    /\ UNCHANGED <<status, holds, threads, thread, turnVars, wakerVars, replies,
                   operator, ran, restarts>>

\* SettleAnswer, first statement: AdvanceTaskRun.  A run that has ended stays
\* ended; a turn ends with a held result, a waker gives up.
AdvanceTaskRun(w) ==
    /\ \/ /\ ~IsOver
          /\ At(w, "answered", "advanced")
          /\ status' = "running"
          /\ UNCHANGED joined
       \/ /\ IsOver
          /\ At(w, "answered", IF w \in Turns THEN "yielded" ELSE "idle")
          /\ leave(w)
          /\ UNCHANGED status
    /\ UNCHANGED <<holds, threads, thread, turnVars, wakerVars, replies, operator,
                   ran, restarts>>

\* SettleAnswer, the decision; deferHeldCall writes a schedule first and
\* decides nothing when that fails.  A turn reports a rejected or deferred call
\* and goes on, a waker resumes the run whatever the answer was.
SettleAnswer(w) ==
    LET option == AnswerOf(w).option
        reason == AnswerOf(w).reason
        then(step) == IF w \in Turns THEN step ELSE "resuming"
    IN
    /\ pc[w] = "advanced"
    /\ \/ /\ option = "approve"
          /\ At(w, "advanced", then("spending"))
          /\ SettleLatest("approved", reason)
       \/ /\ option = "reject"
          /\ At(w, "advanced", then("working"))
          /\ SettleLatest("rejected", reason)
       \/ /\ option = "later"
          /\ At(w, "advanced", then("working"))
          /\ \/ SettleLatest("deferred", reason)
             \/ "deferral" \in Faults /\ UNCHANGED holds
    /\ UNCHANGED <<status, threads, joined, thread, turnVars, wakerVars, replies,
                   operator, ran, restarts>>

\* Mutant: the run goes on and the hold stays open.
advanceUnansweredRun(t) ==
    /\ At(t, "unanswered", "working")
    /\ status' = IF IsOver THEN status ELSE "running"
    /\ UNCHANGED <<holds, threads, joined, thread, turnVars, wakerVars, replies,
                   operator, ran, restarts>>

\* endUnansweredHold of the gate: the hold is rejected, the run goes on.
endUnansweredHold(t) ==
    /\ At(t, "unanswered", "working")
    /\ SettleLatest("rejected", Nobody)
    /\ status' = IF IsOver THEN status ELSE "running"
    /\ UNCHANGED <<threads, joined, thread, turnVars, wakerVars, replies, operator,
                   ran, restarts>>

\* RecordApprovalSpent: the approved hold is looked up, then marked spent.  The
\* call goes ahead also when there is none.
RecordApprovalSpent(t) ==
    \/ /\ At(t, "spending", "marking")
       /\ picked' = [picked EXCEPT ![t] = approvedHold(call[t])]
       /\ UNCHANGED <<status, holds, threads, joined, thread, call, wakerVars,
                      replies, operator, ran, restarts>>
    \/ /\ At(t, "marking", "invoking")
       /\ holds' = IF picked[t] = 0 THEN holds
                   ELSE [holds EXCEPT ![picked[t]].state = "spent"]
       /\ UNCHANGED <<status, threads, joined, thread, turnVars, wakerVars, replies,
                      operator, ran, restarts>>

\* Mutant: redemption forgets that the hold was redeemed.
redeemableAgain(h, c) ==
    /\ h # 0
    /\ holds[h].state \in {"approved", "spent"}
    /\ holds[h].call = c

redeemableHold(h, c) ==
    /\ h # 0
    /\ holds[h].state \in {"approved", "spent"}
    /\ holds[h].redeemed = 0
    /\ holds[h].call = c

\* The call passes the gate; a call of a capability is redeemed on the way.
InvokeTool(t) ==
    /\ At(t, "invoking", "working")
    /\ ran' = Append(ran, picked[t])
    /\ holds' = IF redeemableHold(picked[t], call[t])
                THEN [holds EXCEPT ![picked[t]].redeemed = @ + 1]
                ELSE holds
    /\ UNCHANGED <<status, threads, joined, thread, turnVars, wakerVars, replies,
                   operator, restarts>>

\* The end of the launch: a run left waiting stays waiting, one that runs ends.
EndTurn(t) ==
    /\ At(t, "working", "idle") \/ At(t, "yielded", "idle")
    /\ status' = IF status = "running" THEN "ended" ELSE status
    /\ UNCHANGED <<holds, threads, joined, thread, turnVars, wakerVars, replies,
                   operator, ran, restarts>>

\* Launch of a restart resume on the run; one that has ended is not resumed.
Launch(t) ==
    /\ pc[t] = "idle"
    /\ ~IsOver
    /\ status' = "running"

\* Somebody stops the task.
StopTask ==
    /\ "stop" \in Faults
    /\ ~IsOver
    /\ status' = "cancelled"
    /\ UNCHANGED <<holds, threads, joined, pc, thread, turnVars, wakerVars, replies,
                   operator, ran, restarts>>
-----------------------------------------------------------------------------
(***************************************************************************)
(* Wakers: reawaitPendingHolds at a start, ResumeInterruptedTaskRun and    *)
(* reawaitHeldQuestionsIn.                                                 *)
(***************************************************************************)
\* Mutant: only a run that still waits is taken up.
isWaitingForApproval == status = "waiting_approval"

isAwaitingAnAnswer == status \in {"waiting_approval", "interrupted"}

Wakes(w) == CASE w = "start"   -> pc[w] = "boot" /\ isAwaitingAnAnswer
              [] w = "resume"  -> pc[w] = "boot" /\ status = "interrupted"
              [] w = "session" -> pc[w] = "idle" /\ isAwaitingAnAnswer

\* beginReawaiting up to the check that no thread awaits the run yet.
beginReawaiting(w) ==
    /\ Wakes(w)
    /\ PendingHold # 0
    /\ ~isAwaiting
    /\ pc' = [pc EXCEPT ![w] = "checked"]
    /\ found' = [found EXCEPT ![w] = [hold |-> PendingHold,
                                      isPosted |-> approvalQuestionIsPosted]]
    /\ UNCHANGED <<status, holds, threads, joined, thread, turnVars, carries,
                   replies, operator, ran, restarts>>

\* A waker of this boot with nothing to wait for; an interrupted run without a
\* pending hold is resumed.
nothingHeld(w) ==
    /\ pc[w] = "boot"
    /\ ~Wakes(w) \/ PendingHold = 0 \/ isAwaiting
    /\ pc' = [pc EXCEPT ![w] = IF w = "resume" /\ Wakes(w) /\ PendingHold = 0
                               THEN "resuming" ELSE "idle"]
    /\ UNCHANGED <<status, holds, threads, joined, thread, turnVars, wakerVars,
                   replies, operator, ran, restarts>>

\* beginReawaiting, the rest: it joins, or there is nowhere to ask, or the hold
\* is older than 24 hours.
joinAgain(w) ==
    \/ /\ At(w, "checked", "joined")
       /\ join(w, holds[found[w].hold].call)
       /\ UNCHANGED <<status, holds, turnVars, wakerVars, replies, operator, ran, restarts>>
    \/ /\ Faults \cap {"refused", "expiry"} # {}
       /\ At(w, "checked", "unanswered")
       /\ UNCHANGED <<status, holds, threads, joined, thread, turnVars, wakerVars,
                      replies, operator, ran, restarts>>

\* awaitReawakenedThread: the question is posted unless it was.
awaitReawakenedThread(w) ==
    /\ \/ At(w, "joined", "waiting") /\ found[w].isPosted /\ UNCHANGED holds
       \/ At(w, "joined", "waiting") /\ ~found[w].isPosted /\ Post
       \/ /\ Faults \cap {"refused", "transport"} # {}
          /\ ~found[w].isPosted
          /\ At(w, "joined", "unanswered")
          /\ UNCHANGED holds
    /\ UNCHANGED <<status, threads, joined, thread, turnVars, wakerVars, replies,
                   operator, ran, restarts>>

\* ConnectorRuntime.endUnansweredHold: the hold is rejected and the run fails.
failUnansweredRun(w) ==
    /\ At(w, "unanswered", "idle")
    /\ SettleLatest("rejected", Nobody)
    /\ status' = IF IsOver THEN status ELSE "ended"
    /\ leave(w)
    /\ UNCHANGED <<threads, thread, turnVars, wakerVars, replies, operator, ran,
                   restarts>>

\* resumeTaskRun; the waker stays, and its thread with it, until the run it
\* launched is over.  A run that has ended is not launched.
resumeTaskRun(w) ==
    /\ pc[w] = "resuming"
    /\ \/ \E t \in Turns :
             /\ Launch(t)
             /\ pc' = [pc EXCEPT ![w] = "carrying", ![t] = "working"]
             /\ carries' = [carries EXCEPT ![w] = t]
             /\ UNCHANGED joined
       \/ /\ IsOver
          /\ pc' = [pc EXCEPT ![w] = "idle"]
          /\ leave(w)
          /\ UNCHANGED <<status, carries>>
    /\ UNCHANGED <<holds, threads, thread, turnVars, found, replies, operator, ran,
                   restarts>>

endCarrying(w) ==
    /\ At(w, "carrying", "idle")
    /\ pc[carries[w]] = "idle"
    /\ leave(w)
    /\ UNCHANGED <<status, holds, threads, thread, turnVars, wakerVars, replies,
                   operator, ran, restarts>>
-----------------------------------------------------------------------------
(***************************************************************************)
(* The requester's messages in the thread.                                 *)
(***************************************************************************)
ReplyAt(r, from, reply) ==
    /\ replies[r].at = from
    /\ replies' = [replies EXCEPT ![r] = reply]

\* A message is written with the latest question in view.
WriteReply(r, m) ==
    /\ PostedQuestion = 0 => m = "other"
    /\ ReplyAt(r, "unwritten",
               [at |-> "sent", thread |-> 0,
                reason |-> [seen |-> PostedQuestion, meaning |-> m]])
    /\ UNCHANGED <<status, holds, threads, joined, pc, thread, turnVars, wakerVars,
                   operator, ran, restarts>>

\* answerAwaitingThreads: the oldest open thread reads the message; without one
\* it goes on as a new message.
answerAwaitingThreads(r) ==
    /\ ReplyAt(r, "sent", [replies[r] EXCEPT
                  !.at = IF FirstUnclaimed = 0 THEN "done" ELSE "read",
                  !.thread = FirstUnclaimed])
    /\ UNCHANGED <<status, holds, threads, joined, pc, thread, turnVars, wakerVars,
                   operator, ran, restarts>>

\* Mutant: the reader's answer is taken as it is.
ReadingAsIs(m, offers) == m

\* The reader's option; everything it cannot match is the declining option.
Reading(m, offers) ==
    IF m = "approve" \/ (m = "later" /\ offers) THEN m ELSE "reject"

\* settleThreadWithReply after the reader has answered.
settleThreadWithReply(r) ==
    LET i == replies[r].thread
        m == replies[r].reason.meaning
    IN
    /\ ReplyAt(r, "read", [replies[r] EXCEPT !.at = "done", !.thread = 0])
    /\ IF threads[i].isClaimed
       THEN UNCHANGED threads
       ELSE claim(i, [option |-> Reading(m, threads[i].offers),
                      reason |-> replies[r].reason])
    /\ UNCHANGED <<status, holds, joined, pc, thread, turnVars, wakerVars, operator,
                   ran, restarts>>
-----------------------------------------------------------------------------
(***************************************************************************)
(* HandleApproveTaskRun.                                                   *)
(***************************************************************************)
OperatorAt(from, to) ==
    operator.at = from /\ operator' = [operator EXCEPT !.at = to]

resolveApproval(s) ==
    /\ operator.at = "idle"
    /\ status = "waiting_approval"
    /\ operator' = [at |-> "resolved", signal |-> s]
    /\ UNCHANGED <<status, holds, threads, joined, pc, thread, turnVars, wakerVars,
                   replies, ran, restarts>>

\* AnswerAwaitedHold: the waiter's thread is claimed, an approval of one that
\* offers choices is refused, and without a waiter the request goes on.
AnswerAwaitedHold ==
    LET i == FirstUnclaimed IN
    /\ \/ /\ i = 0
          /\ OperatorAt("resolved", "deciding")
          /\ UNCHANGED threads
       \/ /\ i # 0
          /\ OperatorAt("resolved", "idle")
          /\ IF operator.signal = "approve" /\ threads[i].offers
             THEN UNCHANGED threads
             ELSE claim(i, [option |-> operator.signal, reason |-> ByOperator])
    /\ UNCHANGED <<status, holds, joined, pc, thread, turnVars, wakerVars, replies,
                   ran, restarts>>

DecideHold ==
    /\ OperatorAt("deciding", "launching")
    /\ SettleLatest(IF operator.signal = "approve" THEN "approved" ELSE "rejected",
                    ByOperator)
    /\ UNCHANGED <<status, threads, joined, pc, thread, turnVars, wakerVars, replies,
                   ran, restarts>>

LaunchDecided ==
    /\ OperatorAt("launching", "idle")
    /\ \/ \E t \in Turns :
             Launch(t) /\ pc' = [pc EXCEPT ![t] = "working"]
       \/ IsOver /\ UNCHANGED <<status, pc>>
    /\ UNCHANGED <<holds, threads, joined, thread, turnVars, wakerVars, replies, ran,
                   restarts>>
-----------------------------------------------------------------------------
\* The daemon stops and starts: the threads and everyone waiting are gone, a
\* running run is interrupted, messages being read are claimed again.
Restart ==
    /\ restarts < MaxRestarts
    /\ restarts' = restarts + 1
    /\ status' \in CASE status = "running" -> {"interrupted"}
                     [] status = "waiting_approval" -> {status, "interrupted"}
                     [] OTHER -> {status}
    /\ threads' = <<>>
    /\ joined' = {}
    /\ pc' = [w \in Waiters |-> IF w \in {"start", "resume"} THEN "boot" ELSE "idle"]
    /\ thread' = [w \in Waiters |-> 0]
    /\ replies' = [r \in Replies |->
                     IF replies[r].at = "read"
                     THEN [replies[r] EXCEPT !.at = "sent", !.thread = 0]
                     ELSE replies[r]]
    /\ operator' = [operator EXCEPT !.at = "idle"]
    /\ UNCHANGED <<holds, turnVars, wakerVars, ran>>

TurnStep(t) ==
    \/ \E c \in Calls : ReviewApprovedCall(t, c) \/ holdCall(t, c)
    \/ askWhereTheyAre(t) \/ deliverApprovalQuestion(t) \/ endUnansweredHold(t)
    \/ RecordApprovalSpent(t) \/ InvokeTool(t) \/ EndTurn(t)

WakerStep(w) ==
    \/ beginReawaiting(w) \/ nothingHeld(w) \/ joinAgain(w)
    \/ awaitReawakenedThread(w) \/ failUnansweredRun(w)
    \/ resumeTaskRun(w) \/ endCarrying(w)

WaiterStep(w) == awaitAnswer(w) \/ AdvanceTaskRun(w) \/ SettleAnswer(w)

ReplyStep(r) ==
    \/ \E m \in Meanings : WriteReply(r, m)
    \/ answerAwaitingThreads(r) \/ settleThreadWithReply(r)

OperatorStep ==
    \/ \E s \in Signals : resolveApproval(s)
    \/ AnswerAwaitedHold \/ DecideHold \/ LaunchDecided

Next ==
    \/ \E t \in Turns : TurnStep(t)
    \/ \E w \in Wakers : WakerStep(w)
    \/ \E w \in Waiters : WaiterStep(w)
    \/ \E r \in Replies : ReplyStep(r)
    \/ OperatorStep
    \/ StopTask
    \/ Restart

Spec == Init /\ [][Next]_vars

\* The daemon's goroutines go on once they have begun, and a wait ends after 24
\* hours.  Nobody has to write, answer, stop a task or prompt a session.
Fairness ==
    /\ \A t \in Turns :
          WF_vars(\/ askWhereTheyAre(t) \/ deliverApprovalQuestion(t)
                  \/ endUnansweredHold(t) \/ RecordApprovalSpent(t) \/ InvokeTool(t))
    /\ \A w \in Wakers : WF_vars(pc[w] # "idle" /\ WakerStep(w))
    /\ \A w \in Waiters : WF_vars(WaiterStep(w))

FairSpec == Spec /\ Fairness
-----------------------------------------------------------------------------
Holds == [call : Calls, state : {"pending", "approved", "rejected", "deferred", "spent"},
          posts : Nat, redeemed : Nat, reason : Reasons]
Threads == [offers : BOOLEAN, isClaimed : BOOLEAN, answer : Answers \cup {None}]
Steps == {"idle", "working", "held", "joined", "waiting", "answered", "advanced",
          "unanswered", "yielded", "spending", "marking", "invoking", "boot",
          "checked", "resuming", "carrying"}

\* Every variable keeps its type; in particular a waiter that waits, or has
\* taken an answer, has a thread (askWhereTheyAre, beginReawaiting).
TypeOK ==
    /\ status \in Statuses
    /\ holds \in Seq(Holds) /\ Len(holds) <= MaxHolds
    /\ threads \in Seq(Threads)
    /\ joined \subseteq DOMAIN threads
    /\ pc \in [Waiters -> Steps]
    /\ thread \in [Waiters -> 0 .. Len(threads)]
    /\ call \in [Turns -> Calls]
    /\ picked \in [Turns -> 0 .. Len(holds)]
    /\ found \in [Wakers -> [hold : 0 .. Len(holds), isPosted : BOOLEAN]]
    /\ carries \in [Wakers -> Turns \cup {None}]
    /\ replies \in [Replies -> [at : {"unwritten", "sent", "read", "done"},
                                reason : Reasons, thread : 0 .. Len(threads)]]
    /\ operator \in [at : {"idle", "resolved", "deciding", "launching"},
                     signal : {"approve", "reject"}]
    /\ ran \in Seq(0 .. Len(holds))
    /\ restarts \in 0 .. MaxRestarts

\* One approval carries out one call: whatever turns, wakers and operators do
\* to the run, RedeemHeldCall lets a hold through at most once, and only one
\* that the requester or the operator approved.
OneApprovalCarriesOutOneCall ==
    \A h \in DOMAIN holds :
        /\ holds[h].redeemed <= 1
        /\ holds[h].redeemed = 1 =>
              /\ holds[h].state \in {"approved", "spent"}
              /\ holds[h].reason.meaning \in {"approve", "operator"}

\* A thread takes one answer: of two messages read at the same time and an
\* operator, the first to claim the thread answers it and no later one replaces
\* or blocks on its answer (claim, and the channel of one).
FirstAnswerStands ==
    [][\A i \in DOMAIN threads :
          threads[i].answer # None /\ threads' # <<>>
             => threads'[i].answer = threads[i].answer]_vars

\* No two turns run one task run: "a second turn was launched beside the one
\* still waiting on the hold" (task_approval_handler_test.go) never happens.
OneTurnPerRun ==
    \A t, u \in Turns : pc[t] # "idle" /\ pc[u] # "idle" => t = u

\* Every call that passes the gate does so on an approval of its own: none
\* without a hold, no two on the same (approvedOutcome, RecordApprovalSpent).
EachCallSpendsItsOwnApproval ==
    \A i, j \in DOMAIN ran : ran[i] # 0 /\ (ran[i] = ran[j] => i = j)

\* A turn that goes on with its run has left no question open behind it
\* (SettleAnswer, endUnansweredHold): an answer decides the hold.
RunGoesOnDecided ==
    status = "running" /\ (\E t \in Turns : pc[t] = "working") => PendingHold = 0

\* A question is posted again only if it was never posted
\* (approvalQuestionIsPosted, beginReawaiting).
QuestionPostedOnce == \A h \in DOMAIN holds : holds[h].posts <= 1

\* A message that is not an answer leaves the call open (DOCS.md on a reply in
\* the asking thread).
UnrelatedReplyLeavesTheCallOpen ==
    \A h \in DOMAIN holds : holds[h].reason.meaning # "other"

\* An approval answers the call it was asked about: the message that approved
\* a hold was written with that hold's question in view.
ApprovalAnswersItsOwnQuestion ==
    \A h \in InState("approved") \cup InState("spent") :
        holds[h].reason.meaning = "approve" => holds[h].reason.seen = h

\* A hold that offers choices is not approved by the operator.
ChoiceIsTheRequesters ==
    \A h \in InState("approved") \cup InState("spent") :
        holds[h].call \in ChoiceCalls => holds[h].reason.meaning # "operator"

\* A held call is decided in the end, also when the daemon stops anywhere
\* between the question and the settlement, unless its run is stopped.
EveryHoldIsDecided ==
    \A h \in 1 .. MaxHolds :
        h \in InState("pending") ~> (h \notin InState("pending") \/ IsOver)
=============================================================================

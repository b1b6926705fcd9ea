----------------------------- MODULE Connectors -----------------------------
(***************************************************************************)
(* The connector runtime for one scope: the inbox (raw_event), the outbox  *)
(* (connector_outbox), the pending request store, the conversation lock    *)
(* and the workers.                                                        *)
(*                                                                         *)
(* A message is enqueued, claimed by an inbox worker in a burst with the   *)
(* other due messages of its sender, run as a turn under the conversation  *)
(* lock, answered through the outbox and delivered by an outbox worker.    *)
(* Meanwhile later messages arrive and supersede it, claims outlive their  *)
(* lease, writes fail, and the daemon restarts.                            *)
(*                                                                         *)
(* What is left out: /stop and /stop-all, task retries, replies the agent  *)
(* sends with a tool of its own, and runs resumed after a restart, whose   *)
(* replies carry a raw event of their own.  Time is left out too: a        *)
(* pending row is due whenever a claim finds it so.                        *)
(***************************************************************************)
EXTENDS PendingRequests, Integers, Sequences, FiniteSets

CONSTANTS
    Worker,        \* inbox goroutines, the lent ones included
    BurstSize,     \* connectorDecisionBurstSize
    MaxAttempts,   \* connectorMaximumAttemptCount
    Asking,        \* the messages whose run asks for an approval
    FaultKinds,    \* the kinds of failure that may happen
    MaxFaults,     \* bound on the number of failures
    MaxCrashes     \* bound on the number of restarts

FaultKind == {"lease",     \* a claim outlives its lease while it is worked on
              "error",     \* a turn fails before it launches a run
              "deferral",  \* task intake is quiesced
              "reply",     \* the reply cannot be enqueued
              "mark",      \* the outcome of an event cannot be written
              "send"}      \* the platform refuses a reply

ASSUME ConnectorsAssumption ==
    /\ BurstSize \in Nat \ {0}
    /\ MaxAttempts \in Nat
    /\ Asking \subseteq Message
    /\ FaultKinds \subseteq FaultKind
    /\ MaxFaults \in Nat
    /\ MaxCrashes \in Nat

VARIABLES
    inbox,      \* raw_event: one row per message
    outbox,     \* connector_outbox: the reply to each message
    store,      \* connectorRuntime.pendingRequests
    worker,     \* what each inbox goroutine is doing
    sending,    \* what an outbox worker is doing with each reply
    restoring,  \* the unanswered events Start has still to register
    launches,   \* how many task runs each message has started
    delivered,  \* how many times the reply to each message was delivered
    faults, crashes

rows == <<inbox, outbox>>
observed == <<launches, delivered>>
bounds == <<faults, crashes>>
vars == <<inbox, outbox, store, worker, sending, restoring, observed, bounds>>

InboxRow == [status : {"absent", "pending", "running", "succeeded", "failed"},
             isSuperseded : BOOLEAN,       \* the stored result names superseded_by_new_message
             attempts : Nat,
             messages : SUBSET Message]    \* PreviousMessages of the stored event

OutboxRow == [status : {"absent", "pending", "running", "succeeded", "failed", "suppressed"},
              attempts : Nat]

QueuedEvent == [message : Message, attempts : Nat]
NoEvent == [message |-> NoMessage, attempts |-> 0]

Results == {"none", "succeeded", "superseded", "error", "deferred"}

(***************************************************************************)
(* A goroutine walks through these places for one event.  It owns the      *)
(* conversation lock from "begin" to "mark" if it took it (isLocked),      *)
(* except while it waits for an answer and until it has locked again.      *)
(***************************************************************************)
InTurn == {"turn", "admitted", "launched", "asking", "relock", "resumed", "reply"}
Places == {"idle", "picked", "begin", "waiting", "finish", "mark"} \cup InTurn

WorkerState == [pc : Places, event : QueuedEvent \cup {NoEvent}, isLocked : BOOLEAN,
                awaits : Message \cup {NoMessage}, result : Results,
                claimed : Seq(QueuedEvent)]

Idle == [pc |-> "idle", event |-> NoEvent, isLocked |-> FALSE, awaits |-> NoMessage,
         result |-> "none", claimed |-> <<>>]

message(w) == worker[w].event.message
isOn(w, places) == worker[w].pc \in places
isCancelled(m) == store.request[m].isSuperseded

holdsConversation(w) == worker[w].isLocked /\ ~isOn(w, {"asking", "relock"})
conversationIsFree == \A w \in Worker : ~holdsConversation(w)

\* Somebody in this process still means to work on the event.
isHeld(m) == \E w \in Worker :
    \/ worker[w].pc # "idle" /\ message(w) = m
    \/ \E i \in DOMAIN worker[w].claimed : worker[w].claimed[i].message = m

isRestored == restoring = {}

Fault(kind) == /\ kind \in FaultKinds
               /\ faults < MaxFaults
               /\ faults' = faults + 1
               /\ UNCHANGED crashes

Init ==
    /\ inbox = [m \in Message |-> [status |-> "absent", isSuperseded |-> FALSE,
                                   attempts |-> 0, messages |-> {}]]
    /\ outbox = [m \in Message |-> [status |-> "absent", attempts |-> 0]]
    /\ store = newPendingRequestStore
    /\ worker = [w \in Worker |-> Idle]
    /\ sending = [m \in Message |-> "no"]
    /\ restoring = {}
    /\ launches = [m \in Message |-> 0]
    /\ delivered = [m \in Message |-> 0]
    /\ faults = 0
    /\ crashes = 0

-----------------------------------------------------------------------------
(***************************************************************************)
(* RawEventRepository: what each statement does to the row.                *)
(***************************************************************************)
suppressSupersededConnectorEvents(table, messages) ==
    [m \in Message |-> IF m \in messages
                       THEN [table[m] EXCEPT !.status = "succeeded", !.isSuperseded = TRUE]
                       ELSE table[m]]

\* Mutant: the reason is written where the status belongs.
suppressRepliesByReason(table, messages) ==
    [m \in Message |-> IF m \in messages /\ table[m].status \in {"pending", "running"}
                       THEN [table[m] EXCEPT !.status = "superseded_by_new_message"]
                       ELSE table[m]]

\* Mutant: only a reply nobody has claimed yet is suppressed.
suppressUnclaimedReplies(table, messages) ==
    [m \in Message |-> IF m \in messages /\ table[m].status = "pending"
                       THEN [table[m] EXCEPT !.status = "suppressed"]
                       ELSE table[m]]

suppressReplies(table, messages) ==
    [m \in Message |-> IF m \in messages /\ table[m].status \in {"pending", "running"}
                       THEN [table[m] EXCEPT !.status = "suppressed"]
                       ELSE table[m]]

MarkConnectorEventSucceeded(row, isSuperseded) ==
    IF row.isSuperseded THEN row
    ELSE [row EXCEPT !.status = "succeeded", !.isSuperseded = isSuperseded]

\* The count compared with the limit is the one the claim returned.
MarkConnectorEventFailed(row, attempts) ==
    IF row.isSuperseded THEN row
    ELSE [row EXCEPT !.status = IF attempts >= MaxAttempts THEN "failed" ELSE "pending"]

ReleaseConnectorEventClaim(row) ==
    IF row.status # "running" THEN row
    ELSE [row EXCEPT !.status = "pending",
                     !.attempts = IF @ > 0 THEN @ - 1 ELSE 0]

EnqueueConnectorReply(row, reply) ==
    IF row.isSuperseded \/ reply.status # "absent" THEN reply
    ELSE [status |-> "pending", attempts |-> 0]

MarkConnectorReplySent(reply) == [reply EXCEPT !.status = "succeeded"]

MarkConnectorReplyFailed(reply) ==
    [reply EXCEPT !.status = IF reply.attempts >= MaxAttempts THEN "failed" ELSE "pending"]

SuppressConnectorReply(reply) ==
    IF reply.status \in {"pending", "running"}
    THEN [reply EXCEPT !.status = "suppressed"] ELSE reply

ListUnansweredConnectorEvents ==
    {m \in Message :
       /\ \/ inbox[m].status \in {"pending", "running"}
          \/ inbox[m].status = "succeeded" /\ outbox[m].status \in {"pending", "running"}
       /\ outbox[m].status # "succeeded"}

-----------------------------------------------------------------------------
(***************************************************************************)
(* enqueueInboundEvent: one database transaction inside one critical       *)
(* section of the store.  A message that is delivered twice finds its row  *)
(* and changes nothing.                                                    *)
(***************************************************************************)
enqueueInboundEvent(m) ==
    LET event == prepare(store, m, {}) IN
    /\ isRestored
    /\ inbox[m].status = "absent"
    /\ \A n \in Message : n < m => inbox[n].status # "absent"
    /\ inbox' = [suppressSupersededConnectorEvents(inbox, event.messages) EXCEPT
                   ![m] = [status |-> "pending", isSuperseded |-> FALSE,
                           attempts |-> 0, messages |-> event.messages]]
    /\ outbox' = suppressReplies(outbox, event.messages)
    /\ store' = register(store, m, event)
    /\ UNCHANGED <<worker, sending, restoring, observed, bounds>>

\* Bursts are claimed and worked through in the order of arrival.
Bursts == {queue \in UNION {[1 .. n -> Message] : n \in 1 .. BurstSize} :
             \A i, j \in DOMAIN queue : i < j => queue[i] < queue[j]}

\* Mutant: a claim whose worker is gone is never taken over.
isUnclaimed(m) == inbox[m].status = "pending"

isClaimable(m) == inbox[m].status \in {"pending", "running"}

\* A running row is stale when its lease is over, whether or not the worker is.
isOverdue(m) == inbox[m].status = "running" /\ isHeld(m)

ClaimPendingConnectorEvents(w) ==
    /\ isRestored
    /\ isOn(w, {"idle"})
    /\ worker[w].claimed = <<>>
    /\ \E queue \in Bursts :
         LET burst == {queue[i] : i \in DOMAIN queue} IN
         /\ \A m \in burst : isClaimable(m)
         /\ IF \E m \in burst : isOverdue(m) THEN Fault("lease") ELSE UNCHANGED bounds
         /\ inbox' = [m \in Message |->
                        IF m \in burst
                        THEN [inbox[m] EXCEPT !.status = "running", !.attempts = @ + 1]
                        ELSE inbox[m]]
         /\ worker' = [worker EXCEPT ![w].claimed =
                         [i \in DOMAIN queue |-> [message |-> queue[i],
                                                  attempts |-> inbox[queue[i]].attempts + 1]]]
    /\ UNCHANGED <<outbox, store, sending, restoring, observed>>

(***************************************************************************)
(* claimedEvents.next.  While a run waits for an answer the goroutine it   *)
(* lent (w) works through the rest of the burst (of u).                    *)
(***************************************************************************)
isLent(w, u) == worker[w].claimed = <<>> /\ isOn(u, {"asking", "relock", "resumed"})

nextClaimedEvent(w, u) ==
    /\ isOn(w, {"idle"})
    /\ u = w \/ isLent(w, u)
    /\ worker[u].claimed # <<>>
    /\ worker' = [worker EXCEPT ![u].claimed = Tail(@),
                                ![w].event = Head(worker[u].claimed),
                                ![w].pc = "picked"]
    /\ UNCHANGED <<rows, store, sending, restoring, observed, bounds>>

released(w) == [Idle EXCEPT !.claimed = worker[w].claimed]

afterWaiting(u) == IF worker[u].isLocked THEN "relock" ELSE "resumed"

(***************************************************************************)
(* settleAnswerInThread.  An approval ends here; any other reply declines  *)
(* the call and goes on as the next message.                               *)
(***************************************************************************)
approveInThread(w, u) ==
    /\ isOn(w, {"picked"})
    /\ isOn(u, {"asking"})
    /\ inbox' = [inbox EXCEPT ![message(w)] = MarkConnectorEventSucceeded(@, FALSE)]
    /\ worker' = [worker EXCEPT ![w] = released(w), ![u].pc = afterWaiting(u)]
    /\ UNCHANGED <<outbox, store, sending, restoring, observed, bounds>>

declineInThread(w, u) ==
    /\ isOn(w, {"picked"})
    /\ isOn(u, {"asking"})
    /\ worker' = [worker EXCEPT ![u].pc = afterWaiting(u)]
    /\ UNCHANGED <<rows, store, sending, restoring, observed, bounds>>

\* shouldProcessBeforeConversationLock: a follow-up to a run that is still active.
isFollowUp(w) ==
    /\ inbox[message(w)].messages = {}
    /\ \E u \in Worker \ {w} : isOn(u, {"launched", "asking", "relock", "resumed"})

processOutsideLock(w) ==
    /\ isOn(w, {"picked"})
    /\ message(w) \in store.superseded \/ isFollowUp(w)
    /\ worker' = [worker EXCEPT ![w].pc = "begin"]
    /\ UNCHANGED <<rows, store, sending, restoring, observed, bounds>>

lockConversation(w) ==
    /\ isOn(w, {"picked"})
    /\ message(w) \notin store.superseded
    /\ conversationIsFree
    /\ worker' = [worker EXCEPT ![w].pc = "begin", ![w].isLocked = TRUE]
    /\ UNCHANGED <<rows, store, sending, restoring, observed, bounds>>

releaseToTheConversationInFlight(w) ==
    /\ isOn(w, {"picked"})
    /\ message(w) \notin store.superseded
    /\ ~conversationIsFree
    /\ inbox' = [inbox EXCEPT ![message(w)] = ReleaseConnectorEventClaim(@)]
    /\ worker' = [worker EXCEPT ![w] = released(w)]
    /\ UNCHANGED <<outbox, store, sending, restoring, observed, bounds>>

-----------------------------------------------------------------------------
(***************************************************************************)
(* processPendingInboundEvent: begin, wait for the superseded requests to  *)
(* end, run the turn, finish.  Then the outcome is written to the row.     *)
(***************************************************************************)
beginPendingRequest(w) ==
    LET m == message(w)
        reason == beginReason(store, m, inbox[m].messages) IN
    /\ isOn(w, {"begin"})
    /\ store' = begin(store, m, inbox[m].messages)
    /\ worker' = [worker EXCEPT
         ![w].pc = IF reason = "started" THEN "waiting" ELSE "mark",
         ![w].awaits = IF reason = "started" THEN store'.request[m].previous ELSE NoMessage,
         ![w].result = CASE reason = "superseded" -> "superseded"
                         [] reason = "already_running" -> "deferred"
                         [] OTHER -> "none"]
    /\ UNCHANGED <<rows, sending, restoring, observed, bounds>>

\* A turn ends: the outcome it has reached, unless it is superseded by then.
endTurn(w, result) ==
    worker' = [worker EXCEPT ![w].pc = "finish", ![w].awaits = NoMessage, ![w].result = result]

awaitPrevious(w) ==
    /\ isOn(w, {"waiting"})
    /\ \/ isCancelled(message(w)) /\ endTurn(w, "error")
       \/ /\ ~isCancelled(message(w))
          /\ worker[w].awaits # NoMessage
          /\ store.request[worker[w].awaits].isFinished
          /\ worker' = [worker EXCEPT ![w].awaits = store.request[@].previous]
       \/ /\ ~isCancelled(message(w))
          /\ worker[w].awaits = NoMessage
          /\ worker' = [worker EXCEPT ![w].pc = "turn"]
    /\ UNCHANGED <<rows, store, sending, restoring, observed, bounds>>

\* Mutant: every admitted message gets a task run.
admitAnyTurn(w) ==
    /\ isOn(w, {"turn"})
    /\ \/ worker' = [worker EXCEPT ![w].pc = "admitted"] /\ UNCHANGED bounds
       \/ Fault("error") /\ endTurn(w, "error")
    /\ UNCHANGED <<rows, store, sending, restoring, observed>>

\* admitInboundTurn: a message that already has a task run starts no other.
admitInboundTurn(w) ==
    /\ isOn(w, {"turn"})
    /\ \/ /\ launches[message(w)] > 0
          /\ endTurn(w, "succeeded")
          /\ UNCHANGED bounds
       \/ /\ launches[message(w)] = 0
          /\ worker' = [worker EXCEPT ![w].pc = "admitted"]
          /\ UNCHANGED bounds
       \/ Fault("error") /\ endTurn(w, "error")
    /\ UNCHANGED <<rows, store, sending, restoring, observed>>

\* Addressing: ignored, deferred, or answered without a run of its own.
settleWithoutLaunch(w) ==
    /\ isOn(w, {"admitted"})
    /\ \/ isCancelled(message(w)) /\ endTurn(w, "error") /\ UNCHANGED bounds
       \/ ~isCancelled(message(w)) /\ endTurn(w, "succeeded") /\ UNCHANGED bounds
       \/ Fault("deferral") /\ endTurn(w, "deferred")
       \/ /\ ~isCancelled(message(w))
          /\ worker' = [worker EXCEPT ![w].pc = "reply"]
          /\ UNCHANGED bounds
    /\ UNCHANGED <<rows, store, sending, restoring, observed>>

launchTurn(w) ==
    /\ isOn(w, {"admitted"})
    /\ ~isCancelled(message(w))
    /\ launches' = [launches EXCEPT ![message(w)] = @ + 1]
    /\ worker' = [worker EXCEPT ![w].pc = "launched"]
    /\ UNCHANGED <<rows, store, sending, restoring, delivered, bounds>>

(***************************************************************************)
(* askWhereTheyAre: the question is sent through the guarded sender, which *)
(* sends nothing and reports no error for a superseded message; then the   *)
(* conversation is unlocked until the wait is over.                        *)
(***************************************************************************)
askWhereTheyAre(w) ==
    /\ isOn(w, {"launched"})
    /\ message(w) \in Asking
    /\ \/ /\ store' = IF message(w) \in store.superseded THEN store
                      ELSE replied(store, message(w))
          /\ worker' = [worker EXCEPT ![w].pc = "asking"]
          /\ UNCHANGED bounds
       \/ /\ Fault("send")
          /\ worker' = [worker EXCEPT ![w].pc = "resumed"]
          /\ UNCHANGED store
    /\ UNCHANGED <<rows, sending, restoring, observed>>

\* The question expires, an operator answers it, or the request is cancelled.
stopWaiting(w) ==
    /\ isOn(w, {"asking"})
    /\ worker' = [worker EXCEPT ![w].pc = afterWaiting(w)]
    /\ UNCHANGED <<rows, store, sending, restoring, observed, bounds>>

relockConversation(w) ==
    /\ isOn(w, {"relock"})
    /\ conversationIsFree
    /\ worker' = [worker EXCEPT ![w].pc = "resumed"]
    /\ UNCHANGED <<rows, store, sending, restoring, observed, bounds>>

\* dispatchTaskReply decides to send, or to suppress what the run has to say.
endRun(w) ==
    /\ isOn(w, {"launched", "resumed"})
    /\ \/ worker' = [worker EXCEPT ![w].pc = "reply"]
       \/ endTurn(w, "succeeded")
    /\ UNCHANGED <<rows, store, sending, restoring, observed, bounds>>

\* A reply that cannot be enqueued is logged, and the event counts as handled.
enqueueConnectorReply(w) ==
    /\ isOn(w, {"reply"})
    /\ \/ /\ outbox' = IF message(w) \in store.superseded THEN outbox
                       ELSE [outbox EXCEPT ![message(w)] =
                               EnqueueConnectorReply(inbox[message(w)], @)]
          /\ UNCHANGED bounds
       \/ Fault("reply") /\ UNCHANGED outbox
    /\ endTurn(w, "succeeded")
    /\ UNCHANGED <<inbox, store, sending, restoring, observed>>

finishPendingRequest(w) ==
    /\ isOn(w, {"finish"})
    /\ store' = finish(store, message(w))
    /\ worker' = [worker EXCEPT ![w].pc = "mark",
                    ![w].result = IF message(w) \in store.superseded THEN "superseded" ELSE @]
    /\ UNCHANGED <<rows, sending, restoring, observed, bounds>>

markOutcome(w) ==
    LET m == message(w) IN
    /\ isOn(w, {"mark"})
    /\ \/ /\ inbox' = [inbox EXCEPT ![m] =
                 CASE worker[w].result = "deferred" -> @
                   [] worker[w].result = "error" ->
                        MarkConnectorEventFailed(@, worker[w].event.attempts)
                   [] OTHER -> MarkConnectorEventSucceeded(@, worker[w].result = "superseded")]
          /\ UNCHANGED bounds
       \/ Fault("mark") /\ worker[w].result # "deferred" /\ UNCHANGED inbox
    /\ worker' = [worker EXCEPT ![w] = released(w)]
    /\ UNCHANGED <<outbox, store, sending, restoring, observed>>

-----------------------------------------------------------------------------
(***************************************************************************)
(* processNextQueuedConnectorReply.  The reply is sent inside the critical *)
(* section of the store; the row is written after it.                      *)
(***************************************************************************)
\* Mutant: a reply whose sender is gone is never taken over.
isUnclaimedReply(m) == outbox[m].status = "pending"

isClaimableReply(m) == outbox[m].status \in {"pending", "running"}

ClaimPendingConnectorReplies(m) ==
    /\ isRestored
    /\ sending[m] = "no"
    /\ isClaimableReply(m)
    /\ outbox' = [outbox EXCEPT ![m].status = "running", ![m].attempts = @ + 1]
    /\ sending' = [sending EXCEPT ![m] = "claimed"]
    /\ UNCHANGED <<inbox, store, worker, restoring, observed, bounds>>

suppressSupersededQueuedReply(m) ==
    /\ sending[m] = "claimed"
    /\ m \in store.superseded
    /\ outbox' = [outbox EXCEPT ![m] = SuppressConnectorReply(@)]
    /\ sending' = [sending EXCEPT ![m] = "no"]
    /\ UNCHANGED <<inbox, store, worker, restoring, observed, bounds>>

sendQueuedReply(m) ==
    /\ sending[m] = "claimed"
    /\ m \notin store.superseded
    /\ \/ /\ delivered' = [delivered EXCEPT ![m] = @ + 1]
          /\ store' = replied(store, m)
          /\ sending' = [sending EXCEPT ![m] = "sent"]
          /\ UNCHANGED bounds
       \/ /\ Fault("send")
          /\ sending' = [sending EXCEPT ![m] = "unsent"]
          /\ UNCHANGED <<delivered, store>>
    /\ UNCHANGED <<rows, worker, restoring, launches>>

markQueuedReply(m) ==
    /\ sending[m] \in {"sent", "unsent"}
    /\ outbox' = [outbox EXCEPT ![m] = IF sending[m] = "sent"
                                       THEN MarkConnectorReplySent(@)
                                       ELSE MarkConnectorReplyFailed(@)]
    /\ sending' = [sending EXCEPT ![m] = "no"]
    /\ UNCHANGED <<inbox, store, worker, restoring, observed, bounds>>

-----------------------------------------------------------------------------
(***************************************************************************)
(* The daemon stops and starts again.  Start restores the open requests    *)
(* from the rows, oldest first, before any worker runs.                    *)
(***************************************************************************)
Restart ==
    /\ crashes < MaxCrashes
    /\ crashes' = crashes + 1
    /\ store' = newPendingRequestStore
    /\ worker' = [w \in Worker |-> Idle]
    /\ sending' = [m \in Message |-> "no"]
    /\ restoring' = ListUnansweredConnectorEvents
    /\ UNCHANGED <<rows, observed, faults>>

restorePendingRequest(m) ==
    /\ m \in restoring
    /\ \A n \in restoring : m <= n
    /\ store' = register(store, m, prepare(store, m, inbox[m].messages))
    /\ restoring' = restoring \ {m}
    /\ UNCHANGED <<rows, worker, sending, observed, bounds>>

-----------------------------------------------------------------------------
turnStep(w) ==
    \/ beginPendingRequest(w) \/ awaitPrevious(w) \/ admitInboundTurn(w)
    \/ settleWithoutLaunch(w) \/ launchTurn(w) \/ askWhereTheyAre(w)
    \/ stopWaiting(w) \/ relockConversation(w) \/ endRun(w)
    \/ enqueueConnectorReply(w) \/ finishPendingRequest(w) \/ markOutcome(w)

claimStep(w) ==
    \/ ClaimPendingConnectorEvents(w)
    \/ \E u \in Worker : nextClaimedEvent(w, u)
    \/ \E u \in Worker : approveInThread(w, u) \/ declineInThread(w, u)
    \/ processOutsideLock(w) \/ lockConversation(w) \/ releaseToTheConversationInFlight(w)

replyStep(m) ==
    \/ ClaimPendingConnectorReplies(m) \/ suppressSupersededQueuedReply(m)
    \/ sendQueuedReply(m) \/ markQueuedReply(m)

Next ==
    \/ \E m \in Message : enqueueInboundEvent(m)
    \/ \E w \in Worker : claimStep(w) \/ turnStep(w)
    \/ \E m \in Message : replyStep(m)
    \/ Restart
    \/ \E m \in Message : restorePendingRequest(m)

Spec == Init /\ [][Next]_vars

(***************************************************************************)
(* Goroutines are scheduled fairly, runs end, questions expire after a day *)
(* and the platform answers; nothing makes a message arrive or the daemon  *)
(* restart.                                                                *)
(***************************************************************************)
Fairness ==
    /\ \A w \in Worker : WF_vars(claimStep(w)) /\ WF_vars(turnStep(w))
    /\ \A m \in Message : WF_vars(replyStep(m)) /\ WF_vars(restorePendingRequest(m))

FairSpec == Spec /\ Fairness

-----------------------------------------------------------------------------
(* Properties                                                              *)

\* The state of the connector runtime has the shape the code gives it.
TypeOK ==
    /\ inbox \in [Message -> InboxRow]
    /\ outbox \in [Message -> OutboxRow]
    /\ store \in Store
    /\ worker \in [Worker -> WorkerState]
    /\ sending \in [Message -> {"no", "claimed", "sent", "unsent"}]
    /\ restoring \subseteq Message
    /\ launches \in [Message -> Nat]
    /\ delivered \in [Message -> Nat]
    /\ faults \in 0 .. MaxFaults
    /\ crashes \in 0 .. MaxCrashes

(***************************************************************************)
(* At most one request of a scope is open, however messages, claims and    *)
(* restarts interleave.  prepare depends on it: it supersedes the first    *)
(* open request it meets in a map, and would leave a second one behind.    *)
(***************************************************************************)
OneOpenRequest == \A m, n \in Open(store) : m = n

(***************************************************************************)
(* A message is never worked on by two goroutines at once, although its    *)
(* claim can expire under the first: begin answers already_running.        *)
(***************************************************************************)
OneTurnPerMessage ==
    \A w, u \in Worker :
        isOn(w, InTurn) /\ isOn(u, InTurn) /\ message(w) = message(u) => w = u

(***************************************************************************)
(* The turn of a message that took others over starts only once their      *)
(* turns have ended: processPendingInboundEvent waits for done of the      *)
(* whole chain, also past requests that were themselves interrupted.       *)
(***************************************************************************)
ReplacementWaitsForTheReplaced ==
    \A w, u \in Worker :
        isOn(w, InTurn) /\ isOn(u, InTurn)
            => message(u) \notin store.request[message(w)].messages

(***************************************************************************)
(* A message starts at most one task run, whatever is claimed again after  *)
(* a lease or a restart: the check in admitInboundTurn and the launch are  *)
(* two steps, and only begin keeps a second goroutine from between them.   *)
(***************************************************************************)
OneRunPerMessage == \A m \in Message : launches[m] <= 1

(***************************************************************************)
(* Once a later message has taken a message over, the reply to the earlier *)
(* one is not delivered any more: only the revised reply is.               *)
(***************************************************************************)
ObsoleteReplyIsNotDelivered ==
    [][\A m \in Message : inbox[m].isSuperseded => delivered'[m] = delivered[m]]_vars

(***************************************************************************)
(* The messages a request carries along arrived before it, so that the     *)
(* revised prompt can say that they arrived in this order.                 *)
(***************************************************************************)
PreviousMessagesAreOlder ==
    \A m \in store.requests : \A n \in store.request[m].messages : n < m

(***************************************************************************)
(* Every event that was enqueued reaches an outcome: it is not claimed and *)
(* released, deferred or waited for without end.                           *)
(***************************************************************************)
EveryEventReachesAnOutcome ==
    \A m \in Message :
        inbox[m].status # "absent" ~> inbox[m].status \in {"succeeded", "failed"}

(***************************************************************************)
(* Every reply that was enqueued leaves the outbox, across failed sends    *)
(* and a daemon that stops between the claim of a reply and its outcome.   *)
(***************************************************************************)
EveryReplyLeavesTheOutbox ==
    \A m \in Message :
        outbox[m].status = "pending" ~> outbox[m].status \in {"succeeded", "failed", "suppressed"}

\* A run that was superseded stops, whatever it is waiting for.
SupersededRunStops ==
    \A m \in Message :
        store.request[m].isSuperseded ~> ~store.request[m].isRunning
=============================================================================

-------------------------- MODULE ConnectorsProofs --------------------------
(***************************************************************************)
(* Proofs about Connectors, for any number of messages and workers, any    *)
(* failures and any number of restarts.                                    *)
(*                                                                         *)
(* That no message is worked on twice at once is not inductive: the store  *)
(* must agree with the workers.  IInv says that the request of a worker    *)
(* between begin and finish is in the map, running and not finished, so a  *)
(* second begin for the same message is turned away.  That a message       *)
(* starts one task run rests on the same fact: nobody else is between the  *)
(* check of admitInboundTurn and the launch.                               *)
(***************************************************************************)
EXTENDS Connectors, SequenceTheorems, TLAPS

\* A worker that has begun a request and has not finished it.
Active == {"waiting", "finish"} \cup InTurn

Runs(st, k) == /\ k \in st.requests
               /\ st.request[k].isRunning
               /\ ~st.request[k].isFinished

OneOpen(st) == \A m, n \in Open(st) : m = n

ActiveRuns == \A w \in Worker : isOn(w, Active) => Runs(store, message(w))

ActiveAlone ==
    \A w, u \in Worker :
        isOn(w, Active) /\ isOn(u, Active) /\ message(w) = message(u) => w = u

HasEvent == \A w \in Worker : ~isOn(w, {"idle"}) => message(w) \in Message

NotLaunchedYet == \A w \in Worker : isOn(w, {"admitted"}) => launches[message(w)] = 0

IInv ==
    /\ TypeOK
    /\ OneOpen(store)
    /\ HasEvent
    /\ ActiveRuns
    /\ ActiveAlone
    /\ NotLaunchedYet
    /\ OneRunPerMessage

----------------------------------------------------------------------------
\* prepare picks an open request, or there is none.
LEMMA PreparePicksAnOpenOne ==
    ASSUME NEW st \in Store, NEW m \in Message, NEW messages \in SUBSET Message
    PROVE  LET e == prepare(st, m, messages) IN
           /\ e.messages \in SUBSET Message
           /\ e.previous \in Message \cup {NoMessage}
           /\ e.previous # NoMessage => e.previous \in Open(st) /\ m \notin st.requests
           /\ e.previous = NoMessage /\ m \notin st.requests => Open(st) = {}
<1> DEFINE open == CHOOSE r \in Open(st) : TRUE
<1>1. Open(st) \subseteq Message /\ Open(st) \subseteq st.requests
  BY DEF Open, Store
<1>2. NoMessage \notin Message
  BY MessageAssumption DEF NoMessage
<1>3. \A k \in Message : st.request[k].messages \in SUBSET Message
  BY DEF Store, Request
<1>4. Open(st) # {} => open \in Open(st)
  OBVIOUS
<1> HIDE DEF open
<1>5. CASE m \in st.requests
  BY <1>3, <1>5 DEF prepare
<1>6. CASE m \notin st.requests /\ Open(st) = {}
  BY <1>6 DEF prepare
<1>7. CASE m \notin st.requests /\ Open(st) # {}
  <2>1. prepare(st, m, messages) =
          [messages |-> IF messages = {} THEN st.request[open].messages \cup {open}
                        ELSE messages,
           previous |-> open]
    BY <1>7 DEF prepare, open
  <2>2. open \in Message /\ st.request[open].messages \in SUBSET Message
    BY <1>1, <1>3, <1>4, <1>7
  <2> QED
    BY <2>1, <2>2, <1>1, <1>2, <1>4, <1>7
<1> QED
  BY <1>5, <1>6, <1>7

\* register takes over the open request, so only the new one is open after it,
\* and does not touch a request that is being run.
LEMMA RegisterKeepsOneOpen ==
    ASSUME NEW st \in Store, OneOpen(st),
           NEW m \in Message, NEW messages \in SUBSET Message
    PROVE  LET next == register(st, m, prepare(st, m, messages)) IN
           /\ next \in Store
           /\ OneOpen(next)
           /\ \A k \in Message : Runs(st, k) => Runs(next, k)
           /\ m \in st.requests => next = st
           /\ m \notin st.requests => /\ m \in next.requests
                                      /\ ~next.request[m].isRunning
<1> DEFINE e == prepare(st, m, messages)
           r == e.previous
           next == register(st, m, e)
<1>1. /\ e.messages \in SUBSET Message
      /\ r \in Message \cup {NoMessage}
      /\ r # NoMessage => r \in Open(st) /\ m \notin st.requests
      /\ r = NoMessage /\ m \notin st.requests => Open(st) = {}
  BY PreparePicksAnOpenOne
<1> HIDE DEF e
<1>2. CASE m \in st.requests
  <2>1. next = st
    BY <1>2 DEF register
  <2> QED
    BY <2>1, <1>2 DEF e
<1>3. CASE m \notin st.requests /\ r = NoMessage
  <2>1. next = [requests |-> st.requests \cup {m},
                superseded |-> st.superseded \cup e.messages,
                request |-> [st.request EXCEPT ![m] = newRequest(e.messages, NoMessage)]]
    BY <1>3 DEF register
  <2> HIDE DEF next
  <2>2. newRequest(e.messages, NoMessage) \in Request
    BY <1>1 DEF newRequest, Request
  <2>3. next \in Store
    BY <2>1, <2>2, <1>1 DEF Store
  <2>4. Open(st) = {}
    BY <1>1, <1>3
  <2>5. Open(next) \subseteq {m}
    BY <2>1, <2>4, <1>3 DEF Open, Store
  <2>6. \A k \in Message : Runs(st, k) => Runs(next, k)
    BY <2>1, <1>3 DEF Runs, Store
  <2>7. m \in next.requests /\ ~next.request[m].isRunning
    BY <2>1 DEF Store, newRequest
  <2> QED
    BY <2>3, <2>5, <2>6, <2>7, <1>3 DEF OneOpen, next, e
<1>4. CASE m \notin st.requests /\ r # NoMessage
  <2> DEFINE isOver == ~st.request[r].isRunning
             new == newRequest(e.messages, IF isOver THEN st.request[r].previous ELSE r)
  <2>1. r \in Open(st) /\ r \in Message /\ r # m /\ r \in st.requests
    BY <1>1, <1>4 DEF Open, Store
  <2>2. next = [requests |-> (st.requests \cup {m}) \ (IF isOver THEN {r} ELSE {}),
                superseded |-> st.superseded \cup e.messages,
                request |-> [st.request EXCEPT
                               ![r].isSuperseded = TRUE, ![r].isFinished = isOver,
                               ![m] = new]]
    BY <1>4 DEF register
  <2> HIDE DEF next
  <2>3. new \in Request /\ ~new.isRunning
    BY <2>1, <1>1 DEF newRequest, Request, Store
  <2> HIDE DEF new
  <2>4. next \in Store
    <3>1. isOver \in BOOLEAN
      OBVIOUS
    <3> HIDE DEF isOver
    <3>2. [st.request[r] EXCEPT !.isSuperseded = TRUE, !.isFinished = isOver] \in Request
      <4>1. st.request[r] \in Request
        BY <2>1 DEF Store
      <4>2. CASE isOver = TRUE
        BY <4>1, <4>2 DEF Request
      <4>3. CASE isOver = FALSE
        BY <4>1, <4>3 DEF Request
      <4> QED
        BY <3>1, <4>2, <4>3
    <3>3. next.request = [st.request EXCEPT
            ![r] = [st.request[r] EXCEPT !.isSuperseded = TRUE, !.isFinished = isOver],
            ![m] = new]
      BY <2>1, <2>2 DEF Store
    <3>4. next.request \in [Message -> Request]
      BY <2>1, <2>3, <3>2, <3>3 DEF Store
    <3>5. next.requests \in SUBSET Message /\ next.superseded \in SUBSET Message
      BY <2>2, <1>1 DEF Store
    <3> QED
      BY <2>2, <3>4, <3>5 DEF Store
  <2>5. next.request[r].isSuperseded /\ next.request[m] = new
    BY <2>1, <2>2, <2>3 DEF Store, Request
  <2>6. \A k \in Message \ {r, m} : next.request[k] = st.request[k]
    BY <2>1, <2>2 DEF Store
  <2>7. Open(next) \subseteq {m}
    <3> SUFFICES ASSUME NEW k \in Open(next), k # m PROVE FALSE
      OBVIOUS
    <3>1. k \in st.requests /\ k \in Message /\ k # r
      BY <2>2, <2>5 DEF Open, Store
    <3>2. k \in Open(st)
      BY <3>1, <2>6 DEF Open
    <3> QED
      BY <3>1, <3>2, <2>1 DEF OneOpen
  <2>8. \A k \in Message : Runs(st, k) => Runs(next, k)
    <3> SUFFICES ASSUME NEW k \in Message, Runs(st, k) PROVE Runs(next, k)
      OBVIOUS
    <3>1. CASE k = r
      BY <3>1, <2>1, <2>2 DEF Runs, Store, Request
    <3>2. CASE k # r
      BY <3>2, <2>2, <2>6, <1>4 DEF Runs
    <3> QED
      BY <3>1, <3>2
  <2>9. m \in next.requests
    BY <2>1, <2>2
  <2> QED
    BY <2>3, <2>4, <2>5, <2>7, <2>8, <2>9, <1>4 DEF OneOpen, next, e
<1> QED
  BY <1>1, <1>2, <1>3, <1>4 DEF e

\* begin starts a request nobody runs, and leaves the others as they are.
LEMMA BeginStartsOnce ==
    ASSUME NEW st \in Store, OneOpen(st),
           NEW m \in Message, NEW messages \in SUBSET Message
    PROVE  LET next == begin(st, m, messages) IN
           /\ next \in Store
           /\ OneOpen(next)
           /\ \A k \in Message : Runs(st, k) => Runs(next, k)
           /\ beginReason(st, m, messages) = "started" =>
                 ~Runs(st, m) /\ Runs(next, m)
           /\ beginReason(st, m, messages) \in {"started", "superseded", "already_running"}
<1> DEFINE reg == found(st, m, messages)
           next == begin(st, m, messages)
<1>1. /\ reg \in Store
      /\ OneOpen(reg)
      /\ \A k \in Message : Runs(st, k) => Runs(reg, k)
      /\ m \in reg.requests
  BY RegisterKeepsOneOpen DEF found
<1> HIDE DEF reg
<1>2. startReason(reg, m) \in {"started", "superseded", "already_running"}
  BY DEF startReason
<1>3. CASE m \in st.superseded
  BY <1>3 DEF begin, beginReason
<1>4. CASE m \notin st.superseded /\ startReason(reg, m) # "started"
  BY <1>1, <1>2, <1>4 DEF begin, beginReason, reg
<1>5. CASE m \notin st.superseded /\ startReason(reg, m) = "started"
  <2>1. next = [reg EXCEPT !.request[m].isFinished = FALSE, !.request[m].isRunning = TRUE]
    BY <1>5 DEF begin, reg
  <2>2. beginReason(st, m, messages) = "started"
    BY <1>5 DEF beginReason, reg
  <2> HIDE DEF next
  <2>3. ~reg.request[m].isRunning
    BY <1>5 DEF startReason
  <2> DEFINE q == [reg.request[m] EXCEPT !.isFinished = FALSE, !.isRunning = TRUE]
  <2>a. /\ q \in Request
        /\ q.hasReply = reg.request[m].hasReply
        /\ q.isSuperseded = reg.request[m].isSuperseded
    <3>1. reg.request[m] \in Request
      BY <1>1 DEF Store
    <3> QED
      BY <3>1 DEF Request
  <2>b. next.request = [reg.request EXCEPT ![m] = q]
    BY <1>1, <2>1 DEF Store
  <2> HIDE DEF q
  <2>4. next \in Store
    <3>1. next.request \in [Message -> Request]
      BY <1>1, <2>a, <2>b DEF Store
    <3> QED
      BY <1>1, <2>1, <3>1 DEF Store
  <2>5. \A k \in Message : /\ next.request[k].hasReply = reg.request[k].hasReply
                           /\ next.request[k].isSuperseded = reg.request[k].isSuperseded
    BY <1>1, <2>a, <2>b DEF Store
  <2>6. next.requests = reg.requests /\ reg.requests \subseteq Message
    BY <1>1, <2>1 DEF Store
  <2>7. Open(next) = Open(reg)
    BY <2>5, <2>6 DEF Open
  <2>8. Runs(next, m)
    BY <1>1, <2>1 DEF Runs, Store, Request
  <2>9. \A k \in Message : Runs(reg, k) => Runs(next, k)
    BY <1>1, <2>1 DEF Runs, Store, Request
  <2>10. ~Runs(st, m)
    BY <1>1, <2>3 DEF Runs
  <2> QED
    BY <1>1, <2>2, <2>4, <2>7, <2>8, <2>9, <2>10 DEF OneOpen, next
<1> QED
  BY <1>3, <1>4, <1>5

\* finish stops the request it is called for and no other.
LEMMA FinishStopsOne ==
    ASSUME NEW st \in Store, OneOpen(st), NEW m \in Message
    PROVE  LET next == finish(st, m) IN
           /\ next \in Store
           /\ OneOpen(next)
           /\ \A k \in Message \ {m} : Runs(st, k) => Runs(next, k)
<1> DEFINE next == finish(st, m)
           rest == IF st.request[m].isSuperseded \/ st.request[m].hasReply
                   THEN st.requests \ {m} ELSE st.requests
<1>1. next = [st EXCEPT !.request[m].isRunning = FALSE, !.request[m].isFinished = TRUE,
                        !.requests = rest]
  BY DEF finish
<1>2. rest \subseteq st.requests /\ st.requests \ {m} \subseteq rest
  OBVIOUS
<1> HIDE DEF next, rest
<1>3. next \in Store
  <2> DEFINE q == [st.request[m] EXCEPT !.isRunning = FALSE, !.isFinished = TRUE]
  <2>1. q \in Request
    <3>1. st.request[m] \in Request
      BY DEF Store
    <3> QED
      BY <3>1 DEF Request
  <2>2. next.request = [st.request EXCEPT ![m] = q]
    BY <1>1 DEF Store
  <2> HIDE DEF q
  <2>3. next.request \in [Message -> Request]
    BY <2>1, <2>2 DEF Store
  <2> QED
    BY <1>1, <1>2, <2>3 DEF Store
<1>4. \A k \in Message : /\ next.request[k].hasReply = st.request[k].hasReply
                         /\ next.request[k].isSuperseded = st.request[k].isSuperseded
  BY <1>1 DEF Store, Request
<1>5. next.requests = rest /\ st.requests \subseteq Message
  BY <1>1 DEF Store
<1>6. Open(next) \subseteq Open(st)
  BY <1>2, <1>4, <1>5 DEF Open
<1>7. \A k \in Message \ {m} : Runs(st, k) => Runs(next, k)
  BY <1>1, <1>2, <1>5 DEF Runs, Store
<1> QED
  BY <1>3, <1>6, <1>7 DEF OneOpen, next

\* A delivered reply closes the request and drops it only once it is finished.
LEMMA RepliedKeepsTheRunning ==
    ASSUME NEW st \in Store, OneOpen(st), NEW m \in Message
    PROVE  LET next == replied(st, m) IN
           /\ next \in Store
           /\ OneOpen(next)
           /\ \A k \in Message : Runs(st, k) => Runs(next, k)
<1> DEFINE next == replied(st, m)
           rest == IF st.request[m].isFinished THEN st.requests \ {m} ELSE st.requests
<1>1. CASE m \notin st.requests
  BY <1>1 DEF replied
<1>2. CASE m \in st.requests
  <2>1. next = [st EXCEPT !.request[m].hasReply = TRUE, !.requests = rest]
    BY <1>2 DEF replied
  <2>2. rest \subseteq st.requests /\ (~st.request[m].isFinished => rest = st.requests)
        /\ st.requests \ {m} \subseteq rest
    OBVIOUS
  <2> HIDE DEF next, rest
  <2>3. next \in Store
    <3> DEFINE q == [st.request[m] EXCEPT !.hasReply = TRUE]
    <3>1. q \in Request
      <4>1. st.request[m] \in Request
        BY DEF Store
      <4> QED
        BY <4>1 DEF Request
    <3>2. next.request = [st.request EXCEPT ![m] = q]
      BY <2>1 DEF Store
    <3> HIDE DEF q
    <3>3. next.request \in [Message -> Request]
      BY <3>1, <3>2 DEF Store
    <3> QED
      BY <2>1, <2>2, <3>3 DEF Store
  <2>4. next.requests = rest /\ st.requests \subseteq Message
    BY <2>1 DEF Store
  <2>5. \A k \in Message \ {m} : next.request[k] = st.request[k]
    BY <2>1 DEF Store
  <2>6. next.request[m].hasReply
    BY <2>1 DEF Store, Request
  <2>7. Open(next) \subseteq Open(st)
    BY <2>2, <2>4, <2>5, <2>6 DEF Open
  <2>8. \A k \in Message : Runs(st, k) => Runs(next, k)
    BY <2>1, <2>2, <2>4 DEF Runs, Store, Request
  <2> QED
    BY <2>3, <2>7, <2>8 DEF OneOpen, next
<1> QED
  BY <1>1, <1>2

----------------------------------------------------------------------------
(* Steps that begin no request, finish none and launch nothing.            *)

\* What a step must leave alone for the invariant to carry over.
Keeps(w) ==
    /\ worker'[w].pc \in Active =>
          worker[w].pc \in Active /\ worker'[w].event = worker[w].event
    /\ worker'[w].pc = "admitted" => worker[w].pc = "admitted"
    /\ worker'[w].pc # "idle" => worker'[w].event.message \in Message

LEMMA FrameStep ==
    ASSUME IInv, TypeOK', OneOpen(store)',
           \A k \in Message : Runs(store, k) => Runs(store, k)',
           launches' = launches,
           \A w \in Worker : Keeps(w)
    PROVE  IInv'
<1>1. HasEvent'
  BY DEF HasEvent, Keeps, isOn, message
<1>2. \A w \in Worker : worker[w].pc \in Active => worker[w].event.message \in Message
  BY DEF IInv, HasEvent, isOn, message, Active, InTurn
<1>3. ActiveRuns'
  BY <1>2 DEF IInv, ActiveRuns, Keeps, isOn, message
<1>4. ActiveAlone'
  BY DEF IInv, ActiveAlone, Keeps, isOn, message
<1>5. NotLaunchedYet'
  BY DEF IInv, NotLaunchedYet, Keeps, isOn, message, Active, InTurn
<1>6. OneRunPerMessage'
  BY DEF IInv, OneRunPerMessage
<1> QED
  BY <1>1, <1>3, <1>4, <1>5, <1>6 DEF IInv

\* The records a worker moves through are worker states.
LEMMA WorkerMoves ==
    ASSUME NEW s \in WorkerState, NEW p \in Places
    PROVE  /\ [s EXCEPT !.pc = p] \in WorkerState
           /\ [s EXCEPT !.pc = p, !.isLocked = TRUE] \in WorkerState
BY DEF WorkerState

LEMMA WorkerAwaits ==
    ASSUME NEW s \in WorkerState, NEW a \in Message \cup {NoMessage}
    PROVE  [s EXCEPT !.awaits = a] \in WorkerState
BY DEF WorkerState

LEMMA WorkerEnds ==
    ASSUME NEW s \in WorkerState, NEW p \in Places,
           NEW a \in Message \cup {NoMessage}, NEW r \in Results
    PROVE  /\ [s EXCEPT !.pc = p, !.result = r] \in WorkerState
           /\ [s EXCEPT !.pc = p, !.awaits = a, !.result = r] \in WorkerState
BY DEF WorkerState

LEMMA IdleType ==
    /\ Idle \in WorkerState
    /\ \A w \in Worker : worker[w] \in WorkerState => released(w) \in WorkerState
<1>1. <<>> \in Seq(QueuedEvent)
  BY EmptySeq
<1> QED
  BY <1>1 DEF Idle, WorkerState, released, Places, Results

\* The row each statement of the repository leaves behind is a row.
LEMMA InboxRowType ==
    ASSUME NEW row \in InboxRow, NEW b \in BOOLEAN, NEW n \in Nat
    PROVE  /\ MarkConnectorEventSucceeded(row, b) \in InboxRow
           /\ MarkConnectorEventFailed(row, n) \in InboxRow
           /\ ReleaseConnectorEventClaim(row) \in InboxRow
           /\ [row EXCEPT !.status = "running", !.attempts = @ + 1] \in InboxRow
           /\ [row EXCEPT !.status = "succeeded", !.isSuperseded = TRUE] \in InboxRow
<1>1. row.attempts \in Nat /\ row.attempts + 1 \in Nat
  BY DEF InboxRow
<1>2. row.attempts > 0 => row.attempts - 1 \in Nat
  BY <1>1
<1>3. MarkConnectorEventSucceeded(row, b) \in InboxRow
  <2>1. CASE b = TRUE
    BY <2>1 DEF MarkConnectorEventSucceeded, InboxRow
  <2>2. CASE b = FALSE
    BY <2>2 DEF MarkConnectorEventSucceeded, InboxRow
  <2> QED
    BY <2>1, <2>2
<1>4. MarkConnectorEventFailed(row, n) \in InboxRow
  BY DEF MarkConnectorEventFailed, InboxRow
<1>5. ReleaseConnectorEventClaim(row) \in InboxRow
  BY <1>1, <1>2 DEF ReleaseConnectorEventClaim, InboxRow
<1> QED
  BY <1>1, <1>3, <1>4, <1>5 DEF InboxRow

LEMMA OutboxRowType ==
    ASSUME NEW row \in InboxRow, NEW reply \in OutboxRow
    PROVE  /\ EnqueueConnectorReply(row, reply) \in OutboxRow
           /\ MarkConnectorReplySent(reply) \in OutboxRow
           /\ MarkConnectorReplyFailed(reply) \in OutboxRow
           /\ SuppressConnectorReply(reply) \in OutboxRow
           /\ [reply EXCEPT !.status = "suppressed"] \in OutboxRow
           /\ [reply EXCEPT !.status = "running", !.attempts = @ + 1] \in OutboxRow
<1>1. reply.attempts \in Nat /\ reply.attempts + 1 \in Nat
  BY DEF OutboxRow
<1> QED
  BY <1>1 DEF EnqueueConnectorReply, MarkConnectorReplySent, MarkConnectorReplyFailed,
     SuppressConnectorReply, OutboxRow

\* A failure is counted within its bound.
LEMMA BoundsType ==
    ASSUME TypeOK, UNCHANGED bounds \/ \E kind \in FaultKind : Fault(kind)
    PROVE  faults' \in 0 .. MaxFaults /\ crashes' \in 0 .. MaxCrashes
BY ConnectorsAssumption DEF TypeOK, bounds, Fault

\* One worker moves on with the event it has, and begins or admits nothing.
LEMMA WorkerStep ==
    ASSUME IInv, NEW w \in Worker, NEW s \in WorkerState,
           worker' = [worker EXCEPT ![w] = s]
    PROVE  /\ worker' \in [Worker -> WorkerState]
           /\ \A v \in Worker \ {w} : worker'[v] = worker[v]
           /\ worker'[w] = s
           /\ \/ s.pc = "idle"
              \/ /\ s.event = worker[w].event
                 /\ worker[w].pc # "idle"
                 /\ s.pc \in Active => worker[w].pc \in Active
                 /\ s.pc = "admitted" => worker[w].pc = "admitted"
              => \A v \in Worker : Keeps(v)
<1>1. /\ worker' \in [Worker -> WorkerState]
      /\ \A v \in Worker \ {w} : worker'[v] = worker[v]
      /\ worker'[w] = s
  BY DEF IInv, TypeOK
<1>2. \A v \in Worker \ {w} : Keeps(v)
  BY <1>1 DEF IInv, HasEvent, Keeps, isOn, message
<1>3. ASSUME \/ s.pc = "idle"
             \/ /\ s.event = worker[w].event
                /\ worker[w].pc # "idle"
                /\ s.pc \in Active => worker[w].pc \in Active
                /\ s.pc = "admitted" => worker[w].pc = "admitted"
      PROVE  Keeps(w)
  BY <1>1, <1>3 DEF IInv, HasEvent, Keeps, isOn, message, Active, InTurn
<1> QED
  BY <1>1, <1>2, <1>3

\* awaitAnswer returns.
LEMMA stopWaitingStep ==
    ASSUME IInv, NEW w \in Worker, stopWaiting(w)
    PROVE  IInv'
<1> DEFINE s == [worker[w] EXCEPT !.pc = afterWaiting(w)]
<1>1. worker[w] \in WorkerState
  BY DEF IInv, TypeOK
<1>2. s \in WorkerState
  BY <1>1, WorkerMoves, Zenon DEF Places, InTurn, stopWaiting, afterWaiting
<1>3. s.event = worker[w].event /\ s.pc \in {"relock", "resumed"}
  BY <1>1 DEF WorkerState, stopWaiting, afterWaiting
<1>4. worker' = [worker EXCEPT ![w] = s]
  BY DEF IInv, TypeOK, stopWaiting, afterWaiting
<1> HIDE DEF s
<1>5. worker[w].pc = "asking"
  BY DEF isOn, stopWaiting, afterWaiting
<1>6. worker' \in [Worker -> WorkerState] /\ \A v \in Worker : Keeps(v)
  BY <1>2, <1>3, <1>4, <1>5, WorkerStep DEF Active, InTurn
<1>7. TypeOK'
  BY <1>6 DEF IInv, TypeOK, rows, observed, bounds, stopWaiting
<1> QED
  BY <1>6, <1>7, FrameStep DEF IInv, OneOpen, Open, Runs, observed, stopWaiting

\* The wait is over and the conversation is locked again.
LEMMA relockConversationStep ==
    ASSUME IInv, NEW w \in Worker, relockConversation(w)
    PROVE  IInv'
<1> DEFINE s == [worker[w] EXCEPT !.pc = "resumed"]
<1>1. worker[w] \in WorkerState
  BY DEF IInv, TypeOK
<1>2. s \in WorkerState
  BY <1>1, WorkerMoves, Zenon DEF Places, InTurn, relockConversation
<1>3. s.event = worker[w].event /\ s.pc \in {"resumed"}
  BY <1>1 DEF WorkerState, relockConversation
<1>4. worker' = [worker EXCEPT ![w] = s]
  BY DEF IInv, TypeOK, relockConversation
<1> HIDE DEF s
<1>5. worker[w].pc = "relock"
  BY DEF isOn, relockConversation
<1>6. worker' \in [Worker -> WorkerState] /\ \A v \in Worker : Keeps(v)
  BY <1>2, <1>3, <1>4, <1>5, WorkerStep DEF Active, InTurn
<1>7. TypeOK'
  BY <1>6 DEF IInv, TypeOK, rows, observed, bounds, relockConversation
<1> QED
  BY <1>6, <1>7, FrameStep DEF IInv, OneOpen, Open, Runs, observed, relockConversation

\* A superseded event or a follow-up takes no lock.
LEMMA processOutsideLockStep ==
    ASSUME IInv, NEW w \in Worker, processOutsideLock(w)
    PROVE  IInv'
<1> DEFINE s == [worker[w] EXCEPT !.pc = "begin"]
<1>1. worker[w] \in WorkerState
  BY DEF IInv, TypeOK
<1>2. s \in WorkerState
  BY <1>1, WorkerMoves, Zenon DEF Places, InTurn, processOutsideLock
<1>3. s.event = worker[w].event /\ s.pc \in {"begin"}
  BY <1>1 DEF WorkerState, processOutsideLock
<1>4. worker' = [worker EXCEPT ![w] = s]
  BY DEF IInv, TypeOK, processOutsideLock
<1> HIDE DEF s
<1>5. worker[w].pc = "picked"
  BY DEF isOn, processOutsideLock
<1>6. worker' \in [Worker -> WorkerState] /\ \A v \in Worker : Keeps(v)
  BY <1>2, <1>3, <1>4, <1>5, WorkerStep DEF Active, InTurn
<1>7. TypeOK'
  BY <1>6 DEF IInv, TypeOK, rows, observed, bounds, processOutsideLock
<1> QED
  BY <1>6, <1>7, FrameStep DEF IInv, OneOpen, Open, Runs, observed, processOutsideLock

\* TryLock succeeds.
LEMMA lockConversationStep ==
    ASSUME IInv, NEW w \in Worker, lockConversation(w)
    PROVE  IInv'
<1> DEFINE s == [worker[w] EXCEPT !.pc = "begin", !.isLocked = TRUE]
<1>1. worker[w] \in WorkerState
  BY DEF IInv, TypeOK
<1>2. s \in WorkerState
  BY <1>1, WorkerMoves, Zenon DEF Places, InTurn, lockConversation
<1>3. s.event = worker[w].event /\ s.pc \in {"begin"}
  BY <1>1 DEF WorkerState, lockConversation
<1>4. worker' = [worker EXCEPT ![w] = s]
  BY DEF IInv, TypeOK, lockConversation
<1> HIDE DEF s
<1>5. worker[w].pc = "picked"
  BY DEF isOn, lockConversation
<1>6. worker' \in [Worker -> WorkerState] /\ \A v \in Worker : Keeps(v)
  BY <1>2, <1>3, <1>4, <1>5, WorkerStep DEF Active, InTurn
<1>7. TypeOK'
  BY <1>6 DEF IInv, TypeOK, rows, observed, bounds, lockConversation
<1> QED
  BY <1>6, <1>7, FrameStep DEF IInv, OneOpen, Open, Runs, observed, lockConversation

\* A worker in its turn moves to another place of the turn.
LEMMA TurnMoves ==
    ASSUME IInv, NEW w \in Worker, NEW p \in Places \ {"admitted"},
           worker[w].pc \in Active, worker' = [worker EXCEPT ![w].pc = p]
    PROVE  worker' \in [Worker -> WorkerState] /\ \A v \in Worker : Keeps(v)
<1> DEFINE s == [worker[w] EXCEPT !.pc = p]
<1>1. worker[w] \in WorkerState
  BY DEF IInv, TypeOK
<1>2. s \in WorkerState
  BY <1>1, WorkerMoves, Zenon
<1>3. s.event = worker[w].event /\ s.pc = p
  BY <1>1 DEF WorkerState
<1>4. worker' = [worker EXCEPT ![w] = s]
  BY DEF IInv, TypeOK
<1> HIDE DEF s
<1> QED
  BY <1>2, <1>3, <1>4, WorkerStep DEF Active, InTurn

\* A worker in its turn ends it.
LEMMA TurnEnds ==
    ASSUME IInv, NEW w \in Worker, NEW r \in Results,
           worker[w].pc \in Active, endTurn(w, r)
    PROVE  worker' \in [Worker -> WorkerState] /\ \A v \in Worker : Keeps(v)
<1> DEFINE s == [worker[w] EXCEPT !.pc = "finish", !.awaits = NoMessage, !.result = r]
<1>1. worker[w] \in WorkerState /\ "finish" \in Places
  BY DEF IInv, TypeOK, Places
<1>2. s \in WorkerState
  BY <1>1, WorkerEnds, Zenon
<1>3. s.event = worker[w].event /\ s.pc = "finish"
  BY <1>1 DEF WorkerState
<1>4. worker' = [worker EXCEPT ![w] = s]
  BY DEF IInv, TypeOK, endTurn
<1> HIDE DEF s
<1> QED
  BY <1>2, <1>3, <1>4, WorkerStep DEF Active, InTurn

\* dispatchTaskReply sends or suppresses.
LEMMA endRunStep ==
    ASSUME IInv, NEW w \in Worker, endRun(w)
    PROVE  IInv'
<1>1. worker[w].pc \in Active
  BY DEF endRun, isOn, Active, InTurn
<1>2. worker' \in [Worker -> WorkerState] /\ \A v \in Worker : Keeps(v)
  <2>1. CASE worker' = [worker EXCEPT ![w].pc = "reply"]
    BY <1>1, <2>1, TurnMoves DEF Places, InTurn
  <2>2. CASE endTurn(w, "succeeded")
    BY <1>1, <2>2, TurnEnds DEF Results
  <2> QED
    BY <2>1, <2>2 DEF endRun
<1>3. TypeOK'
  BY <1>2 DEF IInv, TypeOK, rows, observed, bounds, endRun
<1> QED
  BY <1>2, <1>3, FrameStep DEF IInv, OneOpen, Open, Runs, observed, endRun

\* Waiting for the requests taken over changes nothing but the worker.
LEMMA awaitPreviousStep ==
    ASSUME IInv, NEW w \in Worker, awaitPrevious(w)
    PROVE  IInv'
<1>1. worker[w].pc = "waiting"
  BY DEF awaitPrevious, isOn
<1>2. worker' \in [Worker -> WorkerState] /\ \A v \in Worker : Keeps(v)
  <2>1. CASE endTurn(w, "error")
    BY <1>1, <2>1, TurnEnds DEF Results, Active
  <2>2. CASE worker' = [worker EXCEPT ![w].pc = "turn"]
    BY <1>1, <2>2, TurnMoves DEF Places, InTurn, Active
  <2>3. CASE /\ worker[w].awaits # NoMessage
             /\ worker' = [worker EXCEPT ![w].awaits = store.request[@].previous]
    <3> DEFINE a == store.request[worker[w].awaits].previous
               s == [worker[w] EXCEPT !.awaits = a]
    <3>1. worker[w] \in WorkerState
      BY DEF IInv, TypeOK
    <3>2. worker[w].awaits \in Message
      BY <2>3, <3>1 DEF WorkerState
    <3>3. a \in Message \cup {NoMessage}
      BY <3>2 DEF IInv, TypeOK, Store, Request
    <3>4. worker' = [worker EXCEPT ![w] = s]
      BY <2>3 DEF IInv, TypeOK
    <3> HIDE DEF a
    <3>5. s \in WorkerState
      BY <3>1, <3>3, WorkerAwaits, Zenon
    <3>6. s.event = worker[w].event /\ s.pc = "waiting"
      BY <3>1, <1>1 DEF WorkerState
    <3> HIDE DEF s
    <3> QED
      BY <3>4, <3>5, <3>6, <1>1, WorkerStep
  <2> QED
    BY <2>1, <2>2, <2>3 DEF awaitPrevious
<1>3. TypeOK'
  BY <1>2 DEF IInv, TypeOK, rows, observed, bounds, awaitPrevious
<1> QED
  BY <1>2, <1>3, FrameStep DEF IInv, OneOpen, Open, Runs, observed, awaitPrevious

\* A turn that is settled by addressing launches nothing.
LEMMA settleWithoutLaunchStep ==
    ASSUME IInv, NEW w \in Worker, settleWithoutLaunch(w)
    PROVE  IInv'
<1>1. worker[w].pc \in Active
  BY DEF settleWithoutLaunch, isOn, Active, InTurn
<1>2. worker' \in [Worker -> WorkerState] /\ \A v \in Worker : Keeps(v)
  <2>1. CASE worker' = [worker EXCEPT ![w].pc = "reply"]
    BY <1>1, <2>1, TurnMoves DEF Places, InTurn
  <2>2. CASE endTurn(w, "succeeded")
    BY <1>1, <2>2, TurnEnds DEF Results
  <2>3. CASE endTurn(w, "error")
    BY <1>1, <2>3, TurnEnds DEF Results
  <2>4. CASE endTurn(w, "deferred")
    BY <1>1, <2>4, TurnEnds DEF Results
  <2> QED
    BY <2>1, <2>2, <2>3, <2>4 DEF settleWithoutLaunch
<1>3. faults' \in 0 .. MaxFaults /\ crashes' \in 0 .. MaxCrashes
  BY BoundsType DEF IInv, settleWithoutLaunch, FaultKind
<1>4. TypeOK'
  BY <1>2, <1>3 DEF IInv, TypeOK, rows, observed, settleWithoutLaunch
<1> QED
  BY <1>2, <1>4, FrameStep DEF IInv, OneOpen, Open, Runs, observed, settleWithoutLaunch

\* The reply of a turn goes to the outbox, or is lost.
LEMMA enqueueConnectorReplyStep ==
    ASSUME IInv, NEW w \in Worker, enqueueConnectorReply(w)
    PROVE  IInv'
<1>1. worker[w].pc \in Active /\ message(w) \in Message
  BY DEF IInv, HasEvent, enqueueConnectorReply, isOn, Active, InTurn
<1>2. worker' \in [Worker -> WorkerState] /\ \A v \in Worker : Keeps(v)
  BY <1>1, TurnEnds DEF Results, enqueueConnectorReply
<1>3. faults' \in 0 .. MaxFaults /\ crashes' \in 0 .. MaxCrashes
  BY BoundsType DEF IInv, enqueueConnectorReply, FaultKind
<1>4. outbox' \in [Message -> OutboxRow]
  <2>1. EnqueueConnectorReply(inbox[message(w)], outbox[message(w)]) \in OutboxRow
    BY <1>1, OutboxRowType DEF IInv, TypeOK
  <2> QED
    BY <1>1, <2>1 DEF IInv, TypeOK, enqueueConnectorReply
<1>5. TypeOK'
  BY <1>2, <1>3, <1>4 DEF IInv, TypeOK, observed, enqueueConnectorReply
<1> QED
  BY <1>2, <1>5, FrameStep DEF IInv, OneOpen, Open, Runs, observed, enqueueConnectorReply

\* A worker that lets go of its event keeps the rest of its burst.
LEMMA LetsGo ==
    ASSUME IInv, NEW w \in Worker, worker' = [worker EXCEPT ![w] = released(w)]
    PROVE  worker' \in [Worker -> WorkerState] /\ \A v \in Worker : Keeps(v)
<1>1. worker[w] \in WorkerState
  BY DEF IInv, TypeOK
<1>2. released(w) \in WorkerState
  BY <1>1, IdleType
<1>3. released(w).pc = "idle"
  BY DEF released, Idle
<1> QED
  BY <1>2, <1>3, WorkerStep

\* The outcome of an event is written to its row, or is lost.
LEMMA markOutcomeStep ==
    ASSUME IInv, NEW w \in Worker, markOutcome(w)
    PROVE  IInv'
<1> DEFINE m == message(w)
<1>1. m \in Message /\ worker[w] \in WorkerState /\ inbox[m] \in InboxRow
  BY DEF IInv, TypeOK, HasEvent, markOutcome, isOn
<1>2. worker[w].event.attempts \in Nat
  BY <1>1 DEF WorkerState, QueuedEvent, NoEvent
<1>3. inbox' \in [Message -> InboxRow]
  <2>1. \A b \in BOOLEAN : MarkConnectorEventSucceeded(inbox[m], b) \in InboxRow
    BY <1>1, InboxRowType
  <2>2. MarkConnectorEventFailed(inbox[m], worker[w].event.attempts) \in InboxRow
    BY <1>1, <1>2, InboxRowType
  <2> DEFINE row == CASE worker[w].result = "deferred" -> inbox[m]
                      [] worker[w].result = "error" ->
                           MarkConnectorEventFailed(inbox[m], worker[w].event.attempts)
                      [] OTHER -> MarkConnectorEventSucceeded(inbox[m],
                                                              worker[w].result = "superseded")
  <2>3. row \in InboxRow
    BY <1>1, <2>1, <2>2
  <2>4. inbox' = [inbox EXCEPT ![m] = row] \/ inbox' = inbox
    BY DEF markOutcome
  <2> HIDE DEF row
  <2> QED
    BY <1>1, <2>3, <2>4 DEF IInv, TypeOK
<1>4. worker' \in [Worker -> WorkerState] /\ \A v \in Worker : Keeps(v)
  BY LetsGo DEF markOutcome
<1>5. faults' \in 0 .. MaxFaults /\ crashes' \in 0 .. MaxCrashes
  BY BoundsType DEF IInv, markOutcome, FaultKind
<1>6. TypeOK'
  BY <1>3, <1>4, <1>5 DEF IInv, TypeOK, observed, markOutcome
<1> QED
  BY <1>4, <1>6, FrameStep DEF IInv, OneOpen, Open, Runs, observed, markOutcome

\* A claim is given back because the conversation is in flight.
LEMMA releaseStep ==
    ASSUME IInv, NEW w \in Worker, releaseToTheConversationInFlight(w)
    PROVE  IInv'
<1>1. message(w) \in Message
  BY DEF IInv, HasEvent, releaseToTheConversationInFlight, isOn
<1>2. ReleaseConnectorEventClaim(inbox[message(w)]) \in InboxRow
  BY <1>1, InboxRowType DEF IInv, TypeOK
<1>3. inbox' \in [Message -> InboxRow]
  BY <1>1, <1>2 DEF IInv, TypeOK, releaseToTheConversationInFlight
<1>4. worker' \in [Worker -> WorkerState] /\ \A v \in Worker : Keeps(v)
  BY LetsGo DEF releaseToTheConversationInFlight
<1>5. TypeOK'
  BY <1>3, <1>4 DEF IInv, TypeOK, observed, bounds, releaseToTheConversationInFlight
<1> QED
  BY <1>4, <1>5, FrameStep
     DEF IInv, OneOpen, Open, Runs, observed, releaseToTheConversationInFlight

\* An answer lets the waiting run go on; the worker that read it is done, or
\* goes on with the message.
LEMMA declineInThreadStep ==
    ASSUME IInv, NEW w \in Worker, NEW u \in Worker, declineInThread(w, u)
    PROVE  IInv'
<1>1. worker[u].pc \in Active
  BY DEF declineInThread, isOn, Active, InTurn
<1>2. afterWaiting(u) \in Places \ {"admitted"}
  BY DEF afterWaiting, Places, InTurn
<1>3. worker' \in [Worker -> WorkerState] /\ \A v \in Worker : Keeps(v)
  BY <1>1, <1>2, TurnMoves DEF declineInThread
<1>4. TypeOK'
  BY <1>3 DEF IInv, TypeOK, rows, observed, bounds, declineInThread
<1> QED
  BY <1>3, <1>4, FrameStep DEF IInv, OneOpen, Open, Runs, observed, declineInThread

LEMMA approveInThreadStep ==
    ASSUME IInv, NEW w \in Worker, NEW u \in Worker, approveInThread(w, u)
    PROVE  IInv'
<1> DEFINE s == [worker[u] EXCEPT !.pc = afterWaiting(u)]
<1>1. /\ worker[u].pc = "asking" /\ worker[w].pc = "picked" /\ w # u
      /\ message(w) \in Message
  BY DEF IInv, HasEvent, approveInThread, isOn
<1>2. worker[u] \in WorkerState /\ worker[w] \in WorkerState
  BY DEF IInv, TypeOK
<1>3. afterWaiting(u) \in {"relock", "resumed"} /\ afterWaiting(u) \in Places
  BY DEF afterWaiting, Places, InTurn
<1>4. s \in WorkerState /\ released(w) \in WorkerState
  BY <1>2, <1>3, WorkerMoves, IdleType
<1>5. s.pc \in {"relock", "resumed"} /\ s.event = worker[u].event
  BY <1>2, <1>3 DEF WorkerState
<1>6. released(w).pc = "idle"
  BY DEF released, Idle
<1>7. worker' = [worker EXCEPT ![w] = released(w), ![u] = s]
  BY <1>1 DEF IInv, TypeOK, approveInThread
<1> HIDE DEF s
<1>8. /\ worker' \in [Worker -> WorkerState]
      /\ worker'[w] = released(w) /\ worker'[u] = s
      /\ \A v \in Worker \ {w, u} : worker'[v] = worker[v]
  BY <1>1, <1>4, <1>7 DEF IInv, TypeOK
<1>9. \A v \in Worker : Keeps(v)
  BY <1>1, <1>5, <1>6, <1>8 DEF IInv, HasEvent, Keeps, isOn, message, Active, InTurn
<1>10. MarkConnectorEventSucceeded(inbox[message(w)], FALSE) \in InboxRow
  BY <1>1, InboxRowType DEF IInv, TypeOK
<1>11. TypeOK'
  BY <1>1, <1>8, <1>10 DEF IInv, TypeOK, observed, bounds, approveInThread
<1> QED
  BY <1>9, <1>11, FrameStep DEF IInv, OneOpen, Open, Runs, observed, approveInThread

\* A worker takes the next event of its burst, or of the burst it was lent for.
LEMMA nextClaimedEventStep ==
    ASSUME IInv, NEW w \in Worker, NEW u \in Worker, nextClaimedEvent(w, u)
    PROVE  IInv'
<1>1. worker[u] \in WorkerState /\ worker[w] \in WorkerState
  BY DEF IInv, TypeOK
<1>2. worker[u].claimed \in Seq(QueuedEvent) /\ worker[u].claimed # <<>>
  BY <1>1 DEF WorkerState, nextClaimedEvent
<1> DEFINE head == Head(worker[u].claimed)
           tail == Tail(worker[u].claimed)
<1>3. head \in QueuedEvent /\ tail \in Seq(QueuedEvent)
  BY <1>2, HeadTailProperties
<1> HIDE DEF head, tail
<1>4. worker' = [worker EXCEPT ![u].claimed = tail, ![w].event = head, ![w].pc = "picked"]
  BY DEF nextClaimedEvent, head, tail, IInv, TypeOK
<1>5. worker[w].pc = "idle"
  BY DEF nextClaimedEvent, isOn
<1>6. worker' \in [Worker -> WorkerState]
  <2> DEFINE a == [worker[u] EXCEPT !.claimed = tail]
             b == [worker[w] EXCEPT !.event = head, !.pc = "picked"]
             c == [worker[w] EXCEPT !.claimed = tail, !.event = head, !.pc = "picked"]
  <2>1. a \in WorkerState /\ b \in WorkerState /\ c \in WorkerState
    BY <1>1, <1>3 DEF WorkerState, Places
  <2>2. CASE u = w
    <3>1. worker' = [worker EXCEPT ![w] = c]
      BY <1>4, <2>2 DEF IInv, TypeOK
    <3> HIDE DEF c
    <3> QED
      BY <2>1, <3>1 DEF IInv, TypeOK
  <2>3. CASE u # w
    <3>1. worker' = [worker EXCEPT ![u] = a, ![w] = b]
      BY <1>4, <2>3 DEF IInv, TypeOK
    <3> HIDE DEF a, b
    <3> QED
      BY <2>1, <3>1 DEF IInv, TypeOK
  <2> QED
    BY <2>2, <2>3
<1>7. \A v \in Worker : Keeps(v)
  <2>1. worker'[w].pc = "picked" /\ worker'[w].event = head
    BY <1>1, <1>4 DEF IInv, TypeOK, WorkerState
  <2>2. \A v \in Worker \ {w} : worker'[v].pc = worker[v].pc /\ worker'[v].event = worker[v].event
    BY <1>1, <1>4 DEF IInv, TypeOK, WorkerState
  <2>3. head.message \in Message
    BY <1>3 DEF QueuedEvent
  <2> QED
    BY <2>1, <2>2, <2>3 DEF IInv, HasEvent, Keeps, isOn, message, Active, InTurn
<1>8. TypeOK'
  BY <1>6 DEF IInv, TypeOK, rows, observed, bounds, nextClaimedEvent
<1> QED
  BY <1>7, <1>8, FrameStep DEF IInv, OneOpen, Open, Runs, observed, nextClaimedEvent

\* A claim takes rows and fills the burst of an idle worker.
LEMMA ClaimStep ==
    ASSUME IInv, NEW w \in Worker, ClaimPendingConnectorEvents(w)
    PROVE  IInv'
<1>1. PICK queue \in Bursts :
        LET burst == {queue[i] : i \in DOMAIN queue} IN
        /\ IF \E m \in burst : isOverdue(m) THEN Fault("lease") ELSE UNCHANGED bounds
        /\ inbox' = [m \in Message |->
                       IF m \in burst
                       THEN [inbox[m] EXCEPT !.status = "running", !.attempts = @ + 1]
                       ELSE inbox[m]]
        /\ worker' = [worker EXCEPT ![w].claimed =
                        [i \in DOMAIN queue |-> [message |-> queue[i],
                                                 attempts |-> inbox[queue[i]].attempts + 1]]]
  BY DEF ClaimPendingConnectorEvents
<1>2. PICK n \in Nat : queue \in [1 .. n -> Message]
  BY ConnectorsAssumption DEF Bursts
<1> DEFINE claimed == [i \in 1 .. n |-> [message |-> queue[i],
                                         attempts |-> inbox[queue[i]].attempts + 1]]
<1>3. claimed \in Seq(QueuedEvent)
  <2>1. \A i \in 1 .. n : queue[i] \in Message /\ inbox[queue[i]].attempts + 1 \in Nat
    BY <1>2 DEF IInv, TypeOK, InboxRow
  <2>2. claimed \in [1 .. n -> QueuedEvent]
    BY <2>1 DEF QueuedEvent
  <2> HIDE DEF claimed
  <2> QED
    BY <2>2
<1>4. DOMAIN queue = 1 .. n
  BY <1>2
<1>5. worker' = [worker EXCEPT ![w].claimed = claimed]
  BY <1>1, <1>4
<1> HIDE DEF claimed
<1> DEFINE s == [worker[w] EXCEPT !.claimed = claimed]
<1>6. worker[w] \in WorkerState /\ worker[w].pc = "idle"
  BY DEF IInv, TypeOK, ClaimPendingConnectorEvents, isOn
<1>7. s \in WorkerState /\ s.pc = "idle"
  BY <1>3, <1>6 DEF WorkerState
<1>8. worker' = [worker EXCEPT ![w] = s]
  BY <1>5 DEF IInv, TypeOK
<1> HIDE DEF s
<1>9. worker' \in [Worker -> WorkerState] /\ \A v \in Worker : Keeps(v)
  BY <1>7, <1>8, WorkerStep
<1>10. inbox' \in [Message -> InboxRow]
  <2>1. \A m \in Message :
          [inbox[m] EXCEPT !.status = "running", !.attempts = @ + 1] \in InboxRow
    BY InboxRowType DEF IInv, TypeOK
  <2> QED
    BY <1>1, <2>1 DEF IInv, TypeOK
<1>11. faults' \in 0 .. MaxFaults /\ crashes' \in 0 .. MaxCrashes
  BY <1>1, BoundsType DEF IInv, FaultKind
<1>12. TypeOK'
  BY <1>9, <1>10, <1>11 DEF IInv, TypeOK, observed, ClaimPendingConnectorEvents
<1> QED
  BY <1>9, <1>12, FrameStep
     DEF IInv, OneOpen, Open, Runs, observed, ClaimPendingConnectorEvents

----------------------------------------------------------------------------
(* Steps of the outbox, of arrival and of a restart.                       *)

\* A step that leaves the workers alone keeps them as they are.
LEMMA WorkersRest ==
    ASSUME IInv, worker' = worker
    PROVE  worker' \in [Worker -> WorkerState] /\ \A v \in Worker : Keeps(v)
BY DEF IInv, TypeOK, HasEvent, Keeps, isOn, message

\* An outbox worker claims, suppresses, sends or marks a reply.
LEMMA replyStepStep ==
    ASSUME IInv, NEW m \in Message, replyStep(m)
    PROVE  IInv'
<1> DEFINE next == replied(store, m)
<1>1. worker' = worker /\ inbox' = inbox /\ restoring' = restoring /\ launches' = launches
  BY DEF replyStep, ClaimPendingConnectorReplies, suppressSupersededQueuedReply,
         sendQueuedReply, markQueuedReply, observed, rows
<1>2. outbox[m] \in OutboxRow /\ inbox[m] \in InboxRow
  BY DEF IInv, TypeOK
<1>3. /\ MarkConnectorReplySent(outbox[m]) \in OutboxRow
      /\ MarkConnectorReplyFailed(outbox[m]) \in OutboxRow
      /\ SuppressConnectorReply(outbox[m]) \in OutboxRow
      /\ [outbox[m] EXCEPT !.status = "running", !.attempts = @ + 1] \in OutboxRow
  BY <1>2, OutboxRowType
<1>4. \/ outbox' = outbox
      \/ \E reply \in OutboxRow : outbox' = [outbox EXCEPT ![m] = reply]
  <2>1. CASE ClaimPendingConnectorReplies(m)
    <3>1. outbox' = [outbox EXCEPT ![m] =
                       [outbox[m] EXCEPT !.status = "running", !.attempts = @ + 1]]
      BY <2>1 DEF ClaimPendingConnectorReplies, IInv, TypeOK
    <3> QED
      BY <1>3, <3>1
  <2>2. CASE suppressSupersededQueuedReply(m)
    BY <1>3, <2>2 DEF suppressSupersededQueuedReply
  <2>3. CASE sendQueuedReply(m)
    BY <2>3 DEF sendQueuedReply, rows
  <2>4. CASE markQueuedReply(m)
    <3>1. CASE sending[m] = "sent"
      BY <1>3, <2>4, <3>1 DEF markQueuedReply
    <3>2. CASE sending[m] # "sent"
      BY <1>3, <2>4, <3>2 DEF markQueuedReply
    <3> QED
      BY <3>1, <3>2
  <2> QED
    BY <2>1, <2>2, <2>3, <2>4 DEF replyStep
<1>5. outbox' \in [Message -> OutboxRow]
  BY <1>4 DEF IInv, TypeOK
<1>6. sending' \in [Message -> {"no", "claimed", "sent", "unsent"}]
  BY DEF replyStep, ClaimPendingConnectorReplies, suppressSupersededQueuedReply,
         sendQueuedReply, markQueuedReply, IInv, TypeOK
<1>7. delivered' \in [Message -> Nat]
  BY DEF replyStep, ClaimPendingConnectorReplies, suppressSupersededQueuedReply,
         sendQueuedReply, markQueuedReply, IInv, TypeOK, observed
<1>8. faults' \in 0 .. MaxFaults /\ crashes' \in 0 .. MaxCrashes
  <2>1. UNCHANGED bounds \/ Fault("send")
    BY DEF replyStep, ClaimPendingConnectorReplies, suppressSupersededQueuedReply,
           sendQueuedReply, markQueuedReply
  <2> QED
    BY <2>1, BoundsType DEF IInv, FaultKind
<1>9. store' = store \/ store' = next
  BY DEF replyStep, ClaimPendingConnectorReplies, suppressSupersededQueuedReply,
         sendQueuedReply, markQueuedReply
<1>10. /\ next \in Store /\ OneOpen(next)
       /\ \A k \in Message : Runs(store, k) => Runs(next, k)
  BY RepliedKeepsTheRunning DEF IInv, TypeOK
<1> HIDE DEF next
<1>11. /\ store' \in Store /\ OneOpen(store')
       /\ \A k \in Message : Runs(store, k) => Runs(store', k)
  BY <1>9, <1>10 DEF IInv, TypeOK
<1>12. TypeOK'
  BY <1>1, <1>5, <1>6, <1>7, <1>8, <1>11 DEF IInv, TypeOK
<1>13. OneOpen(store)' /\ \A k \in Message : Runs(store, k) => Runs(store, k)'
  BY <1>11 DEF OneOpen, Open, Runs
<1> QED
  BY <1>1, <1>12, <1>13, WorkersRest, FrameStep

\* A message arrives.
LEMMA enqueueInboundEventStep ==
    ASSUME IInv, NEW m \in Message, enqueueInboundEvent(m)
    PROVE  IInv'
<1> DEFINE e == prepare(store, m, {})
           next == register(store, m, e)
<1>1. e.messages \in SUBSET Message
  BY PreparePicksAnOpenOne DEF IInv, TypeOK
<1>2. /\ next \in Store /\ OneOpen(next)
      /\ \A k \in Message : Runs(store, k) => Runs(next, k)
  BY RegisterKeepsOneOpen DEF IInv, TypeOK
<1>3. store' = next /\ worker' = worker /\ launches' = launches
  BY DEF enqueueInboundEvent, observed
<1> HIDE DEF next
<1>4. inbox' = [suppressSupersededConnectorEvents(inbox, e.messages) EXCEPT
                  ![m] = [status |-> "pending", isSuperseded |-> FALSE,
                          attempts |-> 0, messages |-> e.messages]]
      /\ outbox' = suppressReplies(outbox, e.messages)
  BY DEF enqueueInboundEvent
<1> HIDE DEF e
<1>5. [status |-> "pending", isSuperseded |-> FALSE,
       attempts |-> 0, messages |-> e.messages] \in InboxRow
  BY <1>1 DEF InboxRow
<1>6. suppressSupersededConnectorEvents(inbox, e.messages) \in [Message -> InboxRow]
  <2>1. \A k \in Message :
          [inbox[k] EXCEPT !.status = "succeeded", !.isSuperseded = TRUE] \in InboxRow
    <3> TAKE k \in Message
    <3>1. inbox[k] \in InboxRow
      BY DEF IInv, TypeOK
    <3> QED
      BY <3>1 DEF InboxRow
  <2> QED
    BY <2>1 DEF IInv, TypeOK, suppressSupersededConnectorEvents
<1>7. outbox' \in [Message -> OutboxRow]
  <2>1. \A k \in Message : [outbox[k] EXCEPT !.status = "suppressed"] \in OutboxRow
    <3> TAKE k \in Message
    <3>1. outbox[k] \in OutboxRow
      BY DEF IInv, TypeOK
    <3> QED
      BY <3>1 DEF OutboxRow
  <2> QED
    BY <1>4, <2>1 DEF IInv, TypeOK, suppressReplies
<1>8. inbox' \in [Message -> InboxRow]
  BY <1>4, <1>5, <1>6
<1>9. TypeOK'
  BY <1>2, <1>3, <1>7, <1>8 DEF IInv, TypeOK, enqueueInboundEvent, observed, bounds
<1>10. OneOpen(store)' /\ \A k \in Message : Runs(store, k) => Runs(store, k)'
  BY <1>2, <1>3 DEF OneOpen, Open, Runs
<1> QED
  BY <1>3, <1>9, <1>10, WorkersRest, FrameStep

\* An unanswered event is registered again after a restart.
LEMMA restorePendingRequestStep ==
    ASSUME IInv, NEW m \in Message, restorePendingRequest(m)
    PROVE  IInv'
<1> DEFINE next == register(store, m, prepare(store, m, inbox[m].messages))
<1>1. inbox[m].messages \in SUBSET Message
  BY DEF IInv, TypeOK, InboxRow
<1>2. /\ next \in Store /\ OneOpen(next)
      /\ \A k \in Message : Runs(store, k) => Runs(next, k)
  BY <1>1, RegisterKeepsOneOpen DEF IInv, TypeOK
<1>3. store' = next /\ worker' = worker /\ launches' = launches
  BY DEF restorePendingRequest, observed
<1> HIDE DEF next
<1>4. TypeOK'
  BY <1>2, <1>3 DEF IInv, TypeOK, restorePendingRequest, rows, observed, bounds
<1>5. OneOpen(store)' /\ \A k \in Message : Runs(store, k) => Runs(store, k)'
  BY <1>2, <1>3 DEF OneOpen, Open, Runs
<1> QED
  BY <1>3, <1>4, <1>5, WorkersRest, FrameStep

\* An empty store has no open request.
LEMMA EmptyStore == newPendingRequestStore \in Store /\ OneOpen(newPendingRequestStore)
<1>1. newRequest({}, NoMessage) \in Request
  BY DEF newRequest, Request
<1> QED
  BY <1>1 DEF newPendingRequestStore, Store, OneOpen, Open

\* The daemon restarts: nobody works on anything.
LEMMA RestartStep ==
    ASSUME IInv, Restart
    PROVE  IInv'
<1>1. store' = newPendingRequestStore /\ launches' = launches
  BY DEF Restart, observed
<1>2. store' \in Store /\ OneOpen(store)'
  BY <1>1, EmptyStore DEF OneOpen, Open
<1>3. worker' \in [Worker -> WorkerState] /\ \A v \in Worker : worker'[v].pc = "idle"
  BY IdleType DEF Restart, Idle
<1>4. restoring' \subseteq Message
  BY DEF Restart, ListUnansweredConnectorEvents
<1>5. crashes' \in 0 .. MaxCrashes
  BY ConnectorsAssumption DEF Restart, IInv, TypeOK
<1>6. TypeOK'
  BY <1>2, <1>3, <1>4, <1>5 DEF IInv, TypeOK, Restart, rows, observed
<1> QED
  BY <1>1, <1>2, <1>3, <1>6 DEF IInv, HasEvent, ActiveRuns, ActiveAlone, NotLaunchedYet,
     OneRunPerMessage, isOn, Active, InTurn

----------------------------------------------------------------------------
(* The steps that begin, admit, launch, ask and finish.                    *)

\* A question is sent and the conversation handed on.
LEMMA askWhereTheyAreStep ==
    ASSUME IInv, NEW w \in Worker, askWhereTheyAre(w)
    PROVE  IInv'
<1> DEFINE next == replied(store, message(w))
<1>1. worker[w].pc \in Active /\ message(w) \in Message
  BY DEF IInv, HasEvent, askWhereTheyAre, isOn, Active, InTurn
<1>2. worker' \in [Worker -> WorkerState] /\ \A v \in Worker : Keeps(v)
  <2>1. CASE worker' = [worker EXCEPT ![w].pc = "asking"]
    BY <1>1, <2>1, TurnMoves DEF Places, InTurn
  <2>2. CASE worker' = [worker EXCEPT ![w].pc = "resumed"]
    BY <1>1, <2>2, TurnMoves DEF Places, InTurn
  <2> QED
    BY <2>1, <2>2 DEF askWhereTheyAre
<1>3. faults' \in 0 .. MaxFaults /\ crashes' \in 0 .. MaxCrashes
  BY BoundsType DEF IInv, askWhereTheyAre, FaultKind
<1>4. store' = store \/ store' = next
  BY DEF askWhereTheyAre
<1>5. /\ next \in Store /\ OneOpen(next)
      /\ \A k \in Message : Runs(store, k) => Runs(next, k)
  BY <1>1, RepliedKeepsTheRunning DEF IInv, TypeOK
<1> HIDE DEF next
<1>6. /\ store' \in Store /\ OneOpen(store')
      /\ \A k \in Message : Runs(store, k) => Runs(store', k)
  BY <1>4, <1>5 DEF IInv, TypeOK
<1>7. TypeOK'
  BY <1>2, <1>3, <1>6 DEF IInv, TypeOK, rows, observed, askWhereTheyAre
<1>8. OneOpen(store)' /\ \A k \in Message : Runs(store, k) => Runs(store, k)'
  BY <1>6 DEF OneOpen, Open, Runs
<1> QED
  BY <1>2, <1>7, <1>8, FrameStep DEF observed, askWhereTheyAre

\* A message is admitted only if it has started no task run.
LEMMA admitInboundTurnStep ==
    ASSUME IInv, NEW w \in Worker, admitInboundTurn(w)
    PROVE  IInv'
<1>1. worker[w].pc = "turn" /\ worker[w] \in WorkerState
  BY DEF IInv, TypeOK, admitInboundTurn, isOn
<1>2. store' = store /\ launches' = launches
  BY DEF admitInboundTurn, observed
<1>3. faults' \in 0 .. MaxFaults /\ crashes' \in 0 .. MaxCrashes
  BY BoundsType DEF IInv, admitInboundTurn, FaultKind
<1>4. CASE \E r \in {"succeeded", "error"} : endTurn(w, r)
  <2>1. worker' \in [Worker -> WorkerState] /\ \A v \in Worker : Keeps(v)
    BY <1>1, <1>4, TurnEnds DEF Results, Active, InTurn
  <2>2. TypeOK'
    BY <1>3, <2>1 DEF IInv, TypeOK, rows, observed, admitInboundTurn
  <2> QED
    BY <1>2, <2>1, <2>2, FrameStep DEF IInv, OneOpen, Open, Runs
<1>5. CASE launches[message(w)] = 0 /\ worker' = [worker EXCEPT ![w].pc = "admitted"]
  <2> DEFINE s == [worker[w] EXCEPT !.pc = "admitted"]
  <2>1. s \in WorkerState
    BY <1>1, WorkerMoves, Zenon DEF Places, InTurn
  <2>2. s.event = worker[w].event /\ s.pc = "admitted"
    BY <1>1 DEF WorkerState
  <2>3. worker' = [worker EXCEPT ![w] = s]
    BY <1>5 DEF IInv, TypeOK
  <2> HIDE DEF s
  <2>4. /\ worker' \in [Worker -> WorkerState] /\ worker'[w] = s
        /\ \A v \in Worker \ {w} : worker'[v] = worker[v]
    BY <2>1, <2>3 DEF IInv, TypeOK
  <2>5. TypeOK'
    BY <1>3, <2>4 DEF IInv, TypeOK, rows, observed, admitInboundTurn
  <2>6. HasEvent'
    BY <1>1, <2>2, <2>4 DEF IInv, HasEvent, isOn, message
  <2>7. \A v \in Worker : /\ worker'[v].event = worker[v].event
                          /\ worker'[v].pc \in Active => worker[v].pc \in Active
    BY <1>1, <2>2, <2>4 DEF Active, InTurn
  <2>8. ActiveRuns'
    BY <1>2, <2>7 DEF IInv, ActiveRuns, Runs, isOn, message
  <2>9. ActiveAlone'
    BY <2>7 DEF IInv, ActiveAlone, isOn, message
  <2>10. NotLaunchedYet'
    BY <1>2, <1>5, <2>2, <2>4 DEF IInv, NotLaunchedYet, isOn, message
  <2> QED
    BY <1>2, <2>5, <2>6, <2>8, <2>9, <2>10
       DEF IInv, OneOpen, Open, OneRunPerMessage
<1> QED
  BY <1>4, <1>5 DEF admitInboundTurn

\* The one worker that has admitted the message launches its task run.
LEMMA launchTurnStep ==
    ASSUME IInv, NEW w \in Worker, launchTurn(w)
    PROVE  IInv'
<1> DEFINE m == message(w)
<1>1. worker[w].pc = "admitted" /\ m \in Message
  BY DEF IInv, HasEvent, launchTurn, isOn
<1>2. worker' \in [Worker -> WorkerState] /\ \A v \in Worker : Keeps(v)
  BY <1>1, TurnMoves DEF launchTurn, Places, InTurn, Active
<1>3. launches' = [launches EXCEPT ![m] = @ + 1] /\ launches \in [Message -> Nat]
  BY DEF launchTurn, IInv, TypeOK
<1>4. launches[m] = 0
  BY <1>1 DEF IInv, NotLaunchedYet, isOn
<1>5. launches' \in [Message -> Nat] /\ launches'[m] = 1
      /\ \A k \in Message \ {m} : launches'[k] = launches[k]
  BY <1>1, <1>3, <1>4
<1>6. TypeOK'
  BY <1>2, <1>5 DEF IInv, TypeOK, rows, bounds, launchTurn
<1>7. store' = store
  BY DEF launchTurn
<1>8. worker'[w].pc = "launched" /\ \A v \in Worker \ {w} : worker'[v] = worker[v]
  BY DEF launchTurn, IInv, TypeOK, WorkerState
<1>9. HasEvent'
  BY <1>2 DEF HasEvent, Keeps, isOn, message
<1>10. ActiveRuns'
  BY <1>2, <1>7 DEF IInv, ActiveRuns, Runs, Keeps, isOn, message
<1>11. ActiveAlone'
  BY <1>2 DEF IInv, ActiveAlone, Keeps, isOn, message
<1>12. NotLaunchedYet'
  <2> SUFFICES ASSUME NEW v \in Worker, worker'[v].pc = "admitted"
               PROVE  launches'[worker'[v].event.message] = 0
    BY DEF NotLaunchedYet, isOn, message
  <2>1. v # w /\ worker[v].pc = "admitted" /\ worker'[v].event = worker[v].event
    BY <1>8
  <2>2. message(v) # m
    BY <1>1, <2>1 DEF IInv, ActiveAlone, isOn, Active, InTurn
  <2>3. message(v) \in Message /\ launches[message(v)] = 0
    BY <2>1 DEF IInv, HasEvent, NotLaunchedYet, isOn
  <2> QED
    BY <1>5, <2>1, <2>2, <2>3 DEF message
<1>13. OneRunPerMessage'
  BY <1>5 DEF IInv, OneRunPerMessage
<1> QED
  BY <1>6, <1>7, <1>9, <1>10, <1>11, <1>12, <1>13 DEF IInv, OneOpen, Open

\* begin starts a request only if nobody works on it.
LEMMA beginPendingRequestStep ==
    ASSUME IInv, NEW w \in Worker, beginPendingRequest(w)
    PROVE  IInv'
<1> DEFINE m == message(w)
           next == begin(store, m, inbox[m].messages)
           reason == beginReason(store, m, inbox[m].messages)
<1>1. worker[w].pc = "begin" /\ m \in Message /\ worker[w] \in WorkerState
  BY DEF IInv, TypeOK, HasEvent, beginPendingRequest, isOn
<1>2. inbox[m].messages \in SUBSET Message
  BY <1>1 DEF IInv, TypeOK, InboxRow
<1>3. /\ next \in Store /\ OneOpen(next)
      /\ \A k \in Message : Runs(store, k) => Runs(next, k)
      /\ reason = "started" => ~Runs(store, m) /\ Runs(next, m)
      /\ reason \in {"started", "superseded", "already_running"}
  <2>1. store \in Store /\ OneOpen(store)
    BY DEF IInv, TypeOK
  <2>2. m \in Message
    BY <1>1
  <2> HIDE DEF m
  <2> QED
    BY <1>2, <2>1, <2>2, BeginStartsOnce
<1> DEFINE p == IF reason = "started" THEN "waiting" ELSE "mark"
           a == IF reason = "started" THEN next.request[m].previous ELSE NoMessage
           r == CASE reason = "superseded" -> "superseded"
                  [] reason = "already_running" -> "deferred"
                  [] OTHER -> "none"
           s == [worker[w] EXCEPT !.pc = p, !.awaits = a, !.result = r]
<1>4. store' = next
  BY DEF beginPendingRequest
<1>5. worker' = [worker EXCEPT ![w] = s]
  BY <1>4 DEF beginPendingRequest, IInv, TypeOK
<1> HIDE DEF next, reason
<1>6. a \in Message \cup {NoMessage}
  BY <1>1, <1>3 DEF Store, Request
<1>7. p \in Places /\ r \in Results
  BY <1>3 DEF Places, Results
<1>8. p \in {"waiting", "mark"} /\ (p = "waiting" => reason = "started")
  OBVIOUS
<1> HIDE DEF p, a, r
<1>9. s \in WorkerState
  BY <1>1, <1>6, <1>7, WorkerEnds, Zenon
<1>10. s.event = worker[w].event /\ s.pc = p
  BY <1>1 DEF WorkerState
<1> HIDE DEF s
<1>11. /\ worker' \in [Worker -> WorkerState] /\ worker'[w] = s
       /\ \A v \in Worker \ {w} : worker'[v] = worker[v]
  BY <1>5, <1>9 DEF IInv, TypeOK
<1>12. TypeOK'
  BY <1>3, <1>4, <1>11 DEF IInv, TypeOK, rows, observed, bounds, beginPendingRequest
<1>13. OneOpen(store)' /\ \A k \in Message : Runs(store, k) => Runs(store, k)'
  BY <1>3, <1>4 DEF OneOpen, Open, Runs
<1>14. launches' = launches
  BY DEF beginPendingRequest, observed
<1>15. CASE p = "mark"
  <2>1. \A v \in Worker : Keeps(v)
    BY <1>1, <1>5, <1>9, <1>10, <1>15, WorkerStep DEF Active, InTurn
  <2> QED
    BY <1>12, <1>13, <1>14, <2>1, FrameStep
<1>16. CASE p = "waiting"
  <2>1. ~Runs(store, m) /\ Runs(store', m)
    BY <1>3, <1>4, <1>8, <1>16
  <2>2. \A v \in Worker : worker'[v].event = worker[v].event
    BY <1>10, <1>11
  <2>3. \A v \in Worker \ {w} : worker[v].pc \in Active => message(v) # m
    BY <2>1 DEF IInv, ActiveRuns, isOn
  <2>4. HasEvent'
    BY <1>1, <1>11, <2>2 DEF IInv, HasEvent, isOn, message
  <2>5. ActiveRuns'
    <3> SUFFICES ASSUME NEW v \in Worker, worker'[v].pc \in Active
                 PROVE  Runs(store', worker'[v].event.message)
      BY DEF ActiveRuns, isOn, message, Runs
    <3>1. CASE v = w
      BY <1>3, <1>4, <1>8, <1>16, <2>2, <3>1 DEF message
    <3>2. CASE v # w
      <4>1. worker[v].pc \in Active
        BY <1>11, <3>2
      <4>2. message(v) \in Message /\ Runs(store, message(v))
        BY <4>1 DEF IInv, HasEvent, ActiveRuns, isOn, Active, InTurn
      <4> QED
        BY <1>3, <1>4, <2>2, <4>2 DEF message
    <3> QED
      BY <3>1, <3>2
  <2>6. ActiveAlone'
    BY <1>11, <2>2, <2>3 DEF IInv, ActiveAlone, isOn, message
  <2>7. NotLaunchedYet'
    BY <1>10, <1>11, <1>14, <1>16 DEF IInv, NotLaunchedYet, isOn, message
  <2> QED
    BY <1>12, <1>13, <1>14, <2>4, <2>5, <2>6, <2>7 DEF IInv, OneRunPerMessage
<1> QED
  BY <1>8, <1>15, <1>16

\* finish stops the request of the one worker that runs it.
LEMMA finishPendingRequestStep ==
    ASSUME IInv, NEW w \in Worker, finishPendingRequest(w)
    PROVE  IInv'
<1> DEFINE m == message(w)
           next == finish(store, m)
           r == IF m \in store.superseded THEN "superseded" ELSE worker[w].result
           s == [worker[w] EXCEPT !.pc = "mark", !.result = r]
<1>1. worker[w].pc = "finish" /\ m \in Message /\ worker[w] \in WorkerState
  BY DEF IInv, TypeOK, HasEvent, finishPendingRequest, isOn
<1>2. /\ next \in Store /\ OneOpen(next)
      /\ \A k \in Message \ {m} : Runs(store, k) => Runs(next, k)
  BY <1>1, FinishStopsOne DEF IInv, TypeOK
<1>3. store' = next /\ launches' = launches
  BY DEF finishPendingRequest, observed
<1>4. worker' = [worker EXCEPT ![w] = s]
  BY DEF finishPendingRequest, IInv, TypeOK
<1> HIDE DEF next
<1>5. r \in Results /\ "mark" \in Places /\ NoMessage \in Message \cup {NoMessage}
  BY <1>1 DEF WorkerState, Results, Places
<1> HIDE DEF r
<1>6. s \in WorkerState
  BY <1>1, <1>5, WorkerEnds, Zenon
<1>7. s.event = worker[w].event /\ s.pc = "mark"
  BY <1>1 DEF WorkerState
<1> HIDE DEF s
<1>8. /\ worker' \in [Worker -> WorkerState] /\ worker'[w] = s
      /\ \A v \in Worker \ {w} : worker'[v] = worker[v]
  BY <1>4, <1>6 DEF IInv, TypeOK
<1>9. TypeOK'
  BY <1>2, <1>3, <1>8 DEF IInv, TypeOK, rows, observed, bounds, finishPendingRequest
<1>10. OneOpen(store)'
  BY <1>2, <1>3 DEF OneOpen, Open
<1>11. \A v \in Worker : worker'[v].pc \in Active =>
         v # w /\ worker[v].pc \in Active /\ worker'[v].event = worker[v].event
  BY <1>7, <1>8 DEF Active, InTurn
<1>12. HasEvent'
  BY <1>1, <1>7, <1>8 DEF IInv, HasEvent, isOn, message
<1>13. ActiveRuns'
  <2> SUFFICES ASSUME NEW v \in Worker, worker'[v].pc \in Active
               PROVE  Runs(store', worker'[v].event.message)
    BY DEF ActiveRuns, isOn, message, Runs
  <2>1. v # w /\ worker[v].pc \in Active /\ worker'[v].event = worker[v].event
    BY <1>11
  <2>2. message(v) \in Message /\ Runs(store, message(v))
    BY <2>1 DEF IInv, HasEvent, ActiveRuns, isOn, Active, InTurn
  <2>3. message(v) # m
    BY <1>1, <2>1 DEF IInv, ActiveAlone, isOn, Active
  <2> QED
    BY <1>2, <1>3, <2>1, <2>2, <2>3 DEF message
<1>14. ActiveAlone'
  BY <1>11 DEF IInv, ActiveAlone, isOn, message
<1>15. NotLaunchedYet'
  BY <1>3, <1>7, <1>8 DEF IInv, NotLaunchedYet, isOn, message
<1> QED
  BY <1>3, <1>9, <1>10, <1>12, <1>13, <1>14, <1>15 DEF IInv, OneRunPerMessage

----------------------------------------------------------------------------
LEMMA InitIInv == Init => IInv
<1> SUFFICES ASSUME Init PROVE IInv
  OBVIOUS
<1>1. TypeOK
  BY IdleType, EmptyStore, ConnectorsAssumption DEF Init, TypeOK, InboxRow, OutboxRow
<1>2. OneOpen(store)
  BY EmptyStore DEF Init
<1>3. \A w \in Worker : worker[w].pc = "idle"
  BY DEF Init, Idle
<1> QED
  BY <1>1, <1>2, <1>3 DEF IInv, HasEvent, ActiveRuns, ActiveAlone, NotLaunchedYet,
     OneRunPerMessage, Init, isOn, Active, InTurn

LEMMA NextIInv == IInv /\ [Next]_vars => IInv'
<1> SUFFICES ASSUME IInv, [Next]_vars PROVE IInv'
  OBVIOUS
<1>1. CASE UNCHANGED vars
  BY <1>1 DEF vars, observed, bounds, IInv, TypeOK, OneOpen, Open, HasEvent, ActiveRuns, Runs,
     ActiveAlone, NotLaunchedYet, OneRunPerMessage, isOn, message
<1>2. ASSUME NEW m \in Message, enqueueInboundEvent(m) PROVE IInv'
  BY <1>2, enqueueInboundEventStep
<1>3. ASSUME NEW w \in Worker, claimStep(w) PROVE IInv'
  BY <1>3, ClaimStep, nextClaimedEventStep, approveInThreadStep, declineInThreadStep,
     processOutsideLockStep, lockConversationStep, releaseStep DEF claimStep
<1>4. ASSUME NEW w \in Worker, turnStep(w) PROVE IInv'
  BY <1>4, beginPendingRequestStep, awaitPreviousStep, admitInboundTurnStep,
     settleWithoutLaunchStep, launchTurnStep, askWhereTheyAreStep, stopWaitingStep,
     relockConversationStep, endRunStep, enqueueConnectorReplyStep,
     finishPendingRequestStep, markOutcomeStep DEF turnStep
<1>5. ASSUME NEW m \in Message, replyStep(m) PROVE IInv'
  BY <1>5, replyStepStep
<1>6. ASSUME NEW m \in Message, restorePendingRequest(m) PROVE IInv'
  BY <1>6, restorePendingRequestStep
<1> QED
  BY <1>1, <1>2, <1>3, <1>4, <1>5, <1>6, RestartStep DEF Next

\* The invariant that ties the workers to the pending request store.
THEOREM Invariance == Spec => []IInv
BY InitIInv, NextIInv, PTL DEF Spec

\* The connector state keeps its types, whatever fails or restarts.
THEOREM TypeCorrect == Spec => []TypeOK
<1>1. IInv => TypeOK
  BY DEF IInv
<1> QED
  BY <1>1, Invariance, PTL

\* At most one request of a scope is open, so prepare never has a choice.
THEOREM OneRequestIsOpen == Spec => []OneOpenRequest
<1>1. IInv => OneOpenRequest
  BY DEF IInv, OneOpen, OneOpenRequest
<1> QED
  BY <1>1, Invariance, PTL

\* No message is in two turns at once, with any number of workers and claims
\* that outlive their leases.
THEOREM NoMessageTwiceAtOnce == Spec => []OneTurnPerMessage
<1>1. IInv => OneTurnPerMessage
  BY DEF IInv, ActiveAlone, OneTurnPerMessage, isOn, Active
<1> QED
  BY <1>1, Invariance, PTL

\* A message starts at most one task run, across retries and restarts.
THEOREM OneTaskRun == Spec => []OneRunPerMessage
<1>1. IInv => OneRunPerMessage
  BY DEF IInv
<1> QED
  BY <1>1, Invariance, PTL
=============================================================================

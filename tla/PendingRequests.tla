--------------------------- MODULE PendingRequests ---------------------------
(***************************************************************************)
(* pendingRequestStore: the in-memory record of the messages of one scope  *)
(* (one platform, conversation and sender) that have no reply yet.  A      *)
(* message that arrives while an earlier one is open supersedes it and     *)
(* carries it along in PreviousMessages, so both are read as one request.  *)
(*                                                                         *)
(* A store is a record                                                     *)
(*   requests    the keys of the map store.requests                        *)
(*   superseded  store.supersededReferences                                *)
(*   request     the request object of every message; an object that was   *)
(*               taken out of the map is kept here, because a later object *)
(*               may still reach it through its previous pointer           *)
(* Every operator is the body of one method, run under store.mutex.        *)
(* Messages are numbered in the order they arrived.                        *)
(***************************************************************************)
EXTENDS Naturals

CONSTANT Message       \* the messages of the scope, numbered by arrival

ASSUME MessageAssumption == Message \subseteq Nat \ {0}

NoMessage == 0         \* the nil *pendingRequest

Request == [messages : SUBSET Message, previous : Message \cup {NoMessage},
            isRunning : BOOLEAN, isFinished : BOOLEAN,
            isSuperseded : BOOLEAN, hasReply : BOOLEAN]

Store == [requests : SUBSET Message, superseded : SUBSET Message,
          request : [Message -> Request]]

newRequest(messages, previous) ==
    [messages |-> messages, previous |-> previous, isRunning |-> FALSE,
     isFinished |-> FALSE, isSuperseded |-> FALSE, hasReply |-> FALSE]

newPendingRequestStore ==
    [requests |-> {}, superseded |-> {},
     request |-> [m \in Message |-> newRequest({}, NoMessage)]]

\* The requests prepare may pick: no reply yet and nobody took them over.
Open(store) ==
    {m \in store.requests : /\ ~store.request[m].hasReply
                            /\ ~store.request[m].isSuperseded}

(***************************************************************************)
(* prepare ranges over a Go map and takes the first open request.  At most *)
(* one is open (OneOpenRequest), so the choice is not a choice.            *)
(***************************************************************************)
prepare(store, m, messages) ==
    IF m \in store.requests
    THEN [messages |-> store.request[m].messages, previous |-> NoMessage]
    ELSE IF Open(store) = {}
    THEN [messages |-> messages, previous |-> NoMessage]
    ELSE LET open == CHOOSE r \in Open(store) : TRUE IN
         [messages |-> IF messages = {}
                       THEN store.request[open].messages \cup {open}
                       ELSE messages,
          previous |-> open]

\* Mutant: the request taken over stays open beside the new one.
registerBeside(store, m, event) ==
    IF m \in store.requests THEN store
    ELSE [requests |-> store.requests \cup {m},
          superseded |-> store.superseded \cup event.messages,
          request |-> [store.request EXCEPT
                         ![m] = newRequest(event.messages, event.previous)]]

\* Mutant: a request that was never run is dropped with the chain behind it.
registerUnchained(store, m, event) ==
    LET r == event.previous
        isOver == r # NoMessage /\ ~store.request[r].isRunning
    IN  IF m \in store.requests THEN store
        ELSE [requests |-> (store.requests \cup {m}) \ (IF isOver THEN {r} ELSE {}),
              superseded |-> store.superseded \cup event.messages,
              request |-> [k \in Message |->
                  IF k = m THEN newRequest(event.messages, IF isOver THEN NoMessage ELSE r)
                  ELSE IF k = r THEN [store.request[k] EXCEPT !.isSuperseded = TRUE,
                                                             !.isFinished = isOver]
                  ELSE store.request[k]]]

(***************************************************************************)
(* register adds the request and takes over the previous one: marks it     *)
(* superseded, cancels it, and, if nobody is running it, finishes it and   *)
(* drops it from the map.                                                  *)
(***************************************************************************)
register(store, m, event) ==
    LET r == event.previous
        old == store.request[r]
        isOver == ~old.isRunning
        request == newRequest(event.messages, IF isOver THEN old.previous ELSE r)
    IN  IF m \in store.requests THEN store
        ELSE IF r = NoMessage
        THEN [requests |-> store.requests \cup {m},
              superseded |-> store.superseded \cup event.messages,
              request |-> [store.request EXCEPT
                             ![m] = newRequest(event.messages, NoMessage)]]
        ELSE [requests |-> (store.requests \cup {m}) \ (IF isOver THEN {r} ELSE {}),
              superseded |-> store.superseded \cup event.messages,
              request |-> [store.request EXCEPT
                             ![r].isSuperseded = TRUE, ![r].isFinished = isOver,
                             ![m] = request]]

\* begin, up to the point where it knows the request it was called for.
found(store, m, messages) ==
    IF m \in store.requests THEN store
    ELSE register(store, m, prepare(store, m, messages))

\* Mutant: a request that is running is started once more.
startReasonUnlessSuperseded(store, m) ==
    IF m \in store.superseded \/ store.request[m].isSuperseded THEN "superseded"
    ELSE "started"

startReason(store, m) ==
    IF m \in store.superseded \/ store.request[m].isSuperseded THEN "superseded"
    ELSE IF store.request[m].isRunning THEN "already_running"
    ELSE "started"

begin(store, m, messages) ==
    IF m \in store.superseded THEN store
    ELSE LET next == found(store, m, messages) IN
         IF startReason(next, m) = "started"
         THEN [next EXCEPT !.request[m].isFinished = FALSE,
                           !.request[m].isRunning = TRUE]
         ELSE next

beginReason(store, m, messages) ==
    IF m \in store.superseded THEN "superseded"
    ELSE startReason(found(store, m, messages), m)

finish(store, m) ==
    LET request == store.request[m] IN
    [store EXCEPT
       !.request[m].isRunning = FALSE, !.request[m].isFinished = TRUE,
       !.requests = IF request.isSuperseded \/ request.hasReply
                    THEN @ \ {m} ELSE @]

\* What pendingRequestReplySender records of a reply that was delivered.
replied(store, m) ==
    IF m \notin store.requests THEN store
    ELSE [store EXCEPT !.request[m].hasReply = TRUE,
                       !.requests = IF store.request[m].isFinished
                                    THEN @ \ {m} ELSE @]

=============================================================================

---------------------------- MODULE AuditPipeline ----------------------------
(***************************************************************************)
(* The audit pipeline of src/audit.  A service emits an event; the audit   *)
(* service that listens to it sends a message to SQS (queueAuditLog);      *)
(* AuditConsumer receives it, inserts a row into the audits table and lets *)
(* SQS delete the message.  A message that was received too often without  *)
(* being deleted becomes a dead letter, and AuditDlqService inspects the   *)
(* dead letters and replays them.                                          *)
(*                                                                         *)
(* The queues are external and modelled as SQS standard queues: no order,  *)
(* a received message is hidden until it is deleted or its visibility      *)
(* timeout ends, and a receipt is valid until the message is received      *)
(* again.  Retention is left out: a message stays until it is deleted.     *)
(***************************************************************************)
EXTENDS Naturals, FiniteSets

CONSTANTS
  Events,         \* what services emit, one element per occurrence
  ForeignBodies,  \* bodies of other programs' messages, no AuditJobPayload
  Messages,       \* bound: the message ids that SQS can give
  Consumers,      \* running instances of the application, each polls the queue
  Requests,       \* requests to the DLQ endpoints that can be in progress at once
  MaxMessagesInputs,  \* maxMessages that clients send
  ReceiveLimit,   \* the most messages of one ReceiveMessage (10)
  MaxReceives,    \* redrive policy of the queue
  Faults,         \* what may go wrong, a subset of FaultKinds
  None

\* A failing INSERT, a failing SQS call, a stop of the process, and a handler
\* or replay that takes longer than the visibility timeout.
FaultKinds == {"database", "queue", "crash", "slow"}

Bodies == Events \union ForeignBodies

ASSUME AuditAssumption ==
  /\ Events \intersect ForeignBodies = {}
  /\ MaxMessagesInputs \subseteq Nat
  /\ ReceiveLimit \in Nat \ {0}
  /\ MaxReceives \in Nat \ {0}
  /\ Faults \subseteq FaultKinds

VARIABLES
  emitted,      \* the events that have occurred
  sending,      \* queueAuditLog calls in progress
  queue,        \* the queue; None where no message has the id
  deadLetters,  \* the dead-letter queue
  used,         \* the ids that SQS has given
  consumer,     \* what each consumer is doing
  replay,       \* what each replay request is doing
  audits,       \* the audits table: how many rows each body has
  accepted      \* history: the events that the queue has accepted

vars == <<emitted, sending, queue, deadLetters, used, consumer, replay, audits, accepted>>

----------------------------------------------------------------------------
(***************************************************************************)
(* Messages, consumers and replays.                                        *)
(***************************************************************************)

\* receiver has the valid receipt.
Message ==
  [body : Bodies, visible : BOOLEAN, receives : 0 .. MaxReceives,
   receiver : Consumers \union {None}]

Letter == [body : Bodies, visible : BOOLEAN, receiver : Requests \union {None}]

\* A message in the memory of a consumer or of a replay.
Copy == [message : Messages, body : Bodies]

Consumer == [pc : {"poll", "handle", "saved"}, copy : Copy \union {None}]

\* todo is the rest of selectedMessages; current has been sent, not deleted.
Replay ==
  [pc : {"idle", "send", "delete"}, todo : SUBSET Copy, current : Copy \union {None}]

Polling == [pc |-> "poll", copy |-> None]
Idle == [pc |-> "idle", todo |-> {}, current |-> None]

ASSUME NoneAssumption ==
  None \notin Message \union Letter \union Copy \union Consumers \union Requests

NewMessage(body) == [body |-> body, visible |-> TRUE, receives |-> 0, receiver |-> None]

\* What parsePayload and tryParsePayload accept: JSON with an action and an
\* entity.  The mutant accepts anything.
AnyBody(body) == TRUE
IsPayload(body) == body \in Events

ValidReceipt(message, receiver) == message # None /\ message.receiver = receiver

Init ==
  /\ emitted = {}
  /\ sending = {}
  /\ queue = [m \in Messages |-> None]
  /\ deadLetters = [m \in Messages |-> None]
  /\ used = {}
  /\ consumer = [c \in Consumers |-> Polling]
  /\ replay = [r \in Requests |-> Idle]
  /\ audits = [b \in Bodies |-> 0]
  /\ accepted = {}

----------------------------------------------------------------------------
(***************************************************************************)
(* From the event to the queue.                                            *)
(***************************************************************************)

\* The service has done its work and calls eventEmitter.emit; the listener
\* runs up to the send, and the service does not wait for it.
Emit(e) ==
  /\ e \notin emitted
  /\ emitted' = emitted \union {e}
  /\ sending' = sending \union {e}
  /\ UNCHANGED <<queue, deadLetters, used, consumer, replay, audits, accepted>>

\* Bound: a call that sends starts only while there are ids left for it and for
\* the replays in progress.
IdsLeft(n) ==
  Cardinality(Messages \ used) >=
    n + Cardinality(UNION {{r} \X replay[r].todo : r \in Requests})

Enqueue(m, body) ==
  /\ m \notin used
  /\ used' = used \union {m}
  /\ queue' = [queue EXCEPT ![m] = NewMessage(body)]

QueueAuditLog(e, m) ==
  /\ e \in sending
  /\ IdsLeft(1)
  /\ Enqueue(m, e)
  /\ sending' = sending \ {e}
  /\ accepted' = accepted \union {e}
  /\ UNCHANGED <<emitted, deadLetters, consumer, replay, audits>>

\* The send rejects: the error is logged and the event is gone.
SwallowSendError(e) ==
  /\ "queue" \in Faults
  /\ e \in sending
  /\ sending' = sending \ {e}
  /\ UNCHANGED <<emitted, queue, deadLetters, used, consumer, replay, audits, accepted>>

ForeignSend(b, m) ==
  /\ \A n \in Messages : queue[n] # None => queue[n].body # b
  /\ \A n \in Messages : deadLetters[n] # None => deadLetters[n].body # b
  /\ IdsLeft(1)
  /\ Enqueue(m, b)
  /\ UNCHANGED <<emitted, sending, deadLetters, consumer, replay, audits, accepted>>

----------------------------------------------------------------------------
(***************************************************************************)
(* AuditConsumer and the polling loop around it.                           *)
(***************************************************************************)

Handles(c, m) == consumer[c].pc # "poll" /\ consumer[c].copy.message = m

ReceiveMessage(c, m) ==
  /\ consumer[c].pc = "poll"
  /\ queue[m] # None
  /\ queue[m].visible
  /\ queue[m].receives < MaxReceives
  /\ queue' = [queue EXCEPT ![m] =
       [queue[m] EXCEPT !.visible = FALSE, !.receives = queue[m].receives + 1, !.receiver = c]]
  /\ consumer' = [consumer EXCEPT ![c] =
       [pc |-> "handle", copy |-> [message |-> m, body |-> queue[m].body]]]
  /\ UNCHANGED <<emitted, sending, deadLetters, used, replay, audits, accepted>>

\* persistAuditLog: one INSERT with a new id, whatever was stored before.
HandleMessage(c) ==
  LET body == consumer[c].copy.body IN
  /\ consumer[c].pc = "handle"
  /\ IsPayload(body)
  /\ audits' = [audits EXCEPT ![body] = @ + 1]
  /\ consumer' = [consumer EXCEPT ![c].pc = "saved"]
  /\ UNCHANGED <<emitted, sending, queue, deadLetters, used, replay, accepted>>

\* handleMessage throws: the message stays where it is.
FailMessage(c) ==
  /\ consumer[c].pc = "handle"
  /\ ~IsPayload(consumer[c].copy.body) \/ "database" \in Faults
  /\ consumer' = [consumer EXCEPT ![c] = Polling]
  /\ UNCHANGED <<emitted, sending, queue, deadLetters, used, replay, audits, accepted>>

\* handleMessage has returned.  The mutant acknowledges before it has.
Received(c) == consumer[c].pc \in {"handle", "saved"}
Handled(c) == consumer[c].pc = "saved"

\* With an old receipt, the message may or may not be deleted.
DeleteMessage(c) ==
  LET m == consumer[c].copy.message IN
  /\ Handled(c)
  /\ \/ queue' = [queue EXCEPT ![m] = None]
     \/ ~ValidReceipt(queue[m], c) /\ queue' = queue
  /\ consumer' = [consumer EXCEPT ![c] = Polling]
  /\ UNCHANGED <<emitted, sending, deadLetters, used, replay, audits, accepted>>

FailDelete(c) ==
  /\ "queue" \in Faults
  /\ Handled(c)
  /\ consumer' = [consumer EXCEPT ![c] = Polling]
  /\ UNCHANGED <<emitted, sending, queue, deadLetters, used, replay, audits, accepted>>

EndVisibilityTimeout(m) ==
  /\ queue[m] # None
  /\ ~queue[m].visible
  /\ "slow" \in Faults \/ \A c \in Consumers : ~Handles(c, m)
  /\ queue' = [queue EXCEPT ![m] = [queue[m] EXCEPT !.visible = TRUE]]
  /\ UNCHANGED <<emitted, sending, deadLetters, used, consumer, replay, audits, accepted>>

Redrive(m) ==
  /\ queue[m] # None
  /\ queue[m].visible
  /\ queue[m].receives = MaxReceives
  /\ deadLetters' = [deadLetters EXCEPT ![m] =
       [body |-> queue[m].body, visible |-> TRUE, receiver |-> None]]
  /\ queue' = [queue EXCEPT ![m] = None]
  /\ UNCHANGED <<emitted, sending, used, consumer, replay, audits, accepted>>

----------------------------------------------------------------------------
(***************************************************************************)
(* AuditDlqService.                                                        *)
(***************************************************************************)

\* Math.min(Math.max(maxMessages, 1), 10)
BatchSize(maxMessages) ==
  IF maxMessages < 1 THEN 1 ELSE IF maxMessages > ReceiveLimit THEN ReceiveLimit ELSE maxMessages

\* What receiveDlqMessages may return.
Batches(maxMessages) ==
  {S \in SUBSET {m \in Messages : deadLetters[m] # None /\ deadLetters[m].visible} :
     Cardinality(S) <= BatchSize(maxMessages)}

\* Request r has received dead letter m.  The mutant asks for no visibility
\* timeout.
LeftVisible(r, m) == [deadLetters[m] EXCEPT !.receiver = r]
Hidden(r, m) == [deadLetters[m] EXCEPT !.visible = FALSE, !.receiver = r]

ReceiveBatch(r, S) ==
  deadLetters' = [m \in Messages |-> IF m \in S THEN Hidden(r, m) ELSE deadLetters[m]]

\* It answers with the messages, which stay hidden for 30 seconds.
Inspect(r) ==
  /\ replay[r].pc = "idle"
  /\ \E n \in MaxMessagesInputs : \E S \in Batches(n) : ReceiveBatch(r, S)
  /\ UNCHANGED <<emitted, sending, queue, used, consumer, replay, audits, accepted>>

\* messageIds selects from the batch, unless it is empty.
ReplaySequentially(r) ==
  /\ replay[r].pc = "idle"
  /\ \E n \in MaxMessagesInputs, messageIds \in SUBSET Messages : \E S \in Batches(n) :
       LET selected == IF messageIds = {} THEN S ELSE S \intersect messageIds IN
       /\ selected # {}
       /\ IdsLeft(Cardinality(selected))
       /\ ReceiveBatch(r, S)
       /\ replay' = [replay EXCEPT ![r] =
            [pc |-> "send", current |-> None,
             todo |-> {[message |-> m, body |-> deadLetters[m].body] : m \in selected}]]
  /\ UNCHANGED <<emitted, sending, queue, used, consumer, audits, accepted>>

\* The messages came in no particular order, so the next one is any of todo.
ReplaySend(r, copy, m) ==
  /\ replay[r].pc = "send"
  /\ copy \in replay[r].todo
  /\ IsPayload(copy.body)
  /\ Enqueue(m, copy.body)
  /\ replay' = [replay EXCEPT ![r] = [pc |-> "delete", todo |-> replay[r].todo, current |-> copy]]
  /\ UNCHANGED <<emitted, sending, deadLetters, consumer, audits, accepted>>

ReplayDelete(r) ==
  LET copy == replay[r].current
      rest == replay[r].todo \ {copy}
      m == copy.message
  IN
  /\ replay[r].pc = "delete"
  /\ \/ deadLetters' = [deadLetters EXCEPT ![m] = None]
     \/ ~ValidReceipt(deadLetters[m], r) /\ deadLetters' = deadLetters
  /\ replay' = [replay EXCEPT ![r] =
       IF rest = {} THEN Idle ELSE [pc |-> "send", todo |-> rest, current |-> None]]
  /\ UNCHANGED <<emitted, sending, queue, used, consumer, audits, accepted>>

\* The replay stops at the first failure and skips the rest.
ReplayStop(r) ==
  /\ \/ replay[r].pc = "send" /\ \E copy \in replay[r].todo : ~IsPayload(copy.body)
     \/ replay[r].pc # "idle" /\ "queue" \in Faults
  /\ replay' = [replay EXCEPT ![r] = Idle]
  /\ UNCHANGED <<emitted, sending, queue, deadLetters, used, consumer, audits, accepted>>

Replays(r, m) == \E copy \in replay[r].todo : copy.message = m

EndLetterTimeout(m) ==
  /\ deadLetters[m] # None
  /\ ~deadLetters[m].visible
  /\ "slow" \in Faults \/ \A r \in Requests : ~Replays(r, m)
  /\ deadLetters' = [deadLetters EXCEPT ![m] = [deadLetters[m] EXCEPT !.visible = TRUE]]
  /\ UNCHANGED <<emitted, sending, queue, used, consumer, replay, audits, accepted>>

\* The application stops and is started again: what was in memory is gone.
Crash ==
  /\ "crash" \in Faults
  /\ sending' = {}
  /\ consumer' = [c \in Consumers |-> Polling]
  /\ replay' = [r \in Requests |-> Idle]
  /\ UNCHANGED <<emitted, queue, deadLetters, used, audits, accepted>>

----------------------------------------------------------------------------
SendStep(e) == (\E m \in Messages : QueueAuditLog(e, m)) \/ SwallowSendError(e)

ConsumerStep(c) ==
  \/ \E m \in Messages : ReceiveMessage(c, m)
  \/ HandleMessage(c)
  \/ FailMessage(c)
  \/ DeleteMessage(c)
  \/ FailDelete(c)

QueueStep(m) == EndVisibilityTimeout(m) \/ Redrive(m) \/ EndLetterTimeout(m)

ReplayStep(r) ==
  \/ \E copy \in replay[r].todo, m \in Messages : ReplaySend(r, copy, m)
  \/ ReplayDelete(r)
  \/ ReplayStop(r)

Next ==
  \/ \E e \in Events : Emit(e) \/ SendStep(e)
  \/ \E b \in ForeignBodies, m \in Messages : ForeignSend(b, m)
  \/ \E c \in Consumers : ConsumerStep(c)
  \/ \E m \in Messages : QueueStep(m)
  \/ \E r \in Requests : Inspect(r) \/ ReplaySequentially(r) \/ ReplayStep(r)
  \/ Crash

Spec == Init /\ [][Next]_vars

\* The event loop, the polling loop and SQS go on; nothing has to be emitted,
\* inspected or replayed.
Fairness ==
  /\ \A e \in Events : WF_vars(SendStep(e))
  /\ \A c \in Consumers : WF_vars(ConsumerStep(c))
  /\ \A m \in Messages : WF_vars(QueueStep(m))
  /\ \A r \in Requests : WF_vars(ReplayStep(r))

FairSpec == Spec /\ Fairness

----------------------------------------------------------------------------
(***************************************************************************)
(* Properties.                                                             *)
(***************************************************************************)

\* Messages, consumers and replays have the shape that SQS and the services
\* give them, and every row of the audits table is a payload.
TypeOK ==
  /\ emitted \subseteq Events
  /\ sending \subseteq emitted
  /\ queue \in [Messages -> Message \union {None}]
  /\ deadLetters \in [Messages -> Letter \union {None}]
  /\ used \subseteq Messages
  /\ consumer \in [Consumers -> Consumer]
  /\ replay \in [Requests -> Replay]
  /\ audits \in [Bodies -> Nat]
  /\ \A b \in ForeignBodies : audits[b] = 0
  /\ accepted \subseteq emitted

\* As long as only inserts fail, each of them whole, no event is audited twice: not by the
\* retries of the queue, and not by replays that overlap with each other and
\* with inspections (persistAuditLog, replaySequentially).
AuditedAtMostOnce == \A e \in Events : audits[e] <= 1

\* An event that the queue has accepted is audited or becomes a dead letter,
\* however often its inserts fail (handleMessage and the redrive policy).
AcceptedEventsSettle ==
  \A e \in Events : e \in accepted ~> audits[e] > 0 \/ \E m \in Messages :
    deadLetters[m] # None /\ deadLetters[m].body = e

(***************************************************************************)
(* At-least-once delivery: see AuditDelivery.                              *)
(***************************************************************************)
Holds(m, e) ==
  (queue[m] # None /\ queue[m].body = e) \/ (deadLetters[m] # None /\ deadLetters[m].body = e)

Delivery == INSTANCE AuditDelivery WITH
  held <- {e \in Events : \E m \in Messages : Holds(m, e)},
  audited <- {e \in Events : audits[e] > 0}

\* No retry, redrive, replay, crash or timeout loses an accepted event.
ImplementsDelivery == Delivery!Spec
=============================================================================

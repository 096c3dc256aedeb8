------------------------- MODULE AuditPipelineProofs -------------------------
(***************************************************************************)
(* Theorems about AuditPipeline, for every number of events, messages,     *)
(* instances and requests, and every set of faults.                        *)
(***************************************************************************)
EXTENDS AuditPipeline, TLAPS

\* A consumer that is not polling and a replay that is to delete have a copy.
InOrder ==
  /\ \A c \in Consumers : consumer[c].pc # "poll" => consumer[c].copy \in Copy
  /\ \A r \in Requests : replay[r].pc = "delete" => replay[r].current \in Copy

TypeInv == TypeOK /\ InOrder

LEMMA PollingType == Polling \in Consumer /\ Polling.pc = "poll"
BY DEF Polling, Consumer

LEMMA IdleType == Idle \in Replay /\ Idle.pc = "idle" /\ Idle.todo = {}
BY DEF Idle, Replay

LEMMA NewMessageType ==
  ASSUME NEW b \in Bodies
  PROVE  NewMessage(b) \in Message /\ NewMessage(b) # None /\ NewMessage(b).body = b
<1>1. NewMessage(b) \in Message
  BY AuditAssumption DEF NewMessage, Message
<1>2. QED
  BY <1>1, NoneAssumption DEF NewMessage

LEMMA EnqueueType ==
  ASSUME TypeOK, NEW m \in Messages, NEW b \in Bodies, Enqueue(m, b)
  PROVE  queue' \in [Messages -> Message \union {None}] /\ used' \subseteq Messages
BY NewMessageType DEF TypeOK, Enqueue

LEMMA ReceiveType ==
  ASSUME TypeOK, NEW m \in Messages, NEW c \in Consumers, ReceiveMessage(c, m)
  PROVE  /\ queue' \in [Messages -> Message \union {None}]
         /\ consumer' \in [Consumers -> Consumer]
         /\ consumer'[c].copy \in Copy
<1>1. PICK q, copy, p :
        /\ q = queue[m]
        /\ copy = [message |-> m, body |-> q.body]
        /\ p = [q EXCEPT !.visible = FALSE, !.receives = q.receives + 1, !.receiver = c]
        /\ queue' = [queue EXCEPT ![m] = p]
        /\ consumer' = [consumer EXCEPT ![c] = [pc |-> "handle", copy |-> copy]]
  BY DEF ReceiveMessage
<1>2. q \in Message /\ q.receives + 1 \in 0 .. MaxReceives
  BY <1>1, AuditAssumption DEF ReceiveMessage, TypeOK, Message
<1>3. p \in Message
  BY <1>1, <1>2 DEF Message
<1>4. copy \in Copy
  BY <1>1, <1>2 DEF Copy, Message
<1>5. QED
  BY <1>1, <1>3, <1>4 DEF TypeOK, Consumer

LEMMA HiddenType ==
  ASSUME TypeOK, NEW r \in Requests, NEW m \in Messages, deadLetters[m] # None
  PROVE  /\ Hidden(r, m) \in Letter /\ Hidden(r, m) # None
         /\ Hidden(r, m).body = deadLetters[m].body
<1>1. PICK l : l = deadLetters[m]
  OBVIOUS
<1>2. l \in Letter
  BY <1>1 DEF TypeOK
<1>3. [l EXCEPT !.visible = FALSE, !.receiver = r] \in Letter
  BY <1>2 DEF Letter
<1>4. [l EXCEPT !.visible = FALSE, !.receiver = r].body = l.body
  BY <1>2 DEF Letter
<1>5. QED
  BY <1>1, <1>3, <1>4, NoneAssumption DEF Hidden

\* ReceiveMessage on the dead-letter queue hides letters, and that is all.
LEMMA BatchLetters ==
  ASSUME TypeOK, NEW r \in Requests, NEW n \in Nat, NEW S \in Batches(n), ReceiveBatch(r, S)
  PROVE  /\ deadLetters' \in [Messages -> Letter \union {None}]
         /\ \A m \in Messages :
              /\ (deadLetters'[m] = None) <=> (deadLetters[m] = None)
              /\ deadLetters[m] # None => deadLetters'[m].body = deadLetters[m].body
<1>1. S \subseteq Messages /\ \A m \in S : deadLetters[m] # None
  BY DEF Batches
<1>2. \A m \in Messages : deadLetters'[m] = IF m \in S THEN Hidden(r, m) ELSE deadLetters[m]
  BY DEF ReceiveBatch
<1>3. deadLetters' \in [Messages -> Letter \union {None}]
  BY <1>1, HiddenType DEF ReceiveBatch, TypeOK
<1>4. QED
  BY <1>1, <1>2, <1>3, HiddenType

LEMMA ReplayTodoType ==
  ASSUME TypeOK, NEW S \in SUBSET Messages, \A m \in S : deadLetters[m] # None
  PROVE  {[message |-> m, body |-> deadLetters[m].body] : m \in S} \in SUBSET Copy
BY DEF TypeOK, Letter, Copy

LEMMA InitTypeInv == Init => TypeInv
BY PollingType, IdleType DEF Init, TypeInv, TypeOK, InOrder, Bodies

LEMMA StepTypeInv == TypeInv /\ [Next]_vars => TypeInv'
<1> SUFFICES ASSUME TypeInv, [Next]_vars
             PROVE  TypeInv'
  OBVIOUS
<1> USE DEF TypeInv
<1>1. ASSUME NEW e \in Events, Emit(e)
      PROVE  TypeInv'
  BY <1>1 DEF Emit, TypeOK, InOrder
<1>2. ASSUME NEW e \in Events, NEW m \in Messages, QueueAuditLog(e, m)
      PROVE  TypeInv'
  BY <1>2, EnqueueType DEF QueueAuditLog, TypeOK, InOrder, Bodies
<1>3. ASSUME NEW e \in Events, SwallowSendError(e)
      PROVE  TypeInv'
  BY <1>3 DEF SwallowSendError, TypeOK, InOrder
<1>4. ASSUME NEW b \in ForeignBodies, NEW m \in Messages, ForeignSend(b, m)
      PROVE  TypeInv'
  BY <1>4, EnqueueType DEF ForeignSend, TypeOK, InOrder, Bodies
<1>5. ASSUME NEW c \in Consumers, NEW m \in Messages, ReceiveMessage(c, m)
      PROVE  TypeInv'
  <2>1. \A d \in Consumers \ {c} : consumer'[d] = consumer[d]
    BY <1>5 DEF ReceiveMessage
  <2>2. QED
    BY <1>5, <2>1, ReceiveType DEF ReceiveMessage, TypeOK, InOrder
<1>6. ASSUME NEW c \in Consumers, HandleMessage(c)
      PROVE  TypeInv'
  <2>1. consumer[c].copy.body \in Events /\ consumer[c].copy \in Copy
    BY <1>6 DEF HandleMessage, IsPayload, InOrder
  <2>2. audits' \in [Bodies -> Nat] /\ \A b \in ForeignBodies : audits'[b] = 0
    BY <1>6, <2>1, AuditAssumption DEF HandleMessage, TypeOK, Bodies
  <2>3. PICK q, p : q = consumer[c] /\ p = [q EXCEPT !.pc = "saved"] /\ consumer' = [consumer EXCEPT ![c] = p]
    BY <1>6 DEF HandleMessage
  <2>4. p \in Consumer /\ p.copy = q.copy
    BY <2>3 DEF TypeOK, Consumer
  <2>5. QED
    BY <1>6, <2>1, <2>2, <2>3, <2>4 DEF HandleMessage, TypeOK, InOrder
<1>7. ASSUME NEW c \in Consumers, FailMessage(c) \/ DeleteMessage(c) \/ FailDelete(c)
      PROVE  TypeInv'
  <2>1. consumer' = [consumer EXCEPT ![c] = Polling] /\ (queue' = queue \/ \E m : queue' = [queue EXCEPT ![m] = None])
    BY <1>7 DEF FailMessage, DeleteMessage, FailDelete
  <2>2. QED
    BY <1>7, <2>1, PollingType DEF FailMessage, DeleteMessage, FailDelete, TypeOK, InOrder
<1>8. ASSUME NEW m \in Messages, EndVisibilityTimeout(m)
      PROVE  TypeInv'
  <2>1. PICK q, p : q = queue[m] /\ p = [q EXCEPT !.visible = TRUE] /\ queue' = [queue EXCEPT ![m] = p]
    BY <1>8 DEF EndVisibilityTimeout
  <2>2. q \in Message
    BY <1>8, <2>1 DEF EndVisibilityTimeout, TypeOK
  <2>3. p \in Message
    BY <2>1, <2>2 DEF Message
  <2>4. QED
    BY <1>8, <2>1, <2>3 DEF EndVisibilityTimeout, TypeOK, InOrder
<1>9. ASSUME NEW m \in Messages, Redrive(m)
      PROVE  TypeInv'
  BY <1>9 DEF Redrive, TypeOK, InOrder, Letter, Message
<1>10. ASSUME NEW r \in Requests, Inspect(r)
       PROVE  TypeInv'
  BY <1>10, BatchLetters, AuditAssumption DEF Inspect, TypeOK, InOrder
<1>11. ASSUME NEW r \in Requests, ReplaySequentially(r)
       PROVE  TypeInv'
  <2> DEFINE Copies(T) == {[message |-> m, body |-> deadLetters[m].body] : m \in T}
  <2>1. PICK n \in MaxMessagesInputs : \E S \in Batches(n), T \in SUBSET Messages :
          /\ T \subseteq S
          /\ ReceiveBatch(r, S)
          /\ replay' = [replay EXCEPT ![r] = [pc |-> "send", current |-> None, todo |-> Copies(T)]]
    BY <1>11 DEF ReplaySequentially, Batches
  <2>2. PICK S \in Batches(n), T \in SUBSET Messages :
          /\ T \subseteq S
          /\ ReceiveBatch(r, S)
          /\ replay' = [replay EXCEPT ![r] = [pc |-> "send", current |-> None, todo |-> Copies(T)]]
    BY <2>1
  <2>3. Copies(T) \in SUBSET Copy
    BY <2>2, ReplayTodoType DEF Batches
  <2>4. deadLetters' \in [Messages -> Letter \union {None}]
    BY <2>2, BatchLetters, AuditAssumption
  <2> HIDE DEF Copies
  <2>5. QED
    BY <1>11, <2>2, <2>3, <2>4 DEF ReplaySequentially, TypeOK, InOrder, Replay
<1>12. ASSUME NEW r \in Requests, NEW copy \in replay[r].todo, NEW m \in Messages, ReplaySend(r, copy, m)
       PROVE  TypeInv'
  <2>1. copy \in Copy /\ copy.body \in Bodies /\ replay[r].todo \in SUBSET Copy
    BY DEF TypeOK, Replay, Copy
  <2>2. queue' \in [Messages -> Message \union {None}] /\ used' \subseteq Messages
    BY <1>12, <2>1, EnqueueType DEF ReplaySend
  <2>3. QED
    BY <1>12, <2>1, <2>2 DEF ReplaySend, TypeOK, InOrder, Replay
<1>13. ASSUME NEW r \in Requests, ReplayDelete(r)
       PROVE  TypeInv'
  <2>1. PICK rest \in SUBSET Copy :
          replay' = [replay EXCEPT ![r] =
            IF rest = {} THEN Idle ELSE [pc |-> "send", todo |-> rest, current |-> None]]
    BY <1>13 DEF ReplayDelete, TypeOK, Replay
  <2>2. deadLetters' = deadLetters \/ \E m : deadLetters' = [deadLetters EXCEPT ![m] = None]
    BY <1>13 DEF ReplayDelete
  <2>3. replay' \in [Requests -> Replay] /\ replay'[r].pc # "delete"
    BY <2>1, IdleType DEF TypeOK, Replay
  <2>4. QED
    BY <1>13, <2>1, <2>2, <2>3 DEF ReplayDelete, TypeOK, InOrder
<1>14. ASSUME NEW r \in Requests, ReplayStop(r)
       PROVE  TypeInv'
  BY <1>14, IdleType DEF ReplayStop, TypeOK, InOrder
<1>15. ASSUME NEW m \in Messages, EndLetterTimeout(m)
       PROVE  TypeInv'
  <2>1. PICK l, p : /\ l = deadLetters[m] /\ p = [l EXCEPT !.visible = TRUE]
                    /\ deadLetters' = [deadLetters EXCEPT ![m] = p]
    BY <1>15 DEF EndLetterTimeout
  <2>2. l \in Letter
    BY <1>15, <2>1 DEF EndLetterTimeout, TypeOK
  <2>3. p \in Letter
    BY <2>1, <2>2 DEF Letter
  <2>4. QED
    BY <1>15, <2>1, <2>3 DEF EndLetterTimeout, TypeOK, InOrder
<1>16. CASE Crash
  BY <1>16, PollingType, IdleType DEF Crash, TypeOK, InOrder
<1>17. CASE UNCHANGED vars
  BY <1>17 DEF vars, TypeOK, InOrder
<1>18. QED
  BY <1>1, <1>2, <1>3, <1>4, <1>5, <1>6, <1>7, <1>8, <1>9, <1>10, <1>11, <1>12, <1>13, <1>14, <1>15, <1>16, <1>17
  DEF Next, SendStep, ConsumerStep, QueueStep, ReplayStep

\* Messages, consumers, replays and rows keep their types, and no body that is
\* not a payload is ever stored.
THEOREM TypeCorrect == Spec => []TypeOK
<1>1. Spec => []TypeInv
  BY InitTypeInv, StepTypeInv, PTL DEF Spec
<1>2. TypeInv => TypeOK
  BY DEF TypeInv
<1>3. QED
  BY <1>1, <1>2, PTL
----------------------------------------------------------------------------
(***************************************************************************)
(* At-least-once delivery.                                                 *)
(***************************************************************************)

\* The bodies of messages that may exist.
Known == ForeignBodies \union accepted

\* A message is in one queue at a time.
MessageInv ==
  \A m \in Messages :
    /\ queue[m] # None => m \in used /\ deadLetters[m] = None /\ queue[m].body \in Known
    /\ deadLetters[m] # None => m \in used /\ deadLetters[m].body \in Known

\* A consumer's copy is a message of the queue as long as that has it, and its
\* event is in the audits table when the message is acknowledged.
ConsumerInv ==
  \A c \in Consumers : consumer[c].pc # "poll" =>
    /\ consumer[c].copy.message \in used
    /\ consumer[c].copy.body \in Known
    /\ queue[consumer[c].copy.message] # None =>
         queue[consumer[c].copy.message].body = consumer[c].copy.body
    /\ consumer[c].pc = "saved" =>
         consumer[c].copy.body \in Events /\ audits[consumer[c].copy.body] > 0

\* A replay's copies are dead letters as long as those exist.
ReplayInv ==
  \A r \in Requests :
    /\ replay[r].pc = "delete" => replay[r].current \in replay[r].todo
    /\ \A copy \in replay[r].todo :
         /\ copy.message \in used
         /\ copy.body \in Known
         /\ queue[copy.message] = None
         /\ deadLetters[copy.message] # None => deadLetters[copy.message].body = copy.body

BeingDeleted(m) ==
  \E r \in Requests : replay[r].pc = "delete" /\ replay[r].current.message = m

\* The letters that replays are about to delete do not count: the invariant
\* says that what they hold is safe elsewhere.
NotLost ==
  \A e \in accepted :
    \/ audits[e] > 0
    \/ \E m \in Messages : queue[m] # None /\ queue[m].body = e
    \/ \E m \in Messages :
         deadLetters[m] # None /\ deadLetters[m].body = e /\ ~BeingDeleted(m)

DeliveryInv == TypeInv /\ MessageInv /\ ConsumerInv /\ ReplayInv /\ NotLost

SameQueue ==
  \A m \in Messages :
    /\ queue'[m] # None <=> queue[m] # None
    /\ queue[m] # None => queue'[m].body = queue[m].body

SameLetters ==
  \A m \in Messages :
    /\ deadLetters'[m] # None <=> deadLetters[m] # None
    /\ deadLetters[m] # None => deadLetters'[m].body = deadLetters[m].body

Held == {e \in Events : \E m \in Messages : Holds(m, e)}

Audited == {e \in Events : audits[e] > 0}

DeliveryStep == [Delivery!Next]_(Delivery!vars)

LEMMA DeliveryStutters ==
  ASSUME Held' = Held, Audited' = Audited, accepted' = accepted
  PROVE  DeliveryStep
BY DEF DeliveryStep, Delivery!vars, Held, Audited

LEMMA DeliveryAccepts ==
  ASSUME NEW e \in Events, Held' = Held \union {e}, Audited' = Audited,
         accepted' = accepted \union {e}
  PROVE  DeliveryStep
BY DEF DeliveryStep, Delivery!Next, Delivery!Accept, Held, Audited

LEMMA DeliveryAudits ==
  ASSUME NEW e \in Events, e \in accepted, Held' = Held, Audited' = Audited \union {e},
         accepted' = accepted
  PROVE  DeliveryStep
BY DEF DeliveryStep, Delivery!Next, Delivery!Audit, Held, Audited

LEMMA DeliveryReleases ==
  ASSUME NEW e \in Events, e \in Audited, Held' = Held \ {e}, Audited' = Audited,
         accepted' = accepted
  PROVE  DeliveryStep
BY DEF DeliveryStep, Delivery!Next, Delivery!Release, Held, Audited

LEMMA DeliveryHoldsAgain ==
  ASSUME NEW e \in Events, e \in accepted, Held' = Held \union {e}, Audited' = Audited,
         accepted' = accepted
  PROVE  DeliveryStep
BY DEF DeliveryStep, Delivery!Next, Delivery!HoldAgain, Held, Audited

LEMMA SameHeld ==
  ASSUME SameQueue, SameLetters
  PROVE  Held' = Held
BY DEF SameQueue, SameLetters, Held, Holds

\* Steps that take nothing out of the queues or the table, put nothing in, and
\* give no consumer and no replay a copy.
LEMMA QuietStep ==
  ASSUME DeliveryInv, TypeInv', SameQueue, SameLetters,
         UNCHANGED <<used, audits, accepted>>,
         \A c \in Consumers : consumer'[c] = consumer[c] \/ consumer'[c] = Polling,
         \A r \in Requests : replay'[r] = replay[r] \/ replay'[r] = Idle
  PROVE  DeliveryInv' /\ DeliveryStep
<1> USE DEF DeliveryInv, Known
<1>1. MessageInv'
  BY DEF MessageInv, SameQueue, SameLetters
<1>2. ConsumerInv'
  <2> SUFFICES ASSUME NEW c \in Consumers, consumer'[c].pc # "poll"
               PROVE  ConsumerInv!(c)'
    BY DEF ConsumerInv
  <2>1. consumer'[c] = consumer[c]
    BY PollingType
  <2>2. consumer[c].copy.message \in Messages
    BY <2>1 DEF TypeInv, InOrder, Copy
  <2>3. QED
    BY <2>1, <2>2 DEF ConsumerInv, SameQueue
<1>3. ReplayInv'
  <2> SUFFICES ASSUME NEW r \in Requests
               PROVE  ReplayInv!(r)'
    BY DEF ReplayInv
  <2>1. CASE replay'[r] = Idle
    BY <2>1, IdleType
  <2>2. CASE replay'[r] = replay[r]
    <3>1. \A copy \in replay[r].todo : copy.message \in Messages
      BY DEF TypeInv, TypeOK, Replay, Copy
    <3>2. QED
      BY <2>2, <3>1 DEF ReplayInv, SameQueue, SameLetters
  <2>3. QED
    BY <2>1, <2>2
<1>4. \A m \in Messages : BeingDeleted(m)' => BeingDeleted(m)
  BY IdleType DEF BeingDeleted
<1>5. NotLost'
  BY <1>4 DEF NotLost, SameQueue, SameLetters
<1>6. DeliveryStep
  BY SameHeld, DeliveryStutters DEF Audited
<1>7. QED
  BY <1>1, <1>2, <1>3, <1>5, <1>6

CopiesInv ==
  \A r \in Requests : \A copy \in replay[r].todo :
    /\ copy.message \in used
    /\ copy.body \in Known
    /\ queue[copy.message] = None
    /\ deadLetters[copy.message] # None => deadLetters[copy.message].body = copy.body

\* A message that is sent gets an id that no queue, consumer or replay knows.
LEMMA EnqueueKeeps ==
  ASSUME DeliveryInv, TypeInv', NEW m \in Messages, NEW b \in Bodies, Enqueue(m, b),
         b \in Known', accepted \subseteq accepted',
         UNCHANGED <<deadLetters, consumer, audits>>,
         \A r \in Requests : replay'[r].todo = replay[r].todo
  PROVE  /\ MessageInv' /\ ConsumerInv' /\ CopiesInv'
         /\ Held' = Held \union ({b} \intersect Events)
         /\ \A n \in Messages : queue[n] # None => queue'[n] # None /\ queue'[n].body = queue[n].body
         /\ queue'[m] # None /\ queue'[m].body = b
<1> USE DEF DeliveryInv, TypeInv
<1>1. /\ m \notin used /\ queue[m] = None /\ deadLetters[m] = None
      /\ used' = used \union {m}
  BY DEF Enqueue, MessageInv
<1>2. queue'[m] # None /\ queue'[m].body = b /\ \A n \in Messages \ {m} : queue'[n] = queue[n]
  BY NewMessageType DEF Enqueue, TypeOK
<1>3. Known \subseteq Known'
  BY DEF Known
<1>4. MessageInv'
  BY <1>1, <1>2, <1>3 DEF MessageInv
<1>5. ConsumerInv'
  <2> SUFFICES ASSUME NEW c \in Consumers, consumer[c].pc # "poll"
               PROVE  ConsumerInv!(c)'
    BY DEF ConsumerInv
  <2>1. consumer[c].copy.message \in Messages \ {m}
    BY <1>1 DEF InOrder, Copy, ConsumerInv
  <2>2. QED
    BY <1>1, <1>2, <1>3, <2>1 DEF ConsumerInv
<1>6. CopiesInv'
  <2> SUFFICES ASSUME NEW r \in Requests, NEW copy \in replay[r].todo
               PROVE  /\ copy.message \in used'
                      /\ copy.body \in Known'
                      /\ queue'[copy.message] = None
                      /\ deadLetters'[copy.message] # None => deadLetters'[copy.message].body = copy.body
    BY DEF CopiesInv
  <2>1. copy.message \in Messages \ {m}
    BY <1>1 DEF TypeOK, Replay, Copy, ReplayInv
  <2>2. QED
    BY <1>1, <1>2, <1>3, <2>1 DEF ReplayInv
<1>7. Held' = Held \union ({b} \intersect Events)
  BY <1>1, <1>2 DEF Held, Holds
<1>8. QED
  BY <1>1, <1>2, <1>4, <1>5, <1>6, <1>7

LEMMA QueueAuditLogStep ==
  ASSUME DeliveryInv, TypeInv', NEW e \in Events, NEW m \in Messages, QueueAuditLog(e, m)
  PROVE  DeliveryInv' /\ DeliveryStep
<1>1. /\ MessageInv' /\ ConsumerInv' /\ CopiesInv' /\ Held' = Held \union {e}
      /\ \A n \in Messages : queue[n] # None => queue'[n] # None /\ queue'[n].body = queue[n].body
      /\ queue'[m] # None /\ queue'[m].body = e
  BY EnqueueKeeps DEF QueueAuditLog, Bodies, Known
<1>2. ReplayInv'
  BY <1>1 DEF QueueAuditLog, DeliveryInv, ReplayInv, CopiesInv
<1>3. NotLost'
  BY <1>1 DEF QueueAuditLog, DeliveryInv, NotLost, BeingDeleted
<1>4. DeliveryStep
  BY <1>1, DeliveryAccepts DEF QueueAuditLog, Audited
<1>5. QED
  BY <1>1, <1>2, <1>3, <1>4 DEF DeliveryInv

LEMMA ForeignSendStep ==
  ASSUME DeliveryInv, TypeInv', NEW b \in ForeignBodies, NEW m \in Messages, ForeignSend(b, m)
  PROVE  DeliveryInv' /\ DeliveryStep
<1>1. /\ MessageInv' /\ ConsumerInv' /\ CopiesInv' /\ Held' = Held
      /\ \A n \in Messages : queue[n] # None => queue'[n] # None /\ queue'[n].body = queue[n].body
  <2>1. Held' = Held \union ({b} \intersect Events) => Held' = Held
    BY AuditAssumption
  <2>2. b \in Bodies /\ b \in Known'
    BY DEF Bodies, Known
  <2>3. QED
    BY <2>1, <2>2, EnqueueKeeps DEF ForeignSend
<1>2. ReplayInv'
  BY <1>1 DEF ForeignSend, DeliveryInv, ReplayInv, CopiesInv
<1>3. NotLost'
  BY <1>1 DEF ForeignSend, DeliveryInv, NotLost, BeingDeleted
<1>4. DeliveryStep
  BY <1>1, DeliveryStutters DEF ForeignSend, Audited
<1>5. QED
  BY <1>1, <1>2, <1>3, <1>4 DEF DeliveryInv

\* The letter that is being sent again is about to be deleted, but its event is
\* now held by the new message.
LEMMA ReplaySendStep ==
  ASSUME DeliveryInv, TypeInv', NEW r \in Requests, NEW copy \in replay[r].todo,
         NEW m \in Messages, ReplaySend(r, copy, m)
  PROVE  DeliveryInv' /\ DeliveryStep
<1> USE DEF DeliveryInv
<1>1. /\ copy \in Copy /\ copy.body \in Events /\ copy.body \in accepted
      /\ replay[r].pc = "send"
    BY AuditAssumption DEF ReplaySend, IsPayload, ReplayInv, Known, TypeInv, TypeOK, Replay
<1>2. /\ replay'[r].pc = "delete" /\ replay'[r].todo = replay[r].todo /\ replay'[r].current = copy
      /\ \A s \in Requests \ {r} : replay'[s] = replay[s]
  BY DEF ReplaySend, TypeInv, TypeOK
<1>3. \A s \in Requests : replay'[s].todo = replay[s].todo
  BY <1>2
<1>4. /\ MessageInv' /\ ConsumerInv' /\ CopiesInv' /\ Held' = Held \union {copy.body}
      /\ \A n \in Messages : queue[n] # None => queue'[n] # None /\ queue'[n].body = queue[n].body
      /\ queue'[m] # None /\ queue'[m].body = copy.body
  BY <1>1, <1>3, EnqueueKeeps DEF ReplaySend, Bodies, Known
<1>5. ReplayInv'
  BY <1>2, <1>4 DEF ReplayInv, CopiesInv
<1>6. \A n \in Messages : BeingDeleted(n)' => BeingDeleted(n) \/ n = copy.message
  BY <1>2 DEF BeingDeleted
<1>7. deadLetters[copy.message] # None => deadLetters[copy.message].body = copy.body
  BY DEF ReplayInv
<1>8. NotLost'
  BY <1>4, <1>6, <1>7 DEF ReplaySend, NotLost
<1>9. DeliveryStep
  BY <1>1, <1>4, DeliveryHoldsAgain DEF ReplaySend, Audited
<1>10. QED
  BY <1>4, <1>5, <1>8, <1>9

LEMMA ReceiveMessageStep ==
  ASSUME DeliveryInv, TypeInv', NEW c \in Consumers, NEW m \in Messages, ReceiveMessage(c, m)
  PROVE  DeliveryInv' /\ DeliveryStep
<1> USE DEF DeliveryInv
<1>1. PICK q, copy, p :
        /\ q = queue[m]
        /\ copy = [message |-> m, body |-> q.body]
        /\ p = [q EXCEPT !.visible = FALSE, !.receives = q.receives + 1, !.receiver = c]
        /\ queue' = [queue EXCEPT ![m] = p]
        /\ consumer' = [consumer EXCEPT ![c] = [pc |-> "handle", copy |-> copy]]
  BY DEF ReceiveMessage
<1>2. q \in Message
  BY <1>1 DEF ReceiveMessage, TypeInv, TypeOK
<1>3. p.body = q.body
  BY <1>1, <1>2 DEF Message
<1>4. queue'[m] = p /\ p # None
  <2>1. q.receives + 1 \in 0 .. MaxReceives
    BY <1>1, <1>2, AuditAssumption DEF ReceiveMessage, Message
  <2>2. p \in Message
    BY <1>1, <1>2, <2>1 DEF Message
  <2>3. QED
    BY <1>1, <2>2, NoneAssumption DEF TypeInv, TypeOK
<1>5. SameQueue /\ SameLetters
  BY <1>1, <1>3, <1>4 DEF ReceiveMessage, SameQueue, SameLetters, TypeInv, TypeOK
<1>6. copy.message = m /\ copy.body = q.body /\ m \in used /\ q.body \in Known
  BY <1>1 DEF ReceiveMessage, MessageInv
<1>7. MessageInv'
  BY <1>5 DEF ReceiveMessage, MessageInv, SameQueue, SameLetters, Known
<1>8. ConsumerInv'
  <2> SUFFICES ASSUME NEW d \in Consumers, consumer'[d].pc # "poll"
               PROVE  ConsumerInv!(d)'
    BY DEF ConsumerInv
  <2>1. CASE d = c
    <3>1. consumer'[d].pc = "handle" /\ consumer'[d].copy = copy
      BY <1>1, <2>1 DEF TypeInv, TypeOK
    <3>2. QED
      BY <1>1, <1>3, <1>4, <1>6, <3>1 DEF ReceiveMessage, Known
  <2>2. CASE d # c
    <3>1. consumer'[d] = consumer[d]
      BY <1>1, <2>2
    <3>2. consumer[d].copy.message \in Messages
      BY <3>1 DEF TypeInv, InOrder, Copy
    <3>3. QED
      BY <1>5, <3>1, <3>2 DEF ReceiveMessage, ConsumerInv, SameQueue, Known
  <2>3. QED
    BY <2>1, <2>2
<1>9. ReplayInv'
  <2>1. \A r \in Requests : \A x \in replay[r].todo : x.message \in Messages
    BY DEF TypeInv, TypeOK, Replay, Copy
  <2>2. QED
    BY <1>5, <2>1 DEF ReceiveMessage, ReplayInv, SameQueue, Known
<1>10. NotLost'
  BY <1>5 DEF ReceiveMessage, NotLost, BeingDeleted, SameQueue
<1>11. DeliveryStep
  BY <1>5, SameHeld, DeliveryStutters DEF ReceiveMessage, Audited
<1>12. QED
  BY <1>7, <1>8, <1>9, <1>10, <1>11

LEMMA HandleMessageStep ==
  ASSUME DeliveryInv, TypeInv', NEW c \in Consumers, HandleMessage(c)
  PROVE  DeliveryInv' /\ DeliveryStep
<1> USE DEF DeliveryInv
<1>1. PICK e : e = consumer[c].copy.body
  OBVIOUS
<1>2. e \in Events /\ e \in accepted
  BY <1>1, AuditAssumption DEF HandleMessage, IsPayload, ConsumerInv, Known
<1>3. /\ audits'[e] = audits[e] + 1 /\ audits[e] \in Nat
      /\ \A b \in Bodies \ {e} : audits'[b] = audits[b]
  BY <1>1, <1>2 DEF HandleMessage, TypeInv, TypeOK, Bodies
<1>4. \A b \in Events : audits[b] > 0 => audits'[b] > 0
  BY <1>3 DEF Bodies
<1>5. /\ consumer'[c].pc = "saved" /\ consumer'[c].copy = consumer[c].copy
      /\ \A d \in Consumers \ {c} : consumer'[d] = consumer[d]
  BY DEF HandleMessage, TypeInv, TypeOK, Consumer
<1>6. MessageInv' /\ ReplayInv'
  BY DEF HandleMessage, MessageInv, ReplayInv, Known
<1>7. ConsumerInv'
  BY <1>1, <1>2, <1>3, <1>4, <1>5 DEF HandleMessage, ConsumerInv, Known
<1>8. NotLost'
  BY <1>4 DEF HandleMessage, NotLost, BeingDeleted, TypeInv, TypeOK
<1>9. Held' = Held
  BY DEF HandleMessage, Held, Holds
<1>10. Audited' = Audited \union {e}
  BY <1>2, <1>3 DEF Audited, Bodies
<1>11. DeliveryStep
  BY <1>2, <1>9, <1>10, DeliveryAudits DEF HandleMessage
<1>12. QED
  BY <1>6, <1>7, <1>8, <1>11

\* What is acknowledged is in the audits table.
LEMMA DeleteMessageStep ==
  ASSUME DeliveryInv, TypeInv', NEW c \in Consumers, DeleteMessage(c)
  PROVE  DeliveryInv' /\ DeliveryStep
<1> USE DEF DeliveryInv
<1>1. PICK m, e : m = consumer[c].copy.message /\ e = consumer[c].copy.body
  OBVIOUS
<1>2. m \in Messages /\ e \in Events /\ e \in Audited
  BY <1>1 DEF DeleteMessage, Handled, TypeInv, InOrder, Copy, ConsumerInv, Audited
<1>3. /\ consumer'[c] = Polling
      /\ \A d \in Consumers \ {c} : consumer'[d] = consumer[d]
      /\ UNCHANGED <<deadLetters, used, replay, audits, accepted>>
  BY DEF DeleteMessage, TypeInv, TypeOK
<1>4. \A d \in Consumers : consumer'[d] = consumer[d] \/ consumer'[d] = Polling
  BY <1>3
<1>5. CASE queue' = queue
  <2>1. SameQueue /\ SameLetters
    BY <1>3, <1>5 DEF SameQueue, SameLetters
  <2>2. QED
    BY <1>3, <1>4, <2>1, QuietStep
<1>6. CASE queue' = [queue EXCEPT ![m] = None]
  <2>1. queue'[m] = None /\ \A n \in Messages \ {m} : queue'[n] = queue[n]
    BY <1>2, <1>6 DEF TypeInv, TypeOK
  <2>2. queue[m] # None => queue[m].body = e
    BY <1>1 DEF DeleteMessage, Handled, ConsumerInv
  <2>3. MessageInv'
    BY <1>3, <2>1 DEF MessageInv, Known
  <2>4. ConsumerInv'
    <3> SUFFICES ASSUME NEW d \in Consumers, consumer'[d].pc # "poll"
                 PROVE  ConsumerInv!(d)'
      BY DEF ConsumerInv
    <3>1. consumer'[d] = consumer[d]
      BY <1>4, PollingType
    <3>2. consumer[d].copy.message \in Messages
      BY <3>1 DEF TypeInv, InOrder, Copy
    <3>3. QED
      BY <1>3, <2>1, <3>1, <3>2 DEF ConsumerInv, Known
  <2>5. ReplayInv'
    <3>1. \A r \in Requests : \A x \in replay[r].todo : x.message \in Messages
      BY DEF TypeInv, TypeOK, Replay, Copy
    <3>2. QED
      BY <1>3, <2>1, <3>1 DEF ReplayInv, Known
  <2>6. NotLost'
    BY <1>2, <1>3, <2>1, <2>2 DEF NotLost, BeingDeleted, Audited
  <2>7. Held' = Held \/ Held' = Held \ {e}
    BY <1>3, <2>1, <2>2 DEF Held, Holds
  <2>8. DeliveryStep
    BY <1>2, <1>3, <2>7, DeliveryStutters, DeliveryReleases DEF Audited
  <2>9. QED
    BY <2>3, <2>4, <2>5, <2>6, <2>8
<1>7. QED
  BY <1>1, <1>5, <1>6 DEF DeleteMessage

\* A message that is redriven is in no replay: the letter stays.
LEMMA RedriveStep ==
  ASSUME DeliveryInv, TypeInv', NEW m \in Messages, Redrive(m)
  PROVE  DeliveryInv' /\ DeliveryStep
<1> USE DEF DeliveryInv
<1>1. PICK l : l = [body |-> queue[m].body, visible |-> TRUE, receiver |-> None]
  OBVIOUS
<1>2. l \in Letter /\ l # None /\ l.body = queue[m].body
  <2>1. PICK q : q = queue[m] /\ q \in Message
    BY DEF Redrive, TypeInv, TypeOK
  <2>2. l \in Letter
    BY <1>1, <2>1 DEF Letter, Message
  <2>3. QED
    BY <1>1, <2>2, NoneAssumption
<1>3. /\ deadLetters'[m] = l /\ \A n \in Messages \ {m} : deadLetters'[n] = deadLetters[n]
      /\ queue'[m] = None /\ \A n \in Messages \ {m} : queue'[n] = queue[n]
      /\ UNCHANGED <<used, consumer, replay, audits, accepted>>
  BY <1>1 DEF Redrive, TypeInv, TypeOK
<1>4. queue[m] # None /\ deadLetters[m] = None /\ m \in used /\ l.body \in Known
  BY <1>2 DEF Redrive, MessageInv
<1>5. \A r \in Requests : \A x \in replay[r].todo : x.message \in Messages \ {m}
  BY <1>4 DEF TypeInv, TypeOK, Replay, Copy, ReplayInv
<1>6. ~BeingDeleted(m)
  BY <1>5 DEF BeingDeleted, ReplayInv
<1>7. MessageInv'
  BY <1>3, <1>4 DEF MessageInv, Known
<1>8. ConsumerInv'
  <2> SUFFICES ASSUME NEW c \in Consumers, consumer[c].pc # "poll"
               PROVE  ConsumerInv!(c)'
    BY <1>3 DEF ConsumerInv
  <2>1. consumer[c].copy.message \in Messages
    BY DEF TypeInv, InOrder, Copy
  <2>2. QED
    BY <1>3, <2>1 DEF ConsumerInv, Known
<1>9. ReplayInv'
  BY <1>3, <1>5 DEF ReplayInv, Known
<1>10. NotLost'
  BY <1>2, <1>3, <1>4, <1>6 DEF NotLost, BeingDeleted
<1>11. Held' = Held
  BY <1>2, <1>3, <1>4 DEF Held, Holds
<1>12. DeliveryStep
  BY <1>3, <1>11, DeliveryStutters DEF Audited
<1>13. QED
  BY <1>7, <1>8, <1>9, <1>10, <1>12

LEMMA ReplaySequentiallyStep ==
  ASSUME DeliveryInv, TypeInv', NEW r \in Requests, ReplaySequentially(r)
  PROVE  DeliveryInv' /\ DeliveryStep
<1> USE DEF DeliveryInv
<1> DEFINE Copies(T) == {[message |-> m, body |-> deadLetters[m].body] : m \in T}
<1>1. PICK n \in MaxMessagesInputs : \E S \in Batches(n), T \in SUBSET Messages :
        /\ T \subseteq S
        /\ ReceiveBatch(r, S)
        /\ replay' = [replay EXCEPT ![r] = [pc |-> "send", current |-> None, todo |-> Copies(T)]]
  BY DEF ReplaySequentially, Batches
<1>2. PICK S \in Batches(n), T \in SUBSET Messages :
        /\ T \subseteq S
        /\ ReceiveBatch(r, S)
        /\ replay' = [replay EXCEPT ![r] = [pc |-> "send", current |-> None, todo |-> Copies(T)]]
  BY <1>1
<1>3. UNCHANGED <<queue, used, consumer, audits, accepted>>
  BY DEF ReplaySequentially
<1>4. SameQueue /\ SameLetters
  BY <1>2, <1>3, BatchLetters, AuditAssumption DEF SameQueue, SameLetters, TypeInv
<1>5. \A x \in Copies(T) :
        /\ x.message \in Messages /\ deadLetters[x.message] # None
        /\ x.body = deadLetters[x.message].body
  BY <1>2 DEF Batches
<1> HIDE DEF Copies
<1>6. /\ replay'[r].pc = "send" /\ replay'[r].todo = Copies(T)
      /\ \A s \in Requests \ {r} : replay'[s] = replay[s]
  BY <1>2 DEF TypeInv, TypeOK
<1>7. MessageInv'
  BY <1>3, <1>4 DEF MessageInv, SameLetters, Known
<1>8. ConsumerInv'
  BY <1>3 DEF ConsumerInv, Known
<1>9. ReplayInv'
  <2> SUFFICES ASSUME NEW s \in Requests
               PROVE  ReplayInv!(s)'
    BY DEF ReplayInv
  <2>1. CASE s = r
    BY <1>3, <1>4, <1>5, <1>6, <2>1 DEF MessageInv, SameLetters, Known
  <2>2. CASE s # r
    <3>1. \A x \in replay[s].todo : x.message \in Messages
      BY DEF TypeInv, TypeOK, Replay, Copy
    <3>2. QED
      BY <1>3, <1>4, <1>6, <2>2, <3>1 DEF ReplayInv, SameLetters, Known
  <2>3. QED
    BY <2>1, <2>2
<1>10. \A m \in Messages : BeingDeleted(m)' => BeingDeleted(m)
  BY <1>6 DEF BeingDeleted
<1>11. NotLost'
  BY <1>3, <1>4, <1>10 DEF NotLost, SameLetters
<1>12. DeliveryStep
  BY <1>3, <1>4, SameHeld, DeliveryStutters DEF Audited
<1>13. QED
  BY <1>7, <1>8, <1>9, <1>11, <1>12

\* What the deleted letter held is in the audits table, or held by another
\* message, by NotLost.
LEMMA ReplayDeleteStep ==
  ASSUME DeliveryInv, TypeInv', NEW r \in Requests, ReplayDelete(r)
  PROVE  DeliveryInv' /\ DeliveryStep
<1> USE DEF DeliveryInv
<1>1. PICK copy, m, b, rest :
        /\ copy = replay[r].current /\ m = copy.message /\ b = copy.body
        /\ rest = replay[r].todo \ {copy}
        /\ replay' = [replay EXCEPT ![r] =
             IF rest = {} THEN Idle ELSE [pc |-> "send", todo |-> rest, current |-> None]]
  BY DEF ReplayDelete
<1>2. replay[r].pc = "delete" /\ copy \in replay[r].todo /\ BeingDeleted(m)
  BY <1>1 DEF ReplayDelete, ReplayInv, BeingDeleted
<1>3. m \in Messages /\ b \in Known /\ (deadLetters[m] # None => deadLetters[m].body = b)
  BY <1>1, <1>2 DEF ReplayInv, TypeInv, TypeOK, Replay, Copy
<1>4. UNCHANGED <<queue, used, consumer, audits, accepted>>
  BY DEF ReplayDelete
<1>5. /\ replay'[r].pc # "delete" /\ replay'[r].todo \subseteq replay[r].todo
      /\ \A s \in Requests \ {r} : replay'[s] = replay[s]
  BY <1>1, IdleType DEF TypeInv, TypeOK
<1>6. /\ \A n \in Messages \ {m} : deadLetters'[n] = deadLetters[n]
      /\ deadLetters'[m] = None \/ deadLetters'[m] = deadLetters[m]
  BY <1>1, <1>3 DEF ReplayDelete, TypeInv, TypeOK
<1>7. MessageInv'
  BY <1>4, <1>6 DEF MessageInv, Known
<1>8. ConsumerInv'
  BY <1>4 DEF ConsumerInv, Known
<1>9. ReplayInv'
  <2> SUFFICES ASSUME NEW s \in Requests
               PROVE  ReplayInv!(s)'
    BY DEF ReplayInv
  <2>1. replay'[s].todo \subseteq replay[s].todo
    BY <1>5
  <2>2. \A x \in replay[s].todo : x.message \in Messages
    BY DEF TypeInv, TypeOK, Replay, Copy
  <2>3. replay'[s].pc = "delete" => replay'[s].current \in replay'[s].todo
    BY <1>5 DEF ReplayInv
  <2>4. QED
    BY <1>4, <1>6, <2>1, <2>2, <2>3 DEF ReplayInv, Known
<1>10. \A n \in Messages : BeingDeleted(n)' => BeingDeleted(n)
  BY <1>5 DEF BeingDeleted
<1>11. NotLost'
  BY <1>2, <1>4, <1>6, <1>10 DEF NotLost
<1>12. Held' = Held \/ (b \in Events /\ Held' = Held \ {b} /\ b \notin Held')
  <2>1. \A n \in Messages, e \in Events : Holds(n, e)' => Holds(n, e)
    BY <1>4, <1>6 DEF Holds
  <2>2. \A n \in Messages, e \in Events \ {b} : Holds(n, e) => Holds(n, e)'
    BY <1>3, <1>4, <1>6 DEF Holds
  <2>3. Held' \subseteq Held /\ Held \ {b} \subseteq Held' /\ Held \subseteq Events
    BY <2>1, <2>2 DEF Held
  <2>4. QED
    BY <2>3
<1>13. b \in Events /\ b \notin Held' => b \in Audited
  BY <1>3, <1>4, <1>11, AuditAssumption DEF Known, NotLost, Held, Holds, Audited
<1>14. DeliveryStep
  BY <1>4, <1>12, <1>13, DeliveryStutters, DeliveryReleases DEF Audited
<1>15. QED
  BY <1>7, <1>8, <1>9, <1>11, <1>14

LEMMA InitDelivery == Init => DeliveryInv /\ Delivery!Init
<1> SUFFICES ASSUME Init
             PROVE  DeliveryInv /\ Delivery!Init
  OBVIOUS
<1>1. MessageInv /\ ConsumerInv /\ NotLost
  BY PollingType DEF Init, MessageInv, ConsumerInv, NotLost
<1>2. ReplayInv
  BY IdleType DEF Init, ReplayInv
<1>3. Delivery!Init
  BY DEF Init, Delivery!Init, Holds, Bodies
<1>4. QED
  BY <1>1, <1>2, <1>3, InitTypeInv DEF DeliveryInv

LEMMA StepDelivery == DeliveryInv /\ [Next]_vars => DeliveryInv' /\ DeliveryStep
<1> SUFFICES ASSUME DeliveryInv, [Next]_vars
             PROVE  DeliveryInv' /\ DeliveryStep
  OBVIOUS
<1> TypeInv'
  BY StepTypeInv DEF DeliveryInv
<1>1. ASSUME NEW e \in Events, Emit(e) \/ SwallowSendError(e)
      PROVE  DeliveryInv' /\ DeliveryStep
  BY <1>1, QuietStep DEF Emit, SwallowSendError, SameQueue, SameLetters
<1>2. ASSUME NEW c \in Consumers, FailMessage(c) \/ FailDelete(c)
      PROVE  DeliveryInv' /\ DeliveryStep
  <2>1. consumer' = [consumer EXCEPT ![c] = Polling]
    BY <1>2 DEF FailMessage, FailDelete
  <2>2. \A d \in Consumers : consumer'[d] = consumer[d] \/ consumer'[d] = Polling
    BY <2>1 DEF DeliveryInv, TypeInv, TypeOK
  <2>3. QED
    BY <1>2, <2>2, QuietStep DEF FailMessage, FailDelete, SameQueue, SameLetters
<1>3. ASSUME NEW m \in Messages, EndVisibilityTimeout(m)
      PROVE  DeliveryInv' /\ DeliveryStep
  <2>1. PICK q, p : q = queue[m] /\ p = [q EXCEPT !.visible = TRUE] /\ queue' = [queue EXCEPT ![m] = p]
    BY <1>3 DEF EndVisibilityTimeout
  <2>2. q \in Message
    BY <1>3, <2>1 DEF EndVisibilityTimeout, DeliveryInv, TypeInv, TypeOK
  <2>3. p \in Message /\ p.body = q.body
    BY <2>1, <2>2 DEF Message
  <2>4. SameQueue
    BY <2>1, <2>2, <2>3, NoneAssumption DEF SameQueue, DeliveryInv, TypeInv, TypeOK
  <2>5. QED
    BY <1>3, <2>4, QuietStep DEF EndVisibilityTimeout, SameLetters
<1>4. ASSUME NEW m \in Messages, EndLetterTimeout(m)
      PROVE  DeliveryInv' /\ DeliveryStep
  <2>1. PICK l, p : /\ l = deadLetters[m] /\ p = [l EXCEPT !.visible = TRUE]
                    /\ deadLetters' = [deadLetters EXCEPT ![m] = p]
    BY <1>4 DEF EndLetterTimeout
  <2>2. l \in Letter
    BY <1>4, <2>1 DEF EndLetterTimeout, DeliveryInv, TypeInv, TypeOK
  <2>3. p \in Letter /\ p.body = l.body
    BY <2>1, <2>2 DEF Letter
  <2>4. SameLetters
    BY <2>1, <2>2, <2>3, NoneAssumption DEF SameLetters, DeliveryInv, TypeInv, TypeOK
  <2>5. QED
    BY <1>4, <2>4, QuietStep DEF EndLetterTimeout, SameQueue
<1>5. ASSUME NEW r \in Requests, Inspect(r)
      PROVE  DeliveryInv' /\ DeliveryStep
  <2>1. SameLetters
    BY <1>5, BatchLetters, AuditAssumption DEF Inspect, SameLetters, DeliveryInv, TypeInv
  <2>2. QED
    BY <1>5, <2>1, QuietStep DEF Inspect, SameQueue
<1>6. ASSUME NEW r \in Requests, ReplayStop(r)
      PROVE  DeliveryInv' /\ DeliveryStep
  <2>1. \A s \in Requests : replay'[s] = replay[s] \/ replay'[s] = Idle
    BY <1>6 DEF ReplayStop, DeliveryInv, TypeInv, TypeOK
  <2>2. QED
    BY <1>6, <2>1, QuietStep DEF ReplayStop, SameQueue, SameLetters
<1>7. CASE Crash
  BY <1>7, QuietStep DEF Crash, SameQueue, SameLetters
<1>8. CASE UNCHANGED vars
  BY <1>8, QuietStep DEF vars, SameQueue, SameLetters
<1>9. QED
  BY <1>1, <1>2, <1>3, <1>4, <1>5, <1>6, <1>7, <1>8, QueueAuditLogStep, ForeignSendStep,
     ReceiveMessageStep, HandleMessageStep, DeleteMessageStep, RedriveStep,
     ReplaySequentiallyStep, ReplaySendStep, ReplayDeleteStep
  DEF Next, SendStep, ConsumerStep, QueueStep, ReplayStep

\* The pipeline delivers at least once, whatever fails: no retry, redrive,
\* replay, crash or timeout loses an event that the queue has accepted.
THEOREM AtLeastOnce == Spec => ImplementsDelivery
<1>1. Init => DeliveryInv /\ Delivery!Init
  BY InitDelivery
<1>2. DeliveryInv /\ [Next]_vars => DeliveryInv' /\ [Delivery!Next]_(Delivery!vars)
  BY StepDelivery DEF DeliveryStep
<1>3. QED
  BY <1>1, <1>2, PTL DEF Spec, ImplementsDelivery, Delivery!Spec

----------------------------------------------------------------------------
(***************************************************************************)
(* Nothing is audited twice as long as only the database fails.            *)
(***************************************************************************)
OnlyDatabaseFails == Faults \subseteq {"database"}

\* Without slow handlers, a message stays hidden for the consumer that has it.
ConsumersHold ==
  \A c \in Consumers : consumer[c].pc # "poll" =>
    /\ queue[consumer[c].copy.message] # None
    /\ ~queue[consumer[c].copy.message].visible
    /\ queue[consumer[c].copy.message].receiver = c

\* And so does a letter for the replay that is to send or delete it.
ReplaysHold ==
  \A r \in Requests : \A copy \in replay[r].todo :
    /\ deadLetters[copy.message] # None
    /\ ~deadLetters[copy.message].visible
    /\ deadLetters[copy.message].receiver = r

HoldInv == DeliveryInv /\ ConsumersHold /\ ReplaysHold

BeingAcknowledged(m) ==
  \E c \in Consumers : consumer[c].pc = "saved" /\ consumer[c].copy.message = m

\* Message m may still bring event e to the audits table.
Pending(m, e) ==
  \/ queue[m] # None /\ queue[m].body = e /\ ~BeingAcknowledged(m)
  \/ deadLetters[m] # None /\ deadLetters[m].body = e /\ ~BeingDeleted(m)

OnceInv ==
  \A e \in Events :
    /\ audits[e] <= 1
    /\ e \in sending => e \notin accepted
    /\ e \notin accepted => audits[e] = 0
    /\ \A m \in Messages : Pending(m, e) =>
         audits[e] = 0 /\ \A n \in Messages : Pending(n, e) => n = m

----------------------------------------------------------------------------
(***************************************************************************)
(* What consumers and replays hold.                                        *)
(***************************************************************************)

LEMMA ConsumerMessages ==
  ASSUME TypeInv, NEW c \in Consumers, consumer[c].pc # "poll"
  PROVE  consumer[c].copy.message \in Messages
BY DEF TypeInv, InOrder, Copy

LEMMA ReplayMessages ==
  ASSUME TypeInv, NEW r \in Requests, NEW copy \in replay[r].todo
  PROVE  copy.message \in Messages /\ copy \in Copy
BY DEF TypeInv, TypeOK, Replay, Copy

\* A message that is sent disturbs no message that anybody has.
LEMMA EnqueueHolds ==
  ASSUME HoldInv, NEW m \in Messages, NEW b, Enqueue(m, b),
         UNCHANGED <<deadLetters, consumer>>,
         \A r \in Requests : replay'[r].todo = replay[r].todo
  PROVE  ConsumersHold' /\ ReplaysHold'
<1>1. queue[m] = None /\ \A n \in Messages \ {m} : queue'[n] = queue[n]
  BY DEF Enqueue, HoldInv, DeliveryInv, MessageInv, TypeInv, TypeOK
<1>2. ConsumersHold'
  BY <1>1, ConsumerMessages DEF HoldInv, DeliveryInv, ConsumersHold
<1>3. ReplaysHold'
  BY DEF HoldInv, ReplaysHold
<1>4. QED
  BY <1>2, <1>3

LEMMA ReceiveHolds ==
  ASSUME HoldInv, NEW c \in Consumers, NEW m \in Messages, ReceiveMessage(c, m)
  PROVE  ConsumersHold' /\ ReplaysHold'
<1> USE DEF HoldInv, DeliveryInv
<1>1. PICK q, copy, p :
        /\ q = queue[m]
        /\ copy = [message |-> m, body |-> q.body]
        /\ p = [q EXCEPT !.visible = FALSE, !.receives = q.receives + 1, !.receiver = c]
        /\ queue' = [queue EXCEPT ![m] = p]
        /\ consumer' = [consumer EXCEPT ![c] = [pc |-> "handle", copy |-> copy]]
  BY DEF ReceiveMessage
<1>2. q \in Message /\ q.visible
  BY <1>1 DEF ReceiveMessage, TypeInv, TypeOK
<1>3. p \in Message /\ p # None /\ ~p.visible /\ p.receiver = c
  <2>1. q.receives + 1 \in 0 .. MaxReceives
    BY <1>1, <1>2, AuditAssumption DEF ReceiveMessage, Message
  <2>2. p \in Message /\ ~p.visible /\ p.receiver = c
    BY <1>1, <1>2, <2>1 DEF Message
  <2>3. QED
    BY <2>2, NoneAssumption
<1>4. queue'[m] = p /\ \A n \in Messages \ {m} : queue'[n] = queue[n]
  BY <1>1 DEF TypeInv, TypeOK
<1>5. /\ consumer'[c].copy.message = m
      /\ \A d \in Consumers \ {c} : consumer'[d] = consumer[d]
  BY <1>1 DEF TypeInv, TypeOK
<1>6. \A d \in Consumers \ {c} : consumer[d].pc # "poll" => consumer[d].copy.message \in Messages \ {m}
  BY <1>1, <1>2, ConsumerMessages DEF ConsumersHold
<1>7. ConsumersHold'
  BY <1>3, <1>4, <1>5, <1>6 DEF ConsumersHold
<1>8. ReplaysHold'
  BY DEF ReceiveMessage, ReplaysHold
<1>9. QED
  BY <1>7, <1>8

LEMMA DeleteHolds ==
  ASSUME HoldInv, NEW c \in Consumers, DeleteMessage(c)
  PROVE  /\ ConsumersHold' /\ ReplaysHold'
         /\ queue'[consumer[c].copy.message] = None
         /\ \A n \in Messages \ {consumer[c].copy.message} : queue'[n] = queue[n]
<1> USE DEF HoldInv, DeliveryInv
<1>1. PICK m : m = consumer[c].copy.message
  OBVIOUS
<1>2. m \in Messages /\ ValidReceipt(queue[m], c)
  BY <1>1, ConsumerMessages DEF DeleteMessage, Handled, ConsumersHold, ValidReceipt
<1>3. queue' = [queue EXCEPT ![m] = None] /\ consumer' = [consumer EXCEPT ![c] = Polling]
  BY <1>1, <1>2 DEF DeleteMessage
<1>4. queue'[m] = None /\ \A n \in Messages \ {m} : queue'[n] = queue[n]
  BY <1>2, <1>3 DEF TypeInv, TypeOK
<1>5. consumer'[c].pc = "poll" /\ \A d \in Consumers \ {c} : consumer'[d] = consumer[d]
  BY <1>3, PollingType DEF TypeInv, TypeOK
<1>6. \A d \in Consumers \ {c} : consumer[d].pc # "poll" => consumer[d].copy.message \in Messages \ {m}
  BY <1>2, ConsumerMessages DEF ConsumersHold, ValidReceipt
<1>7. ConsumersHold'
  BY <1>4, <1>5, <1>6 DEF ConsumersHold
<1>8. ReplaysHold'
  BY DEF DeleteMessage, ReplaysHold
<1>9. QED
  BY <1>1, <1>4, <1>7, <1>8

LEMMA EndTimeoutHolds ==
  ASSUME OnlyDatabaseFails, HoldInv, NEW m \in Messages, EndVisibilityTimeout(m)
  PROVE  ConsumersHold' /\ ReplaysHold'
<1> USE DEF HoldInv, DeliveryInv
<1>1. "slow" \notin Faults
  BY DEF OnlyDatabaseFails
<1>2. \A c \in Consumers : consumer[c].pc # "poll" => consumer[c].copy.message \in Messages \ {m}
  BY <1>1, ConsumerMessages DEF EndVisibilityTimeout, Handles
<1>3. \A n \in Messages \ {m} : queue'[n] = queue[n]
  BY DEF EndVisibilityTimeout, TypeInv, TypeOK
<1>4. ConsumersHold'
  BY <1>2, <1>3 DEF EndVisibilityTimeout, ConsumersHold
<1>5. QED
  BY <1>4 DEF EndVisibilityTimeout, ReplaysHold

LEMMA EndLetterTimeoutHolds ==
  ASSUME OnlyDatabaseFails, HoldInv, NEW m \in Messages, EndLetterTimeout(m)
  PROVE  ConsumersHold' /\ ReplaysHold'
<1> USE DEF HoldInv, DeliveryInv
<1>1. "slow" \notin Faults
  BY DEF OnlyDatabaseFails
<1>2. \A r \in Requests : \A copy \in replay[r].todo : copy.message \in Messages \ {m}
  BY <1>1, ReplayMessages DEF EndLetterTimeout, Replays
<1>3. \A n \in Messages \ {m} : deadLetters'[n] = deadLetters[n]
  BY DEF EndLetterTimeout, TypeInv, TypeOK
<1>4. ReplaysHold'
  BY <1>2, <1>3 DEF EndLetterTimeout, ReplaysHold
<1>5. QED
  BY <1>4 DEF EndLetterTimeout, ConsumersHold

LEMMA RedriveHolds ==
  ASSUME HoldInv, NEW m \in Messages, Redrive(m)
  PROVE  ConsumersHold' /\ ReplaysHold'
<1> USE DEF HoldInv, DeliveryInv
<1>1. queue[m] # None /\ queue[m].visible /\ deadLetters[m] = None
  BY DEF Redrive, MessageInv
<1>2. \A n \in Messages \ {m} : queue'[n] = queue[n] /\ deadLetters'[n] = deadLetters[n]
  BY DEF Redrive, TypeInv, TypeOK
<1>3. \A c \in Consumers : consumer[c].pc # "poll" => consumer[c].copy.message \in Messages \ {m}
  BY <1>1, ConsumerMessages DEF ConsumersHold
<1>4. \A r \in Requests : \A copy \in replay[r].todo : copy.message \in Messages \ {m}
  BY <1>1, ReplayMessages DEF ReplaysHold
<1>5. ConsumersHold'
  BY <1>2, <1>3 DEF Redrive, ConsumersHold
<1>6. ReplaysHold'
  BY <1>2, <1>4 DEF Redrive, ReplaysHold
<1>7. QED
  BY <1>5, <1>6

\* A batch hides letters that were visible, and leaves all others alone.
LEMMA BatchHides ==
  ASSUME TypeOK, NEW r \in Requests, NEW n \in Nat, NEW S \in Batches(n), ReceiveBatch(r, S)
  PROVE  /\ \A m \in S : /\ m \in Messages /\ deadLetters[m] # None /\ deadLetters[m].visible
                         /\ deadLetters'[m] # None /\ ~deadLetters'[m].visible
                         /\ deadLetters'[m].receiver = r
         /\ \A m \in Messages \ S : deadLetters'[m] = deadLetters[m]
<1>1. \A m \in S : m \in Messages /\ deadLetters[m] # None /\ deadLetters[m].visible
  BY DEF Batches
<1>2. \A m \in Messages : deadLetters'[m] = IF m \in S THEN Hidden(r, m) ELSE deadLetters[m]
  BY DEF ReceiveBatch
<1>3. \A m \in S : Hidden(r, m) # None /\ ~Hidden(r, m).visible /\ Hidden(r, m).receiver = r
  <2> SUFFICES ASSUME NEW m \in S
               PROVE  Hidden(r, m) # None /\ ~Hidden(r, m).visible /\ Hidden(r, m).receiver = r
    OBVIOUS
  <2>1. deadLetters[m] \in Letter
    BY <1>1 DEF TypeOK
  <2>2. ~Hidden(r, m).visible /\ Hidden(r, m).receiver = r
    BY <2>1 DEF Hidden, Letter
  <2>3. QED
    BY <1>1, <2>2, HiddenType
<1>4. QED
  BY <1>1, <1>2, <1>3

LEMMA InspectHolds ==
  ASSUME HoldInv, NEW r \in Requests, Inspect(r)
  PROVE  ConsumersHold' /\ ReplaysHold'
<1> USE DEF HoldInv, DeliveryInv
<1>1. PICK n \in MaxMessagesInputs : \E S \in Batches(n) : ReceiveBatch(r, S)
  BY DEF Inspect
<1>2. PICK S \in Batches(n) : ReceiveBatch(r, S)
  BY <1>1
<1>3. \A s \in Requests : \A copy \in replay[s].todo : copy.message \in Messages \ S
  BY <1>2, BatchHides, ReplayMessages, AuditAssumption DEF ReplaysHold, TypeInv
<1>4. ReplaysHold'
  BY <1>2, <1>3, BatchHides, AuditAssumption DEF Inspect, ReplaysHold, TypeInv
<1>5. QED
  BY <1>4 DEF Inspect, ConsumersHold

LEMMA ReplaySequentiallyHolds ==
  ASSUME HoldInv, NEW r \in Requests, ReplaySequentially(r)
  PROVE  ConsumersHold' /\ ReplaysHold'
<1> USE DEF HoldInv, DeliveryInv
<1> DEFINE Copies(T) == {[message |-> m, body |-> deadLetters[m].body] : m \in T}
<1>1. PICK n \in MaxMessagesInputs : \E S \in Batches(n), T \in SUBSET Messages :
        /\ T \subseteq S
        /\ ReceiveBatch(r, S)
        /\ replay' = [replay EXCEPT ![r] = [pc |-> "send", current |-> None, todo |-> Copies(T)]]
  BY DEF ReplaySequentially, Batches
<1>2. PICK S \in Batches(n), T \in SUBSET Messages :
        /\ T \subseteq S
        /\ ReceiveBatch(r, S)
        /\ replay' = [replay EXCEPT ![r] = [pc |-> "send", current |-> None, todo |-> Copies(T)]]
  BY <1>1
<1>3. \A s \in Requests : \A copy \in replay[s].todo : copy.message \in Messages \ S
  BY <1>2, BatchHides, ReplayMessages, AuditAssumption DEF ReplaysHold, TypeInv
<1>4. \A copy \in Copies(T) : copy.message \in S
  BY <1>2
<1> HIDE DEF Copies
<1>5. replay'[r].todo = Copies(T) /\ \A s \in Requests \ {r} : replay'[s] = replay[s]
  BY <1>2 DEF TypeInv, TypeOK
<1>6. ReplaysHold'
  <2> SUFFICES ASSUME NEW s \in Requests, NEW copy \in replay'[s].todo
               PROVE  /\ deadLetters'[copy.message] # None
                      /\ ~deadLetters'[copy.message].visible
                      /\ deadLetters'[copy.message].receiver = s
    BY DEF ReplaysHold
  <2>1. CASE s = r
    BY <1>2, <1>4, <1>5, <2>1, BatchHides, AuditAssumption DEF TypeInv
  <2>2. CASE s # r
    <3>1. copy \in replay[s].todo /\ deadLetters'[copy.message] = deadLetters[copy.message]
      BY <1>2, <1>3, <1>5, <2>2, BatchHides, AuditAssumption DEF TypeInv
    <3>2. QED
      BY <3>1 DEF ReplaysHold
  <2>3. QED
    BY <2>1, <2>2
<1>7. QED
  BY <1>6 DEF ReplaySequentially, ConsumersHold

LEMMA ReplayDeleteHolds ==
  ASSUME HoldInv, NEW r \in Requests, ReplayDelete(r)
  PROVE  /\ ConsumersHold' /\ ReplaysHold'
         /\ deadLetters'[replay[r].current.message] = None
         /\ \A n \in Messages \ {replay[r].current.message} : deadLetters'[n] = deadLetters[n]
<1> USE DEF HoldInv, DeliveryInv
<1>1. PICK copy, m, rest :
        /\ copy = replay[r].current /\ m = copy.message
        /\ rest = replay[r].todo \ {copy}
        /\ replay' = [replay EXCEPT ![r] =
             IF rest = {} THEN Idle ELSE [pc |-> "send", todo |-> rest, current |-> None]]
  BY DEF ReplayDelete
<1>2. copy \in replay[r].todo /\ copy \in Copy /\ m \in Messages
  BY <1>1, ReplayMessages DEF ReplayDelete, ReplayInv
<1>3. ValidReceipt(deadLetters[m], r)
  BY <1>1, <1>2 DEF ReplaysHold, ValidReceipt
<1>4. deadLetters' = [deadLetters EXCEPT ![m] = None]
  BY <1>1, <1>3 DEF ReplayDelete
<1>5. deadLetters'[m] = None /\ \A n \in Messages \ {m} : deadLetters'[n] = deadLetters[n]
  BY <1>2, <1>4 DEF TypeInv, TypeOK
<1>6. replay'[r].todo = rest /\ \A s \in Requests \ {r} : replay'[s] = replay[s]
  BY <1>1, IdleType DEF TypeInv, TypeOK
<1>7. \A x \in rest : x \in replay[r].todo /\ x.message \in Messages \ {m}
  <2> SUFFICES ASSUME NEW x \in rest, x.message = m
               PROVE  FALSE
    BY <1>1, ReplayMessages
  <2>1. x \in replay[r].todo /\ x \in Copy /\ x # copy
    BY <1>1, ReplayMessages
  <2>2. x.body = copy.body
    BY <1>1, <1>2, <2>1 DEF ReplayInv, ReplaysHold
  <2>3. x = copy
    BY <1>1, <1>2, <2>1, <2>2 DEF Copy
  <2>4. QED
    BY <2>1, <2>3
<1>8. \A s \in Requests \ {r} : \A x \in replay[s].todo : x.message \in Messages \ {m}
  BY <1>3, ReplayMessages DEF ReplaysHold, ValidReceipt
<1>9. ReplaysHold'
  BY <1>5, <1>6, <1>7, <1>8 DEF ReplaysHold
<1>10. ConsumersHold'
  BY DEF ReplayDelete, ConsumersHold
<1>11. QED
  BY <1>1, <1>5, <1>9, <1>10

LEMMA StepHold ==
  ASSUME OnlyDatabaseFails, HoldInv, [Next]_vars
  PROVE  HoldInv'
<1> USE DEF HoldInv
<1>1. DeliveryInv'
  BY StepDelivery
<1>2. SUFFICES ConsumersHold' /\ ReplaysHold'
  BY <1>1
<1>3. "queue" \notin Faults /\ "crash" \notin Faults
  BY DEF OnlyDatabaseFails
<1>4. ASSUME NEW e \in Events, Emit(e) \/ SwallowSendError(e)
      PROVE  ConsumersHold' /\ ReplaysHold'
  BY <1>4 DEF Emit, SwallowSendError, ConsumersHold, ReplaysHold
<1>5. ASSUME NEW e \in Events, NEW m \in Messages, QueueAuditLog(e, m)
      PROVE  ConsumersHold' /\ ReplaysHold'
  BY <1>5, EnqueueHolds DEF QueueAuditLog
<1>6. ASSUME NEW b \in ForeignBodies, NEW m \in Messages, ForeignSend(b, m)
      PROVE  ConsumersHold' /\ ReplaysHold'
  BY <1>6, EnqueueHolds DEF ForeignSend
<1>7. ASSUME NEW c \in Consumers, HandleMessage(c)
      PROVE  ConsumersHold' /\ ReplaysHold'
  <2>1. /\ consumer[c].pc # "poll" /\ consumer'[c].copy = consumer[c].copy
        /\ \A d \in Consumers \ {c} : consumer'[d] = consumer[d]
    BY <1>7 DEF HandleMessage, DeliveryInv, TypeInv, TypeOK, Consumer
  <2>2. QED
    BY <1>7, <2>1 DEF HandleMessage, ConsumersHold, ReplaysHold
<1>8. ASSUME NEW c \in Consumers, FailMessage(c)
      PROVE  ConsumersHold' /\ ReplaysHold'
  <2>1. consumer'[c].pc = "poll" /\ \A d \in Consumers \ {c} : consumer'[d] = consumer[d]
    BY <1>8, PollingType DEF FailMessage, DeliveryInv, TypeInv, TypeOK
  <2>2. QED
    BY <1>8, <2>1 DEF FailMessage, ConsumersHold, ReplaysHold
<1>9. ASSUME NEW r \in Requests, NEW copy \in replay[r].todo, NEW m \in Messages, ReplaySend(r, copy, m)
      PROVE  ConsumersHold' /\ ReplaysHold'
  <2>1. \A s \in Requests : replay'[s].todo = replay[s].todo
    BY <1>9 DEF ReplaySend, DeliveryInv, TypeInv, TypeOK
  <2>2. QED
    BY <1>9, <2>1, EnqueueHolds DEF ReplaySend
<1>10. ASSUME NEW r \in Requests, ReplayStop(r)
       PROVE  ConsumersHold' /\ ReplaysHold'
  <2>1. replay'[r].todo = {} /\ \A s \in Requests \ {r} : replay'[s] = replay[s]
    BY <1>10, IdleType DEF ReplayStop, DeliveryInv, TypeInv, TypeOK
  <2>2. QED
    BY <1>10, <2>1 DEF ReplayStop, ConsumersHold, ReplaysHold
<1>11. CASE UNCHANGED vars
  BY <1>11 DEF vars, ConsumersHold, ReplaysHold
<1>12. QED
  BY <1>3, <1>4, <1>5, <1>6, <1>7, <1>8, <1>9, <1>10, <1>11, ReceiveHolds, DeleteHolds,
     EndTimeoutHolds, EndLetterTimeoutHolds, RedriveHolds, InspectHolds,
     ReplaySequentiallyHolds, ReplayDeleteHolds
  DEF Next, SendStep, ConsumerStep, QueueStep, ReplayStep, FailDelete, Crash

----------------------------------------------------------------------------
(***************************************************************************)
(* One way to the table for each event.                                    *)
(***************************************************************************)

\* Steps after which nothing more is pending, and nothing more is audited.
LEMMA NothingNew ==
  ASSUME OnceInv, sending' \subseteq sending, UNCHANGED <<audits, accepted>>,
         \A m \in Messages, e \in Events : Pending(m, e)' => Pending(m, e)
  PROVE  OnceInv'
BY DEF OnceInv

LEMMA QueueAuditLogOnce ==
  ASSUME HoldInv, OnceInv, NEW e \in Events, NEW m \in Messages, QueueAuditLog(e, m)
  PROVE  OnceInv'
<1> USE DEF HoldInv, DeliveryInv
<1>1. /\ deadLetters[m] = None /\ queue'[m].body = e
      /\ \A n \in Messages \ {m} : queue'[n] = queue[n]
  BY NewMessageType DEF QueueAuditLog, Enqueue, MessageInv, TypeInv, TypeOK, Bodies
<1>2. e \notin accepted
  BY DEF QueueAuditLog, OnceInv
<1>3. \A n \in Messages : ~Pending(n, e)
  BY <1>2, AuditAssumption DEF Pending, MessageInv, Known
<1>4. \A n \in Messages : (BeingAcknowledged(n)' <=> BeingAcknowledged(n)) /\ (BeingDeleted(n)' <=> BeingDeleted(n))
  BY DEF QueueAuditLog, BeingAcknowledged, BeingDeleted
<1>5. \A n \in Messages, x \in Events : Pending(n, x)' => Pending(n, x) \/ (n = m /\ x = e)
  BY <1>1, <1>4 DEF QueueAuditLog, Pending
<1>6. QED
  BY <1>2, <1>3, <1>5 DEF QueueAuditLog, OnceInv

LEMMA ForeignSendOnce ==
  ASSUME HoldInv, OnceInv, NEW b \in ForeignBodies, NEW m \in Messages, ForeignSend(b, m)
  PROVE  OnceInv'
<1> USE DEF HoldInv, DeliveryInv
<1>1. /\ deadLetters[m] = None /\ queue'[m].body = b
      /\ \A n \in Messages \ {m} : queue'[n] = queue[n]
  BY NewMessageType DEF ForeignSend, Enqueue, MessageInv, TypeInv, TypeOK, Bodies
<1>2. \A n \in Messages, e \in Events : Pending(n, e)' => Pending(n, e)
  BY <1>1, AuditAssumption DEF ForeignSend, Pending, BeingAcknowledged, BeingDeleted
<1>3. QED
  BY <1>2, NothingNew DEF ForeignSend

\* The new message takes the place of the letter, which the replay that sent it
\* holds alone.
LEMMA ReplaySendOnce ==
  ASSUME HoldInv, OnceInv, NEW r \in Requests, NEW copy \in replay[r].todo, NEW m \in Messages,
         ReplaySend(r, copy, m)
  PROVE  OnceInv'
<1> USE DEF HoldInv, DeliveryInv
<1>1. PICK l, e : l = copy.message /\ e = copy.body
  OBVIOUS
<1>2. /\ l \in Messages /\ e \in Events
      /\ queue[l] = None /\ deadLetters[l] # None /\ deadLetters[l].body = e
      /\ deadLetters[l].receiver = r
  BY <1>1, ReplayMessages DEF ReplaySend, IsPayload, ReplayInv, ReplaysHold
<1>3. /\ queue[m] = None /\ deadLetters[m] = None /\ queue'[m].body = e
      /\ \A n \in Messages \ {m} : queue'[n] = queue[n]
  BY <1>1, <1>2, NewMessageType DEF ReplaySend, Enqueue, MessageInv, TypeInv, TypeOK, Bodies
<1>4. /\ replay[r].pc = "send" /\ replay'[r].pc = "delete" /\ replay'[r].current = copy
      /\ \A s \in Requests \ {r} : replay'[s] = replay[s]
  BY DEF ReplaySend, TypeInv, TypeOK
<1>5. ~BeingDeleted(l)
  BY <1>1, <1>2, <1>4 DEF BeingDeleted, ReplayInv, ReplaysHold
<1>6. Pending(l, e)
  BY <1>2, <1>5 DEF Pending
<1>7. BeingDeleted(l)' /\ \A n \in Messages : BeingDeleted(n) => BeingDeleted(n)'
  BY <1>1, <1>4 DEF BeingDeleted
<1>8. \A n \in Messages : BeingAcknowledged(n)' <=> BeingAcknowledged(n)
  BY DEF ReplaySend, BeingAcknowledged
<1>9. \A n \in Messages, x \in Events : Pending(n, x)' => (Pending(n, x) /\ n # l) \/ (n = m /\ x = e)
  <2> SUFFICES ASSUME NEW n \in Messages, NEW x \in Events, Pending(n, x)', n # m \/ x # e
               PROVE  Pending(n, x) /\ n # l
    OBVIOUS
  <2>1. n # m
    BY <1>3 DEF ReplaySend, Pending
  <2>2. QED
    BY <1>2, <1>3, <1>7, <1>8, <2>1 DEF ReplaySend, Pending
<1>10. \A n \in Messages : Pending(n, e) => n = l
  BY <1>2, <1>6 DEF OnceInv
<1>11. audits[e] = 0
  BY <1>2, <1>6 DEF OnceInv
<1>12. UNCHANGED <<audits, sending, accepted>>
  BY DEF ReplaySend
<1>13. QED
  BY <1>9, <1>10, <1>11, <1>12 DEF OnceInv

LEMMA HandleMessageOnce ==
  ASSUME HoldInv, OnceInv, NEW c \in Consumers, HandleMessage(c)
  PROVE  OnceInv'
<1> USE DEF HoldInv, DeliveryInv
<1>1. PICK m, e : m = consumer[c].copy.message /\ e = consumer[c].copy.body
  OBVIOUS
<1>2. /\ m \in Messages /\ e \in Events
      /\ queue[m] # None /\ queue[m].body = e /\ queue[m].receiver = c /\ deadLetters[m] = None
  BY <1>1, ConsumerMessages DEF HandleMessage, IsPayload, ConsumersHold, ConsumerInv, MessageInv
<1>3. ~BeingAcknowledged(m)
  BY <1>1, <1>2 DEF HandleMessage, BeingAcknowledged, ConsumersHold
<1>4. Pending(m, e)
  BY <1>2, <1>3 DEF Pending
<1>5. audits[e] = 0 /\ e \in accepted /\ \A n \in Messages : Pending(n, e) => n = m
  <2>1. audits[e] = 0 /\ \A n \in Messages : Pending(n, e) => n = m
    BY <1>2, <1>4 DEF OnceInv
  <2>2. e \in accepted
    BY <1>2, AuditAssumption DEF MessageInv, Known
  <2>3. QED
    BY <2>1, <2>2
<1>6. audits'[e] = 1 /\ \A x \in Events \ {e} : audits'[x] = audits[x]
  BY <1>1, <1>2, <1>5 DEF HandleMessage, TypeInv, TypeOK, Bodies
<1>7. /\ consumer'[c].pc = "saved" /\ consumer'[c].copy = consumer[c].copy
      /\ \A d \in Consumers \ {c} : consumer'[d] = consumer[d]
  BY DEF HandleMessage, TypeInv, TypeOK, Consumer
<1>8. BeingAcknowledged(m)' /\ \A n \in Messages : BeingAcknowledged(n) => BeingAcknowledged(n)'
  BY <1>1, <1>7 DEF BeingAcknowledged
<1>9. \A n \in Messages : BeingDeleted(n)' <=> BeingDeleted(n)
  BY DEF HandleMessage, BeingDeleted
<1>10. \A n \in Messages, x \in Events : Pending(n, x)' => Pending(n, x) /\ n # m
  BY <1>2, <1>8, <1>9 DEF HandleMessage, Pending
<1>11. UNCHANGED <<sending, accepted>>
  BY DEF HandleMessage
<1>12. QED
  BY <1>5, <1>6, <1>10, <1>11 DEF OnceInv

LEMMA DeleteMessageOnce ==
  ASSUME HoldInv, OnceInv, NEW c \in Consumers, DeleteMessage(c)
  PROVE  OnceInv'
<1> USE DEF HoldInv, DeliveryInv
<1>1. PICK m : m = consumer[c].copy.message
  OBVIOUS
<1>2. queue'[m] = None /\ \A n \in Messages \ {m} : queue'[n] = queue[n]
  BY <1>1, DeleteHolds
<1>3. \A d \in Consumers \ {c} : consumer'[d] = consumer[d]
  BY DEF DeleteMessage, TypeInv, TypeOK
<1>4. \A n \in Messages \ {m} : BeingAcknowledged(n) => BeingAcknowledged(n)'
  BY <1>1, <1>3 DEF BeingAcknowledged
<1>5. \A n \in Messages, e \in Events : Pending(n, e)' => Pending(n, e)
  BY <1>2, <1>4 DEF DeleteMessage, Pending, BeingDeleted
<1>6. QED
  BY <1>5, NothingNew DEF DeleteMessage

LEMMA RedriveOnce ==
  ASSUME HoldInv, OnceInv, NEW m \in Messages, Redrive(m)
  PROVE  OnceInv'
<1> USE DEF HoldInv, DeliveryInv
<1>1. queue[m] # None /\ queue[m].visible
  BY DEF Redrive
<1>2. ~BeingAcknowledged(m)
  BY <1>1 DEF BeingAcknowledged, ConsumersHold
<1>3. /\ queue'[m] = None /\ deadLetters'[m].body = queue[m].body
      /\ \A n \in Messages \ {m} : queue'[n] = queue[n] /\ deadLetters'[n] = deadLetters[n]
  BY DEF Redrive, TypeInv, TypeOK
<1>4. \A n \in Messages, e \in Events : Pending(n, e)' => Pending(n, e)
  BY <1>1, <1>2, <1>3 DEF Redrive, Pending, BeingAcknowledged, BeingDeleted
<1>5. QED
  BY <1>4, NothingNew DEF Redrive

LEMMA ReplayDeleteOnce ==
  ASSUME HoldInv, OnceInv, NEW r \in Requests, ReplayDelete(r)
  PROVE  OnceInv'
<1> USE DEF HoldInv, DeliveryInv
<1>1. PICK m : m = replay[r].current.message
  OBVIOUS
<1>2. deadLetters'[m] = None /\ \A n \in Messages \ {m} : deadLetters'[n] = deadLetters[n]
  BY <1>1, ReplayDeleteHolds
<1>3. \A s \in Requests \ {r} : replay'[s] = replay[s]
  BY DEF ReplayDelete, TypeInv, TypeOK
<1>4. \A n \in Messages \ {m} : BeingDeleted(n) => BeingDeleted(n)'
  BY <1>1, <1>3 DEF BeingDeleted
<1>5. \A n \in Messages, e \in Events : Pending(n, e)' => Pending(n, e)
  BY <1>2, <1>4 DEF ReplayDelete, Pending, BeingAcknowledged
<1>6. QED
  BY <1>5, NothingNew DEF ReplayDelete

\* Steps that keep what the queues hold, and what is about to be deleted.
LEMMA QuietOnce ==
  ASSUME OnceInv, SameQueue, SameLetters, sending' \subseteq sending, UNCHANGED <<audits, accepted>>,
         \A m \in Messages : BeingAcknowledged(m) => BeingAcknowledged(m)',
         \A m \in Messages : BeingDeleted(m) => BeingDeleted(m)'
  PROVE  OnceInv'
<1>1. \A m \in Messages, e \in Events : Pending(m, e)' => Pending(m, e)
  BY DEF Pending, SameQueue, SameLetters
<1>2. QED
  BY <1>1, NothingNew

LEMMA StepOnce ==
  ASSUME OnlyDatabaseFails, HoldInv, OnceInv, [Next]_vars
  PROVE  OnceInv'
<1> USE DEF HoldInv, DeliveryInv
<1>1. "queue" \notin Faults /\ "crash" \notin Faults
  BY DEF OnlyDatabaseFails
<1>2. ASSUME NEW e \in Events, Emit(e)
      PROVE  OnceInv'
  <2>1. e \notin accepted
    BY <1>2 DEF Emit, TypeInv, TypeOK
  <2>2. \A m \in Messages, x \in Events : Pending(m, x)' <=> Pending(m, x)
    BY <1>2 DEF Emit, Pending, BeingAcknowledged, BeingDeleted
  <2>3. QED
    BY <1>2, <2>1, <2>2 DEF Emit, OnceInv
<1>3. ASSUME NEW c \in Consumers, NEW m \in Messages, ReceiveMessage(c, m)
      PROVE  OnceInv'
  <2>1. PICK q, p : /\ q = queue[m] /\ q \in Message
                    /\ p = [q EXCEPT !.visible = FALSE, !.receives = q.receives + 1, !.receiver = c]
                    /\ queue' = [queue EXCEPT ![m] = p]
    BY <1>3 DEF ReceiveMessage, TypeInv, TypeOK
  <2>2. p.body = q.body
    BY <2>1 DEF Message
  <2>3. \A n \in Messages \ {m} : queue'[n] = queue[n]
    BY <2>1 DEF TypeInv, TypeOK
  <2>4. queue[m] # None /\ queue'[m].body = queue[m].body
    BY <1>3, <2>1, <2>2 DEF ReceiveMessage, TypeInv, TypeOK
  <2>5. consumer[c].pc = "poll" /\ \A d \in Consumers \ {c} : consumer'[d] = consumer[d]
    BY <1>3 DEF ReceiveMessage, TypeInv, TypeOK
  <2>6. \A n \in Messages : BeingAcknowledged(n) => BeingAcknowledged(n)'
    BY <2>5 DEF BeingAcknowledged
  <2>7. \A n \in Messages, e \in Events : Pending(n, e)' => Pending(n, e)
    BY <1>3, <2>3, <2>4, <2>6 DEF ReceiveMessage, Pending, BeingDeleted
  <2>8. QED
    BY <1>3, <2>7, NothingNew DEF ReceiveMessage
<1>4. ASSUME NEW c \in Consumers, FailMessage(c)
      PROVE  OnceInv'
  <2>1. consumer[c].pc = "handle" /\ \A d \in Consumers \ {c} : consumer'[d] = consumer[d]
    BY <1>4 DEF FailMessage, TypeInv, TypeOK
  <2>2. \A n \in Messages : BeingAcknowledged(n) => BeingAcknowledged(n)'
    BY <2>1 DEF BeingAcknowledged
  <2>3. QED
    BY <1>4, <2>2, QuietOnce DEF FailMessage, SameQueue, SameLetters, BeingDeleted
<1>5. ASSUME NEW m \in Messages, EndVisibilityTimeout(m)
      PROVE  OnceInv'
  <2>1. PICK q, p : q = queue[m] /\ p = [q EXCEPT !.visible = TRUE] /\ queue' = [queue EXCEPT ![m] = p]
    BY <1>5 DEF EndVisibilityTimeout
  <2>2. q \in Message
    BY <1>5, <2>1 DEF EndVisibilityTimeout, TypeInv, TypeOK
  <2>3. p \in Message /\ p.body = q.body
    BY <2>1, <2>2 DEF Message
  <2>4. SameQueue
    BY <2>1, <2>2, <2>3, NoneAssumption DEF SameQueue, TypeInv, TypeOK
  <2>5. QED
    BY <1>5, <2>4, QuietOnce DEF EndVisibilityTimeout, SameLetters, BeingAcknowledged, BeingDeleted
<1>6. ASSUME NEW m \in Messages, EndLetterTimeout(m)
      PROVE  OnceInv'
  <2>1. PICK l, p : /\ l = deadLetters[m] /\ p = [l EXCEPT !.visible = TRUE]
                    /\ deadLetters' = [deadLetters EXCEPT ![m] = p]
    BY <1>6 DEF EndLetterTimeout
  <2>2. l \in Letter
    BY <1>6, <2>1 DEF EndLetterTimeout, TypeInv, TypeOK
  <2>3. p \in Letter /\ p.body = l.body
    BY <2>1, <2>2 DEF Letter
  <2>4. SameLetters
    BY <2>1, <2>2, <2>3, NoneAssumption DEF SameLetters, TypeInv, TypeOK
  <2>5. QED
    BY <1>6, <2>4, QuietOnce DEF EndLetterTimeout, SameQueue, BeingAcknowledged, BeingDeleted
<1>7. ASSUME NEW r \in Requests, Inspect(r)
      PROVE  OnceInv'
  <2>1. SameLetters
    BY <1>7, BatchLetters, AuditAssumption DEF Inspect, SameLetters, TypeInv
  <2>2. QED
    BY <1>7, <2>1, QuietOnce DEF Inspect, SameQueue, BeingAcknowledged, BeingDeleted
<1>8. ASSUME NEW r \in Requests, ReplaySequentially(r)
      PROVE  OnceInv'
  <2>1. PICK n \in MaxMessagesInputs : \E S \in Batches(n) : ReceiveBatch(r, S)
    BY <1>8 DEF ReplaySequentially
  <2>2. SameLetters
    BY <2>1, BatchLetters, AuditAssumption DEF SameLetters, TypeInv
  <2>3. replay[r].pc = "idle" /\ \A s \in Requests \ {r} : replay'[s] = replay[s]
    BY <1>8 DEF ReplaySequentially, TypeInv, TypeOK
  <2>4. \A m \in Messages : BeingDeleted(m) => BeingDeleted(m)'
    BY <2>3 DEF BeingDeleted
  <2>5. QED
    BY <1>8, <2>2, <2>4, QuietOnce DEF ReplaySequentially, SameQueue, BeingAcknowledged
<1>9. ASSUME NEW r \in Requests, ReplayStop(r)
      PROVE  OnceInv'
  <2>1. replay[r].pc = "send" /\ \A s \in Requests \ {r} : replay'[s] = replay[s]
    BY <1>1, <1>9 DEF ReplayStop, TypeInv, TypeOK
  <2>2. \A m \in Messages : BeingDeleted(m) => BeingDeleted(m)'
    BY <2>1 DEF BeingDeleted
  <2>3. QED
    BY <1>9, <2>2, QuietOnce DEF ReplayStop, SameQueue, SameLetters, BeingAcknowledged
<1>10. CASE UNCHANGED vars
  BY <1>10, QuietOnce DEF vars, SameQueue, SameLetters, BeingAcknowledged, BeingDeleted
<1>11. QED
  BY <1>1, <1>2, <1>3, <1>4, <1>5, <1>6, <1>7, <1>8, <1>9, <1>10, QueueAuditLogOnce,
     ForeignSendOnce, ReplaySendOnce, HandleMessageOnce, DeleteMessageOnce, RedriveOnce,
     ReplayDeleteOnce
  DEF Next, SendStep, ConsumerStep, QueueStep, ReplayStep, SwallowSendError, FailDelete, Crash

LEMMA InitOnce == Init => HoldInv /\ OnceInv
<1> SUFFICES ASSUME Init
             PROVE  HoldInv /\ OnceInv
  OBVIOUS
<1>1. ConsumersHold /\ ReplaysHold
  BY PollingType, IdleType DEF Init, ConsumersHold, ReplaysHold
<1>2. OnceInv
  BY DEF Init, OnceInv, Pending, Bodies
<1>3. QED
  BY <1>1, <1>2, InitDelivery DEF HoldInv

\* While only the database fails, no event is audited twice: not by retries of
\* the queue, not by overlapping consumers, replays and inspections.
THEOREM AuditedOnce ==
  ASSUME Faults \subseteq {"database"}
  PROVE  Spec => []AuditedAtMostOnce
<1>1. OnlyDatabaseFails
  BY DEF OnlyDatabaseFails
<1>2. Init => HoldInv /\ OnceInv
  BY InitOnce
<1>3. HoldInv /\ OnceInv /\ [Next]_vars => (HoldInv /\ OnceInv)'
  BY <1>1, StepHold, StepOnce
<1>4. OnceInv => AuditedAtMostOnce
  BY DEF OnceInv, AuditedAtMostOnce
<1>5. QED
  BY <1>2, <1>3, <1>4, PTL DEF Spec
=============================================================================

---------------------------- MODULE AuditDelivery ----------------------------
(***************************************************************************)
(* At-least-once delivery, which src/audit/README.md promises for audit    *)
(* events: an event that the queue has accepted is held until it has been  *)
(* audited.  It may be audited, and held again, any number of times.       *)
(* AuditPipeline.tla is the code's way of doing this.                      *)
(***************************************************************************)
CONSTANT Events

VARIABLES
  accepted,  \* the events that the queue has accepted
  held,      \* those that it will still deliver, or keeps as dead letters
  audited    \* those with a row in the audits table

vars == <<accepted, held, audited>>

Init ==
  /\ accepted = {}
  /\ held = {}
  /\ audited = {}

Accept(e) ==
  /\ accepted' = accepted \union {e}
  /\ held' = held \union {e}
  /\ UNCHANGED audited

Audit(e) ==
  /\ e \in accepted
  /\ audited' = audited \union {e}
  /\ UNCHANGED <<accepted, held>>

Release(e) ==
  /\ e \in audited
  /\ held' = held \ {e}
  /\ UNCHANGED <<accepted, audited>>

HoldAgain(e) ==
  /\ e \in accepted
  /\ held' = held \union {e}
  /\ UNCHANGED <<accepted, audited>>

Next == \E e \in Events : Accept(e) \/ Audit(e) \/ Release(e) \/ HoldAgain(e)

Spec == Init /\ [][Next]_vars
=============================================================================

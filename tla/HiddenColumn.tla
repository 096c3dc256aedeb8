---------------------------- MODULE HiddenColumn ----------------------------
(***************************************************************************)
(* What the service promises of a column that no ordinary read loads       *)
(* (select: false on the entity), whatever requests overlap: its value is  *)
(* that of the last request that was asked to change it, and each request  *)
(* changes it at most once.  A row that is inserted, for the first time or *)
(* again after its removal, has a value only if the request that inserts   *)
(* it was asked to bring one.  So no save of a copy brings an old value    *)
(* back.                                                                   *)
(***************************************************************************)
CONSTANTS
  Users, Requests, Values,
  NoValue,  \* the column is empty
  NoUser,   \* the user of a change that comes with a sign-up
  NoWrite

VARIABLES
  exists,   \* the users that have a row
  value,    \* the column of each user's row, NoValue if empty or no row
  pending   \* the change that each request is about to make, or NoWrite

vars == <<exists, value, pending>>

Change == [user : Users \union {NoUser}, value : Values \union {NoValue}]

Init ==
  /\ exists \in SUBSET Users
  /\ value \in [Users -> Values \union {NoValue}]
  /\ \A u \in Users \ exists : value[u] = NoValue
  /\ pending = [r \in Requests |-> NoWrite]

\* A row is inserted by a request that has no value for the column.
Enrol(u) ==
  /\ u \notin exists
  /\ exists' = exists \union {u}
  /\ UNCHANGED <<value, pending>>

Ask(r) ==
  /\ pending[r] = NoWrite
  /\ \E c \in Change :
       c.user \in exists \union {NoUser} /\ pending' = [pending EXCEPT ![r] = c]
  /\ UNCHANGED <<exists, value>>

\* The change is made.  A row that has gone is inserted again with it, and
\* that of a sign-up is inserted.
Apply(r) ==
  /\ pending[r] # NoWrite
  /\ \E u \in Users :
       /\ pending[r].user = u \/ (pending[r].user = NoUser /\ u \notin exists)
       /\ exists' = exists \union {u}
       /\ value' = [value EXCEPT ![u] = pending[r].value]
  /\ pending' = [pending EXCEPT ![r] = NoWrite]

\* The requests R fail, or find no row to change.
Abandon(R) ==
  /\ pending' = [r \in Requests |-> IF r \in R THEN NoWrite ELSE pending[r]]
  /\ UNCHANGED <<exists, value>>

Remove(u) ==
  /\ u \in exists
  /\ exists' = exists \ {u}
  /\ value' = [value EXCEPT ![u] = NoValue]
  /\ UNCHANGED pending

Next ==
  \/ \E u \in Users : Enrol(u) \/ Remove(u)
  \/ \E r \in Requests : Ask(r) \/ Apply(r)
  \/ \E R \in SUBSET Requests : Abandon(R)

Spec == Init /\ [][Next]_vars
=============================================================================

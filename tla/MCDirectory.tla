---------------------------- MODULE MCDirectory ----------------------------
(***************************************************************************)
(* Instances of Directory for TLC.                                         *)
(***************************************************************************)
EXTENDS Directory, FiniteSets, TLC

\* Appointments are made for two customers, of one business or of two.
MCWorkloads ==
  {[routes |-> {"createOne", "updateOne", "deleteCustomer", "importCustomers"}, members |-> {}]}
  \union
  {[routes |-> {"deleteCustomer", "create", "updateGoogleEventId", "update", "delete"},
    members |-> S] : S \in {S \in SUBSET Customers : Cardinality(S) = 2}}

Symmetry ==
  Permutations(Requests) \union Permutations(Customers) \union Permutations(Businesses)
    \union Permutations(Emails)
=============================================================================

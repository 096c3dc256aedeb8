----------------------------- MODULE MCAccounts -----------------------------
(***************************************************************************)
(* Instances of Accounts for TLC.                                          *)
(***************************************************************************)
EXTENDS Accounts, TLC

\* Routes that change the same columns are called together.
MCWorkloads ==
  {[routes |-> {"signup", "google"}, members |-> {}],
   [routes |-> {"google", "googleMobile"}, members |-> {}],
   [routes |-> {"signup", "confirm", "resend", "verify", "profile", "delete"}, members |-> {}],
   [routes |-> {"signin", "refresh", "logout", "reset", "delete", "google"}, members |-> Users],
   [routes |-> {"createBusiness", "updateBusiness", "profile"}, members |-> Users]}

Symmetry ==
  Permutations(Requests) \union Permutations(Users) \union Permutations(Businesses)
    \union Permutations(Emails) \union Permutations(GoogleIds) \union Permutations(Passwords)
=============================================================================

--------------------------- MODULE MCAuditPipeline ---------------------------
(***************************************************************************)
(* Instances of AuditPipeline for TLC.                                     *)
(***************************************************************************)
EXTENDS AuditPipeline, TLC

Symmetry ==
  Permutations(Messages) \union Permutations(Consumers) \union Permutations(Requests)
=============================================================================

------------------------------- MODULE MCPlan -------------------------------
(* The plan on a small instance.  Contracts, refs and questions are only    *)
(* compared, so they may be permuted.                                       *)
EXTENDS Plan, TLC

Symmetry == Permutations(Contract) \cup Permutations(Ref)
=============================================================================

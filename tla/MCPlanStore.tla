----------------------------- MODULE MCPlanStore -----------------------------
(* Two processes on one file; contracts, refs, processes and agents may be  *)
(* permuted.                                                                *)
EXTENDS PlanStore, TLC

Symmetry ==
    Permutations(Contract) \cup Permutations(Ref)
        \cup Permutations(Process) \cup Permutations(Agent)
=============================================================================

-------------------------- MODULE MCPolicyLifecycle --------------------------
(***************************************************************************)
(* Instances of PolicyLifecycle for TLC: one PolicyServer and one policy.  *)
(***************************************************************************)
EXTENDS PolicyRefinement

CONSTANTS p1, s1

MCServerOf == [p \in Policies |-> s1]
=============================================================================

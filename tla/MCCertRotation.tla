--------------------------- MODULE MCCertRotation ---------------------------
(***************************************************************************)
(* An instance of CertRotation for TLC: one PolicyServer with one policy,  *)
(* and the controller's own webhook configurations.                        *)
(***************************************************************************)
EXTENDS CertRotation

CONSTANTS s1, w1, o1

MCPolicyServerOf == [w \in PolicyWebhooks |-> s1]
=============================================================================

------------------------- MODULE MCMixedGrantManager -------------------------
(* Small instances of MixedGrantManager: one issuer, two roots, a policy that  *)
(* moves between the modes, proofs that expire before and after the TTL.       *)
EXTENDS MixedGrantManager

CONSTANTS u1, u2, r1, r2, iss, ct, dom

Zk(mode, root) ==
    [ mode |-> mode, cnfIssuer |-> iss, credentialType |-> ct, zkDomain |-> dom,
      acceptedRoot |-> root, minKycLevel |-> 2, maxGrantTTL |-> 2 ]

CnfOnly == [ mode |-> "CNF_ONLY", cnfIssuer |-> iss, credentialType |-> ct,
             zkDomain |-> NoDomain, acceptedRoot |-> NoRoot, minKycLevel |-> 0,
             maxGrantTTL |-> 2 ]

ProofOf(u, root, e) ==
    [user |-> u, zkDomain |-> dom, root |-> root, kycLevel |-> 2, expiresAt |-> e]

MCTypeOf == [i \in Issuers |-> ct]
\* The policy as it evolves: both sources, either source, a new root.
EvolvingConfigs == {Zk("BOTH", r1), Zk("EITHER", r2)}
EvolvingProofs == {ProofOf(u1, r1, 3), ProofOf(u1, r2, 5)}
\* One policy, two users with their own and each other's evidence.
EitherConfig == {Zk("EITHER", r1)}
TwoUserProofs == {ProofOf(u1, r1, 3), ProofOf(u2, r1, 5)}
=============================================================================

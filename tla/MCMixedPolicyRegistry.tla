------------------------ MODULE MCMixedPolicyRegistry ------------------------
(* A small instance of MixedPolicyRegistry: two roots, four configurations an *)
(* owner may submit, a delay of two ticks.                                    *)
EXTENDS MixedPolicyRegistry

CONSTANTS u1, r1, r2, iss, ct, dom

CnfOnly == [ mode |-> "CNF_ONLY", cnfIssuer |-> iss, credentialType |-> ct,
             zkDomain |-> NoDomain, acceptedRoot |-> NoRoot, minKycLevel |-> 0,
             maxGrantTTL |-> 2 ]

Either(root) == [ mode |-> "EITHER", cnfIssuer |-> iss, credentialType |-> ct,
                  zkDomain |-> dom, acceptedRoot |-> root, minKycLevel |-> 2,
                  maxGrantTTL |-> 2 ]

\* A CNF_ONLY configuration whose acceptedRoot _validate does not look at.
CnfOnlyWithRoot == [CnfOnly EXCEPT !.acceptedRoot = r1]

\* Refused by _validate: the KYC level is out of range.
BadLevel == [Either(r1) EXCEPT !.minKycLevel = 4]

MCConfigs == {CnfOnly, CnfOnlyWithRoot, Either(r1), Either(r2), BadLevel}
=============================================================================

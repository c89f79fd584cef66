-------------------------- MODULE MixedGrantManager --------------------------
(***************************************************************************)
(* Eligibility of a wallet to trade or to add liquidity in the pool:        *)
(* contracts/src/mixed/MixedGrantManager.sol with the policy registry it    *)
(* reads (MixedPolicyRegistry), the credential issuers it asks              *)
(* (PilotCNFIssuer) and the nonces it spends (MixedAuthorization).          *)
(*                                                                         *)
(* A grant is written by activate, from a message the user signed, and is   *)
(* only ever re-evaluated afterwards: isEligible compares it with what the  *)
(* registry and the issuer say at that moment.  The owner of the registry,  *)
(* the issuers, the users and time interleave freely between the two.       *)
(***************************************************************************)
EXTENDS MixedPolicyRegistry, Sequences

CONSTANTS
    TypeOf,         \* the credential type each issuer certifies
    MaxExpiry,      \* bound: the latest expiry of a credential or proof
    Proofs,         \* the Groth16 proofs that verify, see Proof below
    NoProof,        \* the empty proof
    Nonces,         \* the nonces users draw from, also a bound on activations
    Deadlines,      \* the deadlines users sign
    Expiries,       \* the expiries credentials are issued with
    CancelSpaces    \* the namespaces in which users cancel nonces

(* The public inputs of a proof: whose wallet it binds, the four governance  *)
(* words, the root, the KYC level and the expiry of the credential in it.    *)
Proof == [ user : Users, zkDomain : ZkDomains, root : Roots,
           kycLevel : Nat, expiresAt : 1..MaxExpiry ]

ASSUME GrantAssumption ==
    /\ TypeOf \in [Issuers -> CredentialTypes]
    /\ MaxExpiry \in Nat
    /\ Proofs \subseteq Proof
    /\ NoProof \notin Proofs
    /\ Deadlines \subseteq Nat
    /\ Expiries \subseteq 1..MaxExpiry
    /\ CancelSpaces \subseteq 0..5

VARIABLES
    tokenByWallet, credentials, \* of the issuers
    nonces,         \* of the grant manager
    grants,         \* grants[poolId]
    seen,           \* history: the policies users can have read and signed
    activations,    \* history: how often each user activated
    spent,          \* history: how often each <<user, nonce>> was accepted
    admission,      \* history: when and on what each user was last admitted
    fresh           \* history: who activated after the policy last changed
                    \* and after their own last ban

INSTANCE PilotCNFIssuer
INSTANCE MixedAuthorization

issuerVars == <<tokenByWallet, credentials>>
historyVars == <<activations, spent, admission>>
grantVars == <<nonces, grants, historyVars>>
vars == <<registryVars, issuerVars, grantVars, seen, fresh>>

EmptyGrant ==
    [ policyHash |-> NoHash, revision |-> 0, rootEpoch |-> 0, userEpoch |-> 0,
      expiresAt |-> 0, source |-> {}, root |-> NoRoot, credentialId |-> 0 ]

-----------------------------------------------------------------------------
\* _sourceAllowed, with the bits of source as a set.
SourceAllowed(mode, source) ==
    CASE mode = "CNF_ONLY" -> source = {"CNF"}
      [] mode = "ZK_ONLY" -> source = {"ZK"}
      [] mode = "EITHER" -> source \in {{"CNF"}, {"ZK"}}
      [] mode = "BOTH" -> source = {"CNF", "ZK"}
      [] OTHER -> FALSE

\* Mutant: a credential that was issued is good for ever.
CnfHeld(c, u) == tokenByWallet[c.cnfIssuer][u] # 0

\* _cnf: the issuer vouches for the user with a credential of the type required.
CnfAccepts(c, u) ==
    /\ CredentialValid(c.cnfIssuer, u)
    /\ CredentialMatches(c.cnfIssuer, tokenByWallet[c.cnfIssuer][u], u, c.credentialType)

\* _proof: a proof that verifies, of this user, domain, root and level.
ProofAccepted(c, u, proof) ==
    /\ proof \in Proofs
    /\ proof.user = u
    /\ proof.zkDomain = c.zkDomain
    /\ proof.expiresAt > now
    /\ proof.root = c.acceptedRoot
    /\ proof.kycLevel = c.minKycLevel

Earlier(a, b) == IF b < a THEN b ELSE a

\* Mutant: in activate, the expiry of the credential in a proof is ignored.
ExpiryWithoutProof(c, u, source, proof) ==
    LET ttl == now + c.maxGrantTTL
        id == tokenByWallet[c.cnfIssuer][u]
    IN  IF "CNF" \in source THEN Earlier(ttl, credentials[c.cnfIssuer][id].expiresAt)
                            ELSE ttl

\* The expiry of a grant: the TTL of the policy, cut to that of the evidence.
GrantExpiry(c, u, source, proof) ==
    LET ttl == now + c.maxGrantTTL
        id == tokenByWallet[c.cnfIssuer][u]
        cnf == IF "CNF" \in source
               THEN Earlier(ttl, credentials[c.cnfIssuer][id].expiresAt) ELSE ttl
    IN  IF "ZK" \in source THEN Earlier(cnf, proof.expiresAt) ELSE cnf

\* Mutant: activate takes a message signed under another policy.
AnyPolicySigned(signed) == policy.enabled

\* What activate compares of the signed message with the policy in force.
PolicySigned(signed) ==
    /\ policy.enabled
    /\ policy.revision = signed.revision
    /\ policy.executionPolicyHash = signed.executionPolicyHash
    /\ policy.config.acceptedRoot = signed.config.acceptedRoot
    /\ policy.rootEpoch = signed.rootEpoch

\* Mutant: activate spends the nonce of another namespace.
SpendElsewhere(u, n) == Consume(u, LP_ADD, n)

SpendActivation(u, n) == Consume(u, GRANT_ACTIVATION, n)

\* activate: u signed `signed', a policy read earlier, with a source, a nonce and
\* the hash of the evidence; anybody may submit it.
GrantActivate(u, signed, source, proof, n, deadline) ==
    LET c == policy.config IN
    /\ InTime(now, deadline)
    /\ PolicySigned(signed)
    /\ u \notin banned
    /\ SourceAllowed(c.mode, source)
    /\ SpendActivation(u, n)
    /\ "CNF" \in source => CnfAccepts(c, u)
    /\ IF "ZK" \in source THEN policy.zkEnabled /\ ProofAccepted(c, u, proof)
                          ELSE proof = NoProof
    /\ grants' = [grants EXCEPT ![u] =
         [ policyHash |-> policy.executionPolicyHash, revision |-> policy.revision,
           rootEpoch |-> policy.rootEpoch, userEpoch |-> userEpoch[u],
           expiresAt |-> GrantExpiry(c, u, source, proof), source |-> source,
           root |-> c.acceptedRoot,
           credentialId |-> IF "CNF" \in source THEN tokenByWallet[c.cnfIssuer][u] ELSE 0 ]]
    /\ activations' = [activations EXCEPT ![u] = @ + 1]
    /\ spent' = [spent EXCEPT ![<<u, n>>] = @ + 1]
    /\ admission' = [admission EXCEPT ![u] =
         [at |-> now, signed |-> signed.executionPolicyHash, proof |-> proof]]
    /\ fresh' = fresh \cup {u}
    /\ UNCHANGED <<registryVars, issuerVars, seen>>

\* cancelNonce of the grant manager; only one namespace is ever read by activate.
GrantCancelNonce(u, space, n) ==
    /\ CancelNonce(u, space, n)
    /\ spent' = IF space = GRANT_ACTIVATION THEN [spent EXCEPT ![<<u, n>>] = @ + 1] ELSE spent
    /\ UNCHANGED <<registryVars, issuerVars, grants, activations, admission, seen, fresh>>

-----------------------------------------------------------------------------
\* The three calls isEligible makes on the issuer; one that reverts is a no.
CnfStillValid(c, u, g) ==
    /\ CredentialValid(c.cnfIssuer, u)
    /\ tokenByWallet[c.cnfIssuer][u] = g.credentialId
    /\ CredentialMatches(c.cnfIssuer, g.credentialId, u, c.credentialType)

\* Mutant: a grant is judged without the ban epoch of its user.
UserInGoodStanding_NoEpoch(u, g) == u \notin banned

UserInGoodStanding(u, g) == u \notin banned /\ g.userEpoch = userEpoch[u]

\* isEligible(poolId, user, policyHash, revision)
IsEligible(u, policyHash, revision) ==
    LET g == grants[u]
        c == policy.config
    IN  /\ policy.enabled
        /\ policy.revision = revision
        /\ policy.executionPolicyHash = policyHash
        /\ g.policyHash = policyHash
        /\ g.revision = revision
        /\ g.expiresAt > now
        /\ UserInGoodStanding(u, g)
        /\ SourceAllowed(c.mode, g.source)
        /\ "ZK" \in g.source => /\ policy.zkEnabled
                                /\ g.root = c.acceptedRoot
                                /\ g.rootEpoch = policy.rootEpoch
        /\ "CNF" \in g.source => CnfStillValid(c, u, g)

\* Who could have an order accepted now.
Eligible == {u \in Users : IsEligible(u, policy.executionPolicyHash, policy.revision)}

-----------------------------------------------------------------------------
Init ==
    /\ RegistryInit
    /\ IssuerInit
    /\ nonces = {}
    /\ grants = [u \in Users |-> EmptyGrant]
    /\ seen = {}
    /\ activations = [u \in Users |-> 0]
    /\ spent = [un \in Users \X Nonces |-> 0]
    /\ admission = [u \in Users |-> [at |-> 0, signed |-> NoHash, proof |-> NoProof]]
    /\ fresh = {}

\* A step of the registry: others may read the new policy from now on, and no
\* earlier activation answers for a changed policy or a user just banned.
RegistryStep ==
    /\ RegistryNext
    /\ seen' = seen \cup (IF policy'.enabled THEN {policy'} ELSE {})
    /\ fresh' = IF policy' # policy THEN {} ELSE fresh \ banned'
    /\ UNCHANGED <<issuerVars, grantVars>>

IssuerStep ==
    /\ \E i \in Issuers, u \in Users :
          \/ \E e \in Expiries : Issue(i, u, e)
          \/ RevokeCredential(i, u)
    /\ UNCHANGED <<registryVars, grantVars, seen, fresh>>

UserStep(u) ==
    \E n \in Nonces :
        \/ \E signed \in seen, source \in SUBSET {"CNF", "ZK"},
              proof \in Proofs \cup {NoProof}, deadline \in Deadlines :
              GrantActivate(u, signed, source, proof, n, deadline)
        \/ \E space \in CancelSpaces : GrantCancelNonce(u, space, n)

Next ==
    \/ RegistryStep
    \/ IssuerStep
    \/ \E u \in Users : UserStep(u)

Spec == Init /\ [][Next]_vars

-----------------------------------------------------------------------------
(* Properties. *)

\* Nobody is eligible on an activation that predates a change of policy, a
\* retired root, an emergency stop or a ban of the user, even after the ban is
\* lifted or the same configuration is enabled again.
StaleGrantNeverEligible == Eligible \subseteq fresh

\* Eligibility ends with the TTL counted from the activation and with the
\* evidence it rested on: with the credential in the proof, which is not read
\* again, and with the credential of the issuer, which is.
EligibilityIsBounded ==
    \A u \in Eligible :
        LET a == admission[u] IN
        /\ now < a.at + policy.config.maxGrantTTL
        /\ "ZK" \in grants[u].source => now < a.proof.expiresAt
        /\ policy.config.mode = "BOTH" =>
              now < a.proof.expiresAt /\ CredentialValid(policy.config.cnfIssuer, u)

\* Whoever is eligible has signed the very policy in force, with its revision and
\* root epoch, whatever was in force when they signed or when the message, which
\* anybody may hold back, was submitted.
EligibleAsSigned == \A u \in Eligible : admission[u].signed = policy.executionPolicyHash

\* A nonce of the activation namespace is accepted once, to activate or to
\* cancel; spending the same nonce in another namespace does not interfere.
NonceSpentOnce ==
    \A u \in Users, n \in Nonces :
        /\ spent[<<u, n>>] <= 1
        /\ NonceUsed(u, GRANT_ACTIVATION, n) <=> spent[<<u, n>>] = 1

\* The promise to the hook: a wallet becomes eligible by its own activation, and
\* by nothing else, and every activation that is accepted makes it eligible.
Promise == INSTANCE Eligibility WITH eligible <- Eligible
EligibilityOnlyByActivation == Promise!Spec
=============================================================================

------------------------- MODULE MixedPolicyRegistry -------------------------
(***************************************************************************)
(* The governance state of one permissioned pool, as kept by               *)
(* contracts/src/mixed/MixedPolicyRegistry.sol: the policy in force, the    *)
(* one pending proposal, the retired roots and the per-user bans.           *)
(*                                                                         *)
(* Every mutator of the contract is onlyOwner, so an action stands for a    *)
(* transaction of the owner that did not revert; a reverted transaction     *)
(* changes nothing and is a stuttering step.  `now' is block.timestamp.     *)
(*                                                                         *)
(* A policy hash is the record of the fields that are hashed: keccak256 is  *)
(* taken to be injective.                                                   *)
(***************************************************************************)
EXTENDS Integers

CONSTANTS
    Users,          \* wallets that may be banned (the zero address is not one)
    Roots, NoRoot,  \* Merkle roots; NoRoot is the zero word
    Issuers, NoIssuer,          \* CNF issuer contracts; NoIssuer has no code
    CredentialTypes, NoType,    \* credential types; NoType is the zero word
    ZkDomains, NoDomain,        \* issuerHash, schemaHash, jurisdictionRoot and
                                \* zkPolicyHash together; NoDomain if any of
                                \* them is no nonzero field element
    Configs,        \* the Config values an owner may submit
    NoHash,         \* the hash of a policy never configured
    DELAY,          \* 48 hours, in ticks
    MaxGrantTTL,    \* 7 days, in ticks
    MaxTime,        \* bound: last block timestamp
    MaxRevision,    \* bound: policy revisions of a behaviour
    MaxUserEpoch    \* bound: bans and unbans of one user

Modes == {"UNSET", "CNF_ONLY", "ZK_ONLY", "EITHER", "BOTH"}

Config == [ mode : Modes,
            cnfIssuer : Issuers \cup {NoIssuer},
            credentialType : CredentialTypes \cup {NoType},
            zkDomain : ZkDomains \cup {NoDomain},
            acceptedRoot : Roots \cup {NoRoot},
            minKycLevel : Nat,
            maxGrantTTL : Nat ]

ASSUME RegistryAssumption ==
    /\ NoRoot \notin Roots
    /\ NoIssuer \notin Issuers
    /\ NoType \notin CredentialTypes
    /\ NoDomain \notin ZkDomains
    /\ Configs \subseteq Config
    /\ DELAY \in Nat \ {0}
    /\ MaxGrantTTL \in Nat
    /\ MaxTime \in Nat \ {0}
    /\ MaxRevision \in Nat
    /\ MaxUserEpoch \in Nat

VARIABLES
    now,            \* block.timestamp
    policy,         \* _policies[poolId]
    pending,        \* _pending[poolId]
    retiredRoot,    \* the roots r with retiredRoot[poolId][r]
    banned,         \* the users u with banned[poolId][u]
    userEpoch,      \* userEpoch[poolId]
    unbanAfter,     \* unbanAfter[poolId], 0 when no unban is proposed
    proposal,       \* history: the latest proposal and whether it still stands
    bannedAt,       \* history: when each user was last banned
    dropped         \* history: roots that were replaced or invalidated

policyVars == <<policy, pending, retiredRoot, proposal, dropped>>
banVars == <<banned, userEpoch, unbanAfter, bannedAt>>
registryVars == <<now, policyVars, banVars>>

EmptyConfig ==
    [ mode |-> "UNSET", cnfIssuer |-> NoIssuer, credentialType |-> NoType,
      zkDomain |-> NoDomain, acceptedRoot |-> NoRoot, minKycLevel |-> 0,
      maxGrantTTL |-> 0 ]

NoPending == [config |-> EmptyConfig, activateAfter |-> 0]

\* Mutant: only the timestamp of the proposal is deleted.
PartialDeletePending == [pending EXCEPT !.activateAfter = 0]

\* delete _pending[poolId]
DeletePending == NoPending

-----------------------------------------------------------------------------
(* _hash: the record of what is hashed. *)
PolicyHash(p) ==
    [ config |-> p.config, revision |-> p.revision, rootEpoch |-> p.rootEpoch,
      enabled |-> p.enabled, zkEnabled |-> p.zkEnabled ]

\* Mutant: a mutator that forgets to call _hash.
NotRehashed(p) == p

Rehashed(p) == [p EXCEPT !.executionPolicyHash = PolicyHash(p)]

\* The part of _validate that looks at the proposal alone.
WellFormed(c) ==
    /\ c.mode # "UNSET"
    /\ c.maxGrantTTL \in 1..MaxGrantTTL
    /\ c.minKycLevel <= 3
    /\ c.mode # "ZK_ONLY" => c.cnfIssuer # NoIssuer /\ c.credentialType # NoType
    /\ c.mode # "CNF_ONLY" => c.zkDomain # NoDomain /\ c.acceptedRoot # NoRoot

(* _validate: a ZK policy may not accept a retired root. *)
Valid(c) ==
    /\ WellFormed(c)
    /\ c.mode # "CNF_ONLY" => c.acceptedRoot \notin retiredRoot

\* Mutant: replacing a root does not retire it.
ForgetReplacedRoot(c) == {}

\* The root _apply retires when c replaces the configuration in force.
ReplacedRoot(c) == {policy.config.acceptedRoot} \ {NoRoot, c.acceptedRoot}

(* _apply: c becomes the policy in force at a new revision and root epoch. *)
Apply(c) ==
    /\ policy.revision < MaxRevision
    /\ retiredRoot' = retiredRoot \cup ReplacedRoot(c)
    /\ policy' = Rehashed([ policy EXCEPT
                              !.config = c,
                              !.revision = @ + 1,
                              !.rootEpoch = @ + 1,
                              !.enabled = TRUE,
                              !.zkEnabled = c.mode # "CNF_ONLY" ])
    /\ dropped' = dropped \cup
         (IF c.acceptedRoot # policy.config.acceptedRoot
          THEN {policy.config.acceptedRoot} \ {NoRoot} ELSE {})

-----------------------------------------------------------------------------
(* Owner transactions on the policy. *)

\* configure: the first configuration applies at once, a later one is proposed
\* and overwrites the proposal pending, if any.
Configure(c) ==
    /\ Valid(c)
    /\ \/ /\ policy.revision = 0
          /\ Apply(c)
          /\ UNCHANGED <<pending, proposal>>
       \/ /\ policy.revision # 0
          /\ pending' = [config |-> c, activateAfter |-> now + DELAY]
          /\ proposal' = [config |-> c, at |-> now, standing |-> TRUE]
          /\ UNCHANGED <<policy, retiredRoot, dropped>>
    /\ UNCHANGED <<now, banVars>>

\* Mutant: activate checks that a proposal exists, not that it has matured.
PendingAtAll == pending.activateAfter # 0

PendingMatured == pending.activateAfter # 0 /\ now >= pending.activateAfter

\* activate: a matured proposal is validated again and applied.
Activate ==
    /\ PendingMatured
    /\ Valid(pending.config)
    /\ Apply(pending.config)
    /\ pending' = DeletePending
    /\ proposal' = [proposal EXCEPT !.standing = FALSE]
    /\ UNCHANGED <<now, banVars>>

\* cancelProposal: legal even when nothing is pending.
CancelProposal ==
    /\ pending' = DeletePending
    /\ proposal' = [proposal EXCEPT !.standing = FALSE]
    /\ UNCHANGED <<now, policy, retiredRoot, dropped, banVars>>

\* Mutant: a proposal survives the emergency stop.
PendingSurvivesStop == pending

\* delete _pending[poolId] in disable and invalidateRoot
PendingAfterStop == NoPending

\* disable: immediate, and no proposal survives it.
Disable ==
    /\ policy.revision \in 1..(MaxRevision - 1)
    /\ policy' = Rehashed([ policy EXCEPT !.enabled = FALSE,
                                          !.revision = @ + 1,
                                          !.rootEpoch = @ + 1 ])
    /\ pending' = PendingAfterStop
    /\ proposal' = [proposal EXCEPT !.standing = FALSE]
    /\ UNCHANGED <<now, retiredRoot, dropped, banVars>>

\* invalidateRoot: the root in force is retired and ZK grants stop at once.
InvalidateRoot ==
    /\ policy.revision \in 1..(MaxRevision - 1)
    /\ policy.config.acceptedRoot # NoRoot
    /\ retiredRoot' = retiredRoot \cup {policy.config.acceptedRoot}
    /\ policy' = Rehashed([ policy EXCEPT !.zkEnabled = FALSE,
                                          !.revision = @ + 1,
                                          !.rootEpoch = @ + 1 ])
    /\ pending' = PendingAfterStop
    /\ proposal' = [proposal EXCEPT !.standing = FALSE]
    /\ dropped' = dropped \cup {policy.config.acceptedRoot}
    /\ UNCHANGED <<now, banVars>>

-----------------------------------------------------------------------------
(* Owner transactions on one user. *)

\* Mutant: a ban leaves the unban that was proposed before it.
KeepUnbanProposal(u) == unbanAfter

\* delete unbanAfter[poolId][user]
DeleteUnbanProposal(u) == [unbanAfter EXCEPT ![u] = 0]

\* ban: also of a user already banned, and then it voids the proposed unban.
Ban(u) ==
    /\ policy.revision > 0
    /\ userEpoch[u] < MaxUserEpoch
    /\ banned' = banned \cup {u}
    /\ userEpoch' = [userEpoch EXCEPT ![u] = @ + 1]
    /\ unbanAfter' = DeleteUnbanProposal(u)
    /\ bannedAt' = [bannedAt EXCEPT ![u] = now]
    /\ UNCHANGED <<now, policyVars>>

ProposeUnban(u) ==
    /\ u \in banned
    /\ unbanAfter' = [unbanAfter EXCEPT ![u] = now + DELAY]
    /\ UNCHANGED <<now, policyVars, banned, userEpoch, bannedAt>>

\* activateUnban: the epoch moves again, so no grant of before the ban revives.
ActivateUnban(u) ==
    /\ unbanAfter[u] # 0
    /\ now >= unbanAfter[u]
    /\ userEpoch[u] < MaxUserEpoch
    /\ unbanAfter' = [unbanAfter EXCEPT ![u] = 0]
    /\ banned' = banned \ {u}
    /\ userEpoch' = [userEpoch EXCEPT ![u] = @ + 1]
    /\ UNCHANGED <<now, policyVars, bannedAt>>

-----------------------------------------------------------------------------
\* The next block.
Tick ==
    /\ now < MaxTime
    /\ now' = now + 1
    /\ UNCHANGED <<policyVars, banVars>>

RegistryInit ==
    /\ now = 1
    /\ policy = [ config |-> EmptyConfig, executionPolicyHash |-> NoHash,
                  revision |-> 0, rootEpoch |-> 0, enabled |-> FALSE,
                  zkEnabled |-> FALSE ]
    /\ pending = NoPending
    /\ retiredRoot = {}
    /\ banned = {}
    /\ userEpoch = [u \in Users |-> 0]
    /\ unbanAfter = [u \in Users |-> 0]
    /\ proposal = [config |-> EmptyConfig, at |-> 0, standing |-> FALSE]
    /\ bannedAt = [u \in Users |-> 0]
    /\ dropped = {}

RegistryNext ==
    \/ \E c \in Configs : Configure(c)
    \/ Activate
    \/ CancelProposal
    \/ Disable
    \/ InvalidateRoot
    \/ \E u \in Users : Ban(u) \/ ProposeUnban(u) \/ ActivateUnban(u)
    \/ Tick

RegistrySpec == RegistryInit /\ [][RegistryNext]_registryVars

-----------------------------------------------------------------------------
(* Properties. *)

\* What a configuration in storage can be: validated once, or never written.
Stored(c) == c \in Configs /\ WellFormed(c)

PolicyType ==
    [ config : Configs \cup {EmptyConfig}, executionPolicyHash :
        {NoHash} \cup [ config : Configs, revision : Nat, rootEpoch : Nat,
                        enabled : BOOLEAN, zkEnabled : BOOLEAN ],
      revision : 0..MaxRevision, rootEpoch : 0..MaxRevision,
      enabled : BOOLEAN, zkEnabled : BOOLEAN ]

\* Storage holds a well-formed policy as soon as it was configured, and a slot
\* of _pending is either empty as a whole or holds a complete proposal.
RegistryTypeOK ==
    /\ now \in 1..MaxTime
    /\ policy \in PolicyType
    /\ IF policy.revision = 0 THEN policy.config = EmptyConfig ELSE Stored(policy.config)
    /\ \/ pending = NoPending
       \/ /\ pending \in [config : Configs, activateAfter : 1..(MaxTime + DELAY)]
          /\ Stored(pending.config)
    /\ retiredRoot \subseteq Roots
    /\ banned \subseteq Users
    /\ userEpoch \in [Users -> 0..MaxUserEpoch]
    /\ unbanAfter \in [Users -> 0..(MaxTime + DELAY)]
    /\ proposal \in [ config : Configs \cup {EmptyConfig}, at : 0..MaxTime,
                      standing : BOOLEAN ]
    /\ bannedAt \in [Users -> 0..MaxTime]
    /\ dropped \subseteq Roots

\* The stored hash is at all times the hash of the policy in force, so that an
\* order or grant that names it names this configuration, revision and epoch,
\* and an emergency stop moves it too (_hash at the end of every mutator).
HashIsCurrent ==
    policy.revision > 0 => policy.executionPolicyHash = PolicyHash(policy)

\* A root that was replaced or invalidated never backs ZK eligibility again,
\* whatever is proposed and activated later (retiredRoot, _validate, _apply).
DroppedRootStaysDead ==
    policy.zkEnabled => policy.config.acceptedRoot \in Roots \ dropped

\* A proposal in storage can always be activated when it matures: no sequence of
\* calls leaves one behind that the second _validate of activate would refuse.
PendingStaysValid ==
    pending.activateAfter # 0 => policy.revision > 0 /\ Valid(pending.config)

\* After the first configuration, the policy changes in a way that admits
\* anything new only to what was proposed DELAY ago and not cancelled, disabled
\* or overtaken by a retired root since (the 48 hours of SPEC.md).
ChangeWaitsForDelay ==
    [][ /\ policy.revision > 0
        /\ \/ policy'.config # policy.config
           \/ policy'.enabled /\ ~policy.enabled
           \/ policy'.zkEnabled /\ ~policy.zkEnabled
        => /\ proposal.standing
           /\ proposal.config = policy'.config
           /\ now >= proposal.at + DELAY ]_registryVars

\* A user is unbanned no sooner than DELAY after the latest ban: an unban that
\* was proposed before a second ban cannot be used after it.
UnbanWaitsForDelay ==
    [][ \A u \in banned \ banned' : now >= bannedAt[u] + DELAY ]_registryVars

=============================================================================

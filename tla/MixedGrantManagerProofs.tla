----------------------- MODULE MixedGrantManagerProofs -----------------------
(***************************************************************************)
(* What the policy registry guarantees, then what a grant stored on top of  *)
(* it is worth, for any users, roots, issuers, configurations, delays,      *)
(* proofs and nonces, and that the grant manager keeps its promise to the   *)
(* hook.                                                                    *)
(***************************************************************************)
EXTENDS MixedGrantManager, TLAPS

-----------------------------------------------------------------------------
(* The registry: the inductive invariant, what its properties need to be preserved. *)

\* A policy admits ZK grants only on a root that is not retired.
ZkRootIsLive ==
    policy.zkEnabled => policy.config.acceptedRoot \in Roots \ retiredRoot

\* A proposal pending is the latest one, still stands, and matures DELAY after it.
PendingIsProposal ==
    pending.activateAfter # 0 =>
        /\ proposal.standing
        /\ proposal.config = pending.config
        /\ pending.activateAfter = proposal.at + DELAY

\* Before the first configuration nothing is pending.
NothingBeforeFirst == policy.revision = 0 => pending = NoPending /\ ~policy.zkEnabled

\* A proposed unban matures DELAY after the latest ban at the earliest.
UnbanAfterBan ==
    \A u \in Users : /\ bannedAt[u] <= now
                     /\ unbanAfter[u] # 0 => unbanAfter[u] >= bannedAt[u] + DELAY

\* Every revision is a new root epoch: the contract moves both together.
EpochIsRevision == policy.rootEpoch = policy.revision

RegistryInv ==
    /\ RegistryTypeOK
    /\ EpochIsRevision
    /\ HashIsCurrent
    /\ ZkRootIsLive
    /\ dropped \subseteq retiredRoot
    /\ NothingBeforeFirst
    /\ PendingStaysValid
    /\ PendingIsProposal
    /\ UnbanAfterBan

-----------------------------------------------------------------------------
\* What _apply leaves in the policy slot for a valid configuration.
LEMMA ApplyPolicy ==
    ASSUME RegistryTypeOK, EpochIsRevision, NEW c \in Configs, Valid(c), Apply(c)
    PROVE  /\ policy' \in PolicyType
           /\ policy'.config = c
           /\ policy'.revision = policy.revision + 1
           /\ policy'.enabled
           /\ policy'.zkEnabled = (c.mode # "CNF_ONLY")
           /\ policy'.rootEpoch = policy'.revision
           /\ policy'.executionPolicyHash = PolicyHash(policy')
           /\ retiredRoot' = retiredRoot \cup ReplacedRoot(c)
           /\ dropped' = dropped \cup ReplacedRoot(c)
<1> USE RegistryAssumption
<1>1. policy \in PolicyType BY DEF RegistryTypeOK
<1> DEFINE r == policy.revision + 1
           e == policy.rootEpoch + 1
           z == c.mode # "CNF_ONLY"
           h == [ config |-> c, revision |-> r, rootEpoch |-> e,
                  enabled |-> TRUE, zkEnabled |-> z ]
<1>2. r \in 0..MaxRevision /\ e \in 0..MaxRevision /\ e = r
  BY <1>1 DEF Apply, PolicyType, EpochIsRevision
<1>3. policy' = [ config |-> c, executionPolicyHash |-> h, revision |-> r,
                  rootEpoch |-> e, enabled |-> TRUE, zkEnabled |-> z ]
  BY <1>1 DEF Apply, Rehashed, PolicyHash, PolicyType
<1>4. h \in [ config : Configs, revision : Nat, rootEpoch : Nat,
               enabled : BOOLEAN, zkEnabled : BOOLEAN ]
  BY <1>2
<1>5. policy' \in PolicyType
  BY <1>2, <1>3, <1>4 DEF PolicyType
<1>6. policy'.executionPolicyHash = PolicyHash(policy')
  BY <1>3 DEF PolicyHash
<1>7. retiredRoot' = retiredRoot \cup ReplacedRoot(c) /\ dropped' = dropped \cup ReplacedRoot(c)
  BY DEF Apply, ReplacedRoot
<1>8. QED
  BY <1>2, <1>3, <1>5, <1>6, <1>7

\* The registry starts without a policy, a proposal, a root or a ban.
LEMMA RegistryInitInv == RegistryInit => RegistryInv
BY RegistryAssumption
   DEF RegistryInit, RegistryInv, RegistryTypeOK, PolicyType, HashIsCurrent,
       EpochIsRevision, ZkRootIsLive, NothingBeforeFirst, PendingStaysValid, PendingIsProposal,
       UnbanAfterBan, NoPending, EmptyConfig
-----------------------------------------------------------------------------
(* The registry: its invariant is preserved, one lemma per transaction. *)

\* configure stores what _validate accepted, in force or pending.
LEMMA ConfigureInv ==
    ASSUME RegistryInv, NEW c \in Configs, Configure(c)
    PROVE  RegistryInv'
<1> USE RegistryAssumption DEF RegistryInv
<1>1. CASE policy.revision = 0 /\ Apply(c) /\ UNCHANGED <<pending, proposal>>
  <2>1. Valid(c) BY DEF Configure
  <2>2. /\ policy' \in PolicyType
        /\ policy'.config = c
        /\ policy'.revision = policy.revision + 1
        /\ policy'.rootEpoch = policy'.revision
        /\ policy'.zkEnabled = (c.mode # "CNF_ONLY")
        /\ policy'.executionPolicyHash = PolicyHash(policy')
        /\ retiredRoot' = retiredRoot \cup ReplacedRoot(c)
        /\ dropped' = dropped \cup ReplacedRoot(c)
    BY <1>1, <2>1, ApplyPolicy
  <2>3. policy.config = EmptyConfig /\ pending = NoPending
    BY <1>1 DEF RegistryTypeOK, NothingBeforeFirst
  <2>4. ReplacedRoot(c) = {} BY <2>3 DEF ReplacedRoot, EmptyConfig
  <2>5. RegistryTypeOK'
    BY <1>1, <2>1, <2>2, <2>4 DEF RegistryTypeOK, PolicyType, Stored, Valid, Configure, banVars
  <2>6. c.mode # "CNF_ONLY" => c.acceptedRoot \in Roots \ retiredRoot
    BY <2>1 DEF Valid, WellFormed, Config
  <2>7. (HashIsCurrent /\ EpochIsRevision /\ ZkRootIsLive /\ NothingBeforeFirst)'
    BY <1>1, <2>2, <2>4, <2>6 DEF HashIsCurrent, EpochIsRevision, ZkRootIsLive,
       NothingBeforeFirst, RegistryTypeOK, PolicyType
  <2>8. (PendingStaysValid /\ PendingIsProposal)'
    BY <1>1, <2>3 DEF PendingStaysValid, PendingIsProposal, NoPending
  <2>9. UnbanAfterBan'
    BY DEF UnbanAfterBan, Configure, banVars
  <2>10. QED BY <2>2, <2>4, <2>5, <2>7, <2>8, <2>9
<1>2. CASE /\ policy.revision # 0
           /\ pending' = [config |-> c, activateAfter |-> now + DELAY]
           /\ proposal' = [config |-> c, at |-> now, standing |-> TRUE]
           /\ UNCHANGED <<policy, retiredRoot, dropped>>
  <2>1. Valid(c) BY DEF Configure
  <2>2. RegistryTypeOK'
    BY <1>2, <2>1 DEF RegistryTypeOK, PolicyType, Stored, Valid, WellFormed, Configure, banVars
  <2>3. (HashIsCurrent /\ EpochIsRevision /\ ZkRootIsLive /\ NothingBeforeFirst)'
    BY <1>2 DEF HashIsCurrent, EpochIsRevision, ZkRootIsLive, NothingBeforeFirst, PolicyHash
  <2>4. PendingStaysValid'
    BY <1>2, <2>1 DEF PendingStaysValid, Valid, WellFormed, RegistryTypeOK, PolicyType
  <2>5. (PendingIsProposal /\ UnbanAfterBan)'
    BY <1>2 DEF PendingIsProposal, UnbanAfterBan, Configure, banVars
  <2>6. QED BY <1>2, <2>2, <2>3, <2>4, <2>5
<1>3. QED BY <1>1, <1>2 DEF Configure

\* activate applies the proposal and leaves none.
LEMMA ActivateInv ==
    ASSUME RegistryInv, Activate
    PROVE  RegistryInv'
<1> USE RegistryAssumption DEF RegistryInv
<1> DEFINE c == pending.config
<1>1. c \in Configs /\ Valid(c) /\ Stored(c)
  BY DEF Activate, PendingMatured, RegistryTypeOK, NoPending, Valid, Stored
<1>2. Apply(c) BY DEF Activate
<1>3. /\ policy' \in PolicyType
      /\ policy'.config = c
      /\ policy'.revision = policy.revision + 1
      /\ policy'.rootEpoch = policy'.revision
      /\ policy'.zkEnabled = (c.mode # "CNF_ONLY")
      /\ policy'.executionPolicyHash = PolicyHash(policy')
      /\ retiredRoot' = retiredRoot \cup ReplacedRoot(c)
      /\ dropped' = dropped \cup ReplacedRoot(c)
  BY <1>1, <1>2, ApplyPolicy
<1>4. policy.revision \in Nat /\ policy'.revision # 0
  BY <1>3 DEF RegistryTypeOK, PolicyType
<1>5. ReplacedRoot(c) \subseteq Roots
  BY DEF ReplacedRoot, RegistryTypeOK, PolicyType, Config, EmptyConfig
<1>6. c.mode # "CNF_ONLY" => c.acceptedRoot \in Roots \ (retiredRoot \cup ReplacedRoot(c))
  BY <1>1 DEF Valid, WellFormed, Config, ReplacedRoot
<1>7. pending' = NoPending /\ proposal' = [proposal EXCEPT !.standing = FALSE]
      /\ UNCHANGED <<now, banned, userEpoch, unbanAfter, bannedAt>>
  BY DEF Activate, DeletePending, banVars
<1>8. RegistryTypeOK'
  BY <1>1, <1>3, <1>4, <1>5, <1>7 DEF RegistryTypeOK, Stored
<1>9. (HashIsCurrent /\ EpochIsRevision /\ ZkRootIsLive /\ NothingBeforeFirst)'
  BY <1>3, <1>4, <1>6 DEF HashIsCurrent, EpochIsRevision, ZkRootIsLive, NothingBeforeFirst
<1>10. (PendingStaysValid /\ PendingIsProposal /\ UnbanAfterBan)'
  BY <1>7 DEF PendingStaysValid, PendingIsProposal, NoPending, UnbanAfterBan
<1>11. QED BY <1>3, <1>8, <1>9, <1>10

\* cancelProposal empties the slot of the proposal.
LEMMA CancelProposalInv ==
    ASSUME RegistryInv, CancelProposal
    PROVE  RegistryInv'
<1> USE RegistryAssumption DEF RegistryInv, CancelProposal, DeletePending, banVars
<1>1. RegistryTypeOK' BY DEF RegistryTypeOK, PolicyType, Stored, WellFormed
<1>2. (HashIsCurrent /\ EpochIsRevision /\ ZkRootIsLive /\ NothingBeforeFirst)'
  BY DEF HashIsCurrent, EpochIsRevision, ZkRootIsLive, NothingBeforeFirst, PolicyHash
<1>3. (PendingStaysValid /\ PendingIsProposal /\ UnbanAfterBan)'
  BY DEF PendingStaysValid, PendingIsProposal, NoPending, UnbanAfterBan
<1>4. QED BY <1>1, <1>2, <1>3

\* Both emergency stops: the policy moves to a new revision, nothing stays pending.
LEMMA DisableInv ==
    ASSUME RegistryInv, Disable
    PROVE  RegistryInv'
<1> USE RegistryAssumption DEF RegistryInv
<1> DEFINE r == policy.revision + 1
           h == [ config |-> policy.config, revision |-> r, rootEpoch |-> r,
                  enabled |-> FALSE, zkEnabled |-> policy.zkEnabled ]
<1>1. policy \in PolicyType /\ r \in 0..MaxRevision /\ Stored(policy.config)
  BY DEF Disable, RegistryTypeOK, PolicyType, Stored
<1>2. policy' = [ config |-> policy.config, executionPolicyHash |-> h, revision |-> r,
                  rootEpoch |-> r, enabled |-> FALSE, zkEnabled |-> policy.zkEnabled ]
  BY <1>1 DEF Disable, PolicyType, Rehashed, PolicyHash, EpochIsRevision
<1>3. /\ policy'.config = policy.config /\ policy'.revision = r /\ policy'.rootEpoch = r
       /\ policy'.zkEnabled = policy.zkEnabled /\ policy'.executionPolicyHash = PolicyHash(policy')
       /\ r # 0
  BY <1>1, <1>2 DEF PolicyHash, PolicyType
<1>4. pending' = NoPending /\ proposal' = [proposal EXCEPT !.standing = FALSE]
      /\ UNCHANGED <<now, retiredRoot, dropped, banned, userEpoch, unbanAfter, bannedAt>>
  BY DEF Disable, PendingAfterStop, banVars
<1>5. h \in [ config : Configs, revision : Nat, rootEpoch : Nat,
               enabled : BOOLEAN, zkEnabled : BOOLEAN ]
  BY <1>1 DEF PolicyType, Stored
<1>6. policy' \in PolicyType
  BY <1>1, <1>2, <1>5 DEF PolicyType, Stored
<1>7. RegistryTypeOK'
  BY <1>1, <1>2, <1>6, <1>4, <1>3 DEF RegistryTypeOK, Stored, WellFormed
<1>8. (HashIsCurrent /\ EpochIsRevision /\ ZkRootIsLive /\ NothingBeforeFirst)'
  BY <1>3, <1>4 DEF HashIsCurrent, EpochIsRevision, ZkRootIsLive, NothingBeforeFirst
<1>9. (PendingStaysValid /\ PendingIsProposal /\ UnbanAfterBan)'
  BY <1>4 DEF PendingStaysValid, PendingIsProposal, NoPending, UnbanAfterBan
<1>10. QED BY <1>7, <1>8, <1>9, <1>4

\* invalidateRoot retires the root in force and leaves no proposal of it.
LEMMA InvalidateRootInv ==
    ASSUME RegistryInv, InvalidateRoot
    PROVE  RegistryInv'
<1> USE RegistryAssumption DEF RegistryInv
<1> DEFINE r == policy.revision + 1
           h == [ config |-> policy.config, revision |-> r, rootEpoch |-> r,
                  enabled |-> policy.enabled, zkEnabled |-> FALSE ]
<1>1. policy \in PolicyType /\ r \in 0..MaxRevision /\ Stored(policy.config)
  BY DEF InvalidateRoot, RegistryTypeOK, PolicyType, Stored
<1>2. policy' = [ config |-> policy.config, executionPolicyHash |-> h, revision |-> r,
                  rootEpoch |-> r, enabled |-> policy.enabled, zkEnabled |-> FALSE ]
  BY <1>1 DEF InvalidateRoot, PolicyType, Rehashed, PolicyHash, EpochIsRevision
<1>3. /\ policy'.config = policy.config /\ policy'.revision = r /\ policy'.rootEpoch = r
       /\ ~policy'.zkEnabled /\ policy'.executionPolicyHash = PolicyHash(policy')
       /\ r # 0
  BY <1>1, <1>2 DEF PolicyHash, PolicyType
<1>4. /\ pending' = NoPending /\ proposal' = [proposal EXCEPT !.standing = FALSE]
       /\ retiredRoot' = retiredRoot \cup {policy.config.acceptedRoot}
       /\ dropped' = dropped \cup {policy.config.acceptedRoot}
       /\ UNCHANGED <<now, banned, userEpoch, unbanAfter, bannedAt>>
  BY DEF InvalidateRoot, PendingAfterStop, banVars
<1>5. h \in [ config : Configs, revision : Nat, rootEpoch : Nat,
               enabled : BOOLEAN, zkEnabled : BOOLEAN ]
  BY <1>1 DEF PolicyType, Stored
<1>6. policy' \in PolicyType
  BY <1>1, <1>2, <1>5 DEF PolicyType, Stored
<1>7. policy.config.acceptedRoot \in Roots
  BY <1>1 DEF Config, InvalidateRoot, Stored
<1>8. RegistryTypeOK'
  BY <1>1, <1>2, <1>6, <1>7, <1>4, <1>3 DEF RegistryTypeOK, Stored, WellFormed
<1>9. (HashIsCurrent /\ EpochIsRevision /\ ZkRootIsLive /\ NothingBeforeFirst)'
  BY <1>3, <1>4 DEF HashIsCurrent, EpochIsRevision, ZkRootIsLive, NothingBeforeFirst
<1>10. (PendingStaysValid /\ PendingIsProposal /\ UnbanAfterBan)'
  BY <1>4 DEF PendingStaysValid, PendingIsProposal, NoPending, UnbanAfterBan
<1>11. dropped' \subseteq retiredRoot' BY <1>4
<1>12. QED BY <1>8, <1>9, <1>10, <1>11

\* The transactions on one user, and time, leave the policy alone.
LEMMA PolicyUntouched ==
    ASSUME RegistryInv, UNCHANGED policyVars
    PROVE  /\ (HashIsCurrent /\ EpochIsRevision /\ ZkRootIsLive /\ NothingBeforeFirst)'
           /\ (PendingStaysValid /\ PendingIsProposal /\ dropped \subseteq retiredRoot)'
BY DEF RegistryInv, policyVars, HashIsCurrent, EpochIsRevision, ZkRootIsLive, NothingBeforeFirst,
       PendingStaysValid, PendingIsProposal, PolicyHash, Valid, WellFormed

\* Bans and unbans keep the dates of the bans and of the unbans proposed.
LEMMA UserInv ==
    ASSUME RegistryInv, NEW u \in Users, Ban(u) \/ ProposeUnban(u) \/ ActivateUnban(u)
    PROVE  RegistryInv'
<1> USE RegistryAssumption
<1>1. UNCHANGED policyVars /\ now' = now
  BY DEF Ban, ProposeUnban, ActivateUnban
<1>2. CASE Ban(u)
  <2>1. RegistryTypeOK'
    BY <1>2 DEF RegistryInv, RegistryTypeOK, PolicyType, Stored, WellFormed, Ban, policyVars,
       DeleteUnbanProposal
  <2>2. UnbanAfterBan'
    BY <1>2 DEF RegistryInv, RegistryTypeOK, UnbanAfterBan, Ban, DeleteUnbanProposal
  <2>3. QED BY <1>1, <2>1, <2>2, PolicyUntouched DEF RegistryInv
<1>3. CASE ProposeUnban(u)
  <2>1. RegistryTypeOK'
    BY <1>3 DEF RegistryInv, RegistryTypeOK, PolicyType, Stored, WellFormed, ProposeUnban, policyVars
  <2>2. UnbanAfterBan'
    BY <1>3 DEF RegistryInv, RegistryTypeOK, UnbanAfterBan, ProposeUnban
  <2>3. QED BY <1>1, <2>1, <2>2, PolicyUntouched DEF RegistryInv
<1>4. CASE ActivateUnban(u)
  <2>1. RegistryTypeOK'
    BY <1>4 DEF RegistryInv, RegistryTypeOK, PolicyType, Stored, WellFormed, ActivateUnban, policyVars
  <2>2. UnbanAfterBan'
    BY <1>4 DEF RegistryInv, RegistryTypeOK, UnbanAfterBan, ActivateUnban
  <2>3. QED BY <1>1, <2>1, <2>2, PolicyUntouched DEF RegistryInv
<1>5. QED BY <1>2, <1>3, <1>4

\* Time only makes proposals mature.
LEMMA TickInv ==
    ASSUME RegistryInv, Tick
    PROVE  RegistryInv'
<1>1. RegistryTypeOK'
  BY RegistryAssumption
     DEF RegistryInv, RegistryTypeOK, PolicyType, Stored, WellFormed, Tick, policyVars, banVars
<1>2. UnbanAfterBan'
  BY RegistryAssumption DEF RegistryInv, RegistryTypeOK, UnbanAfterBan, Tick, banVars
<1>3. QED BY <1>1, <1>2, PolicyUntouched DEF RegistryInv, Tick

\* A reverted transaction changes nothing.
LEMMA StutterInv ==
    ASSUME RegistryInv, UNCHANGED registryVars
    PROVE  RegistryInv'
<1>1. RegistryTypeOK'
  BY DEF RegistryInv, RegistryTypeOK, PolicyType, Stored, WellFormed, registryVars, policyVars, banVars
<1>2. UnbanAfterBan'
  BY DEF RegistryInv, UnbanAfterBan, registryVars, banVars
<1>3. QED BY <1>1, <1>2, PolicyUntouched DEF RegistryInv, registryVars

\* Every transaction of the owner keeps the invariant.
LEMMA RegistryStepInv ==
    ASSUME RegistryInv, [RegistryNext]_registryVars
    PROVE  RegistryInv'
BY ConfigureInv, ActivateInv, CancelProposalInv, DisableInv, InvalidateRootInv, UserInv, TickInv,
   StutterInv DEF RegistryNext

-----------------------------------------------------------------------------
(* The registry: the theorems. *)

\* The inductive invariant holds in every reachable state.
THEOREM RegistryInvariant == RegistrySpec => []RegistryInv
<1>1. RegistryInit => RegistryInv BY RegistryInitInv
<1>2. RegistryInv /\ [RegistryNext]_registryVars => RegistryInv' BY RegistryStepInv
<1>3. QED BY <1>1, <1>2, PTL DEF RegistrySpec

\* The storage of the registry is always well formed: no transaction of the
\* owner leaves a half-deleted proposal or an unvalidated configuration in it.
THEOREM RegistryTypeCorrect == RegistrySpec => []RegistryTypeOK
<1>1. RegistryInv => RegistryTypeOK BY DEF RegistryInv
<1>2. QED BY <1>1, RegistryInvariant, PTL

\* The stored policy hash is always that of the policy in force.
THEOREM HashCorrect == RegistrySpec => []HashIsCurrent
<1>1. RegistryInv => HashIsCurrent BY DEF RegistryInv
<1>2. QED BY <1>1, RegistryInvariant, PTL

\* No root that was replaced or invalidated backs ZK eligibility again.
THEOREM RootRetirement == RegistrySpec => []DroppedRootStaysDead
<1>1. RegistryInv => DroppedRootStaysDead
  BY DEF RegistryInv, ZkRootIsLive, DroppedRootStaysDead
<1>2. QED BY <1>1, RegistryInvariant, PTL

\* The second validation in activate never refuses what configure accepted.
THEOREM PendingActivatable == RegistrySpec => []PendingStaysValid
<1>1. RegistryInv => PendingStaysValid BY DEF RegistryInv
<1>2. QED BY <1>1, RegistryInvariant, PTL

\* What a step of the registry may open up: only the activation of a standing
\* proposal that waited its delay.
LEMMA OpeningStep ==
    ASSUME RegistryInv, RegistryNext, policy.revision > 0,
           \/ policy'.config # policy.config
           \/ policy'.enabled /\ ~policy.enabled
           \/ policy'.zkEnabled /\ ~policy.zkEnabled
    PROVE  Activate
<1>1. policy \in PolicyType BY DEF RegistryInv, RegistryTypeOK
<1>2. ASSUME NEW c \in Configs, Configure(c) PROVE FALSE
  BY <1>1, <1>2 DEF Configure, PolicyType
<1>3. CASE CancelProposal BY <1>3 DEF CancelProposal
<1>4. CASE Disable BY <1>1, <1>4 DEF Disable, Rehashed, PolicyType
<1>5. CASE InvalidateRoot BY <1>1, <1>5 DEF InvalidateRoot, Rehashed, PolicyType
<1>6. ASSUME NEW u \in Users, Ban(u) \/ ProposeUnban(u) \/ ActivateUnban(u) PROVE FALSE
  BY <1>6 DEF Ban, ProposeUnban, ActivateUnban, policyVars
<1>7. CASE Tick BY <1>7 DEF Tick, policyVars
<1>8. QED BY <1>2, <1>3, <1>4, <1>5, <1>6, <1>7 DEF RegistryNext

\* Nothing new is admitted before the delay of a standing proposal is over.
THEOREM PolicyTimelock == RegistrySpec => ChangeWaitsForDelay
<1> DEFINE Opens == \/ policy'.config # policy.config
                    \/ policy'.enabled /\ ~policy.enabled
                    \/ policy'.zkEnabled /\ ~policy.zkEnabled
           Waits == [ policy.revision > 0 /\ Opens
                      => /\ proposal.standing
                         /\ proposal.config = policy'.config
                         /\ now >= proposal.at + DELAY ]_registryVars
<1>1. RegistryInv /\ [RegistryNext]_registryVars => Waits
  <2> SUFFICES ASSUME RegistryInv, RegistryNext, policy.revision > 0, Opens
               PROVE  /\ proposal.standing
                      /\ proposal.config = policy'.config
                      /\ now >= proposal.at + DELAY
    OBVIOUS
  <2>1. Activate BY OpeningStep
  <2>2. pending.config \in Configs /\ Valid(pending.config)
    BY <2>1 DEF Activate, PendingMatured, RegistryInv, RegistryTypeOK, NoPending
  <2>3. policy'.config = pending.config
    BY <2>1, <2>2, ApplyPolicy DEF Activate, RegistryInv
  <2>4. QED BY <2>1, <2>3 DEF Activate, PendingMatured, RegistryInv, PendingIsProposal
<1>2. QED BY <1>1, RegistryInvariant, PTL DEF RegistrySpec, ChangeWaitsForDelay

\* A ban holds for the whole delay, counted from the latest ban.
THEOREM UnbanTimelock == RegistrySpec => UnbanWaitsForDelay
<1>1. RegistryInv /\ [RegistryNext]_registryVars
      => [\A u \in banned \ banned' : now >= bannedAt[u] + DELAY]_registryVars
  <2> SUFFICES ASSUME RegistryInv, RegistryNext, NEW u \in banned \ banned'
               PROVE  now >= bannedAt[u] + DELAY
    OBVIOUS
  <2>1. u \in Users BY DEF RegistryInv, RegistryTypeOK
  <2>2. ActivateUnban(u)
    BY DEF RegistryNext, Configure, Activate, CancelProposal, Disable, InvalidateRoot, Ban,
           ProposeUnban, ActivateUnban, Tick, banVars
  <2>3. QED
    BY <2>1, <2>2, RegistryAssumption
       DEF ActivateUnban, RegistryInv, RegistryTypeOK, UnbanAfterBan
<1>2. QED BY <1>1, RegistryInvariant, PTL DEF RegistrySpec, UnbanWaitsForDelay

-----------------------------------------------------------------------------
(* The grants: the inductive invariant. *)

\* Nothing is enabled before it is configured.
OffAtFirst == policy.revision = 0 => ~policy.enabled

CredentialsKept ==
    /\ credentials \in [Issuers -> Seq(Credential)]
    /\ tokenByWallet \in [Issuers -> [Users -> Nat]]
    /\ \A i \in Issuers, u \in Users : tokenByWallet[i][u] <= Len(credentials[i])

\* What was accepted is what the bitmap has.
NoncesCount ==
    /\ spent = [un \in Users \X Nonces |-> spent[un]]
    /\ \A u \in Users, n \in Nonces :
          spent[<<u, n>>] = IF NonceUsed(u, GRANT_ACTIVATION, n) THEN 1 ELSE 0

\* A grant is of this revision at most, and of this epoch of its user at most; who is
\* not fresh has an older one.
GrantAge(u) ==
    /\ grants[u].revision \in Nat /\ grants[u].userEpoch \in Nat
    /\ grants[u].revision <= policy.revision
    /\ grants[u].userEpoch <= userEpoch[u]
    /\ \/ u \in fresh \/ policy.revision = 0
       \/ grants[u].revision < policy.revision
       \/ grants[u].userEpoch < userEpoch[u]

\* A grant of the revision in force rests on evidence the policy asks for, and ends
\* with it.
GrantRests(u) ==
    LET g == grants[u]
        c == policy.config
    IN  /\ g.expiresAt \in Nat
        /\ g.expiresAt <= admission[u].at + c.maxGrantTTL
        /\ "ZK" \in g.source => /\ admission[u].proof \in Proofs
                                /\ g.expiresAt <= admission[u].proof.expiresAt
        /\ "CNF" \in g.source => /\ c.cnfIssuer \in Issuers
                                 /\ g.credentialId = tokenByWallet[c.cnfIssuer][u]
                                 /\ g.credentialId # 0

GrantsKept ==
    /\ grants = [u \in Users |-> grants[u]]
    /\ admission = [u \in Users |-> admission[u]]
    /\ activations = [u \in Users |-> activations[u]]
    /\ fresh \cap banned = {} /\ fresh \subseteq Users
    /\ \A u \in Users :
          /\ admission[u].signed = grants[u].policyHash
          /\ admission[u].at \in Nat
          /\ GrantAge(u)
          /\ grants[u].revision = policy.revision /\ policy.revision > 0 => GrantRests(u)

GrantInv ==
    /\ RegistryInv
    /\ OffAtFirst
    /\ CredentialsKept
    /\ NoncesCount
    /\ GrantsKept

-----------------------------------------------------------------------------
(* How the registry moves. *)

\* A transaction of the owner leaves the policy alone or starts the next revision.
LEMMA PolicyMoves ==
    ASSUME RegistryInv, OffAtFirst, RegistryNext
    PROVE  /\ policy' = policy \/ policy'.revision = policy.revision + 1
           /\ policy.revision \in Nat
           /\ OffAtFirst'
<1> USE RegistryAssumption
<1> DEFINE Moves == policy' = policy \/ policy'.revision = policy.revision + 1
<1>1. policy \in PolicyType /\ policy.revision \in Nat
  BY DEF RegistryInv, RegistryTypeOK, PolicyType
<1>2. ASSUME NEW c \in Configs, Configure(c)
      PROVE  Moves
  BY <1>1, <1>2, ApplyPolicy DEF Configure, RegistryInv
<1>3. ASSUME Activate PROVE Moves
  <2>1. pending.config \in Configs /\ Valid(pending.config)
    BY <1>3 DEF Activate, PendingMatured, RegistryInv, RegistryTypeOK, NoPending
  <2>2. Apply(pending.config)
    BY <1>3 DEF Activate
  <2>3. policy'.revision = policy.revision + 1
    BY <2>1, <2>2, ApplyPolicy DEF RegistryInv
  <2> QED BY <2>3
<1>4. ASSUME Disable \/ InvalidateRoot PROVE Moves
  <2> DEFINE r == policy.revision + 1
  <2>1. CASE Disable
    <3>1. policy' = [ config |-> policy.config, revision |-> r, rootEpoch |-> r,
                      enabled |-> FALSE, zkEnabled |-> policy.zkEnabled,
                      executionPolicyHash |->
                        [ config |-> policy.config, revision |-> r, rootEpoch |-> r,
                          enabled |-> FALSE, zkEnabled |-> policy.zkEnabled ] ]
      BY <1>1, <2>1 DEF Disable, PolicyType, Rehashed, PolicyHash, EpochIsRevision, RegistryInv
    <3> QED BY <3>1
  <2>2. CASE InvalidateRoot
    <3>1. policy' = [ config |-> policy.config, revision |-> r, rootEpoch |-> r,
                      enabled |-> policy.enabled, zkEnabled |-> FALSE,
                      executionPolicyHash |->
                        [ config |-> policy.config, revision |-> r, rootEpoch |-> r,
                          enabled |-> policy.enabled, zkEnabled |-> FALSE ] ]
      BY <1>1, <2>2 DEF InvalidateRoot, PolicyType, Rehashed, PolicyHash, EpochIsRevision, RegistryInv
    <3> QED BY <3>1
  <2> QED BY <1>4, <2>1, <2>2
<1>5. ASSUME CancelProposal \/ Tick PROVE Moves
  BY <1>5 DEF CancelProposal, Tick, policyVars
<1>6. ASSUME NEW u \in Users, Ban(u) \/ ProposeUnban(u) \/ ActivateUnban(u) PROVE Moves
  BY <1>6 DEF Ban, ProposeUnban, ActivateUnban, policyVars
<1>7. Moves
  BY <1>2, <1>3, <1>4, <1>5, <1>6 DEF RegistryNext
<1>8. OffAtFirst'
  BY <1>1, <1>7 DEF OffAtFirst
<1> QED BY <1>1, <1>7, <1>8

\* The epoch of a user moves with every ban and every unban, and never back.
LEMMA EpochsMove ==
    ASSUME RegistryInv, RegistryNext, NEW u \in Users
    PROVE  /\ userEpoch[u] \in Nat /\ userEpoch'[u] \in Nat
           /\ userEpoch[u] <= userEpoch'[u]
           /\ (u \in banned) # (u \in banned') => userEpoch[u] < userEpoch'[u]
           /\ now \in Nat /\ now' \in Nat /\ now <= now'
<1> USE RegistryAssumption
<1>1. now \in Nat /\ userEpoch \in [Users -> 0..MaxUserEpoch]
  BY DEF RegistryInv, RegistryTypeOK
<1>2. CASE UNCHANGED <<now, banned, userEpoch>>
  BY <1>1, <1>2
<1>3. CASE Tick
  BY <1>1, <1>3 DEF Tick, banVars
<1>4. ASSUME NEW v \in Users, Ban(v)
      PROVE  /\ userEpoch'[u] \in Nat /\ userEpoch[u] <= userEpoch'[u] /\ now' = now
             /\ (u \in banned) # (u \in banned') => userEpoch[u] < userEpoch'[u]
  BY <1>1, <1>4 DEF Ban
<1>5. ASSUME NEW v \in Users, ActivateUnban(v)
      PROVE  /\ userEpoch'[u] \in Nat /\ userEpoch[u] <= userEpoch'[u] /\ now' = now
             /\ (u \in banned) # (u \in banned') => userEpoch[u] < userEpoch'[u]
  BY <1>1, <1>5 DEF ActivateUnban
<1>6. \/ UNCHANGED <<now, banned, userEpoch>>
      \/ Tick
      \/ \E v \in Users : Ban(v) \/ ActivateUnban(v)
  BY DEF RegistryNext, Configure, Activate, CancelProposal, Disable, InvalidateRoot, ProposeUnban,
     banVars
<1> QED BY <1>1, <1>2, <1>3, <1>4, <1>5, <1>6

-----------------------------------------------------------------------------
(* The grants: their invariant is preserved, one lemma per kind of step. *)

\* The owner's transactions and time touch no grant: a new revision is newer than all
\* of them, and a ban or an unban starts an epoch of its user's.
LEMMA RegistryStepKeepsGrants ==
    ASSUME GrantInv, RegistryStep
    PROVE  GrantInv'
<1>1. RegistryInv /\ OffAtFirst /\ RegistryNext
  BY DEF GrantInv, RegistryStep
<1>2. UNCHANGED <<tokenByWallet, credentials, nonces, grants, activations, spent, admission>>
  BY DEF RegistryStep, issuerVars, grantVars, historyVars
<1>3. RegistryInv'
  BY <1>1, RegistryStepInv
<1>4. /\ policy' = policy \/ policy'.revision = policy.revision + 1
      /\ policy.revision \in Nat
      /\ OffAtFirst'
  BY <1>1, PolicyMoves
<1>5. (CredentialsKept /\ NoncesCount)'
  BY <1>2 DEF GrantInv, CredentialsKept, NoncesCount, NonceUsed
<1>6. fresh' = (IF policy' # policy THEN {} ELSE fresh \ banned')
  BY DEF RegistryStep
<1>7. fresh' \cap banned' = {} /\ fresh' \subseteq Users
  BY <1>6 DEF GrantInv, GrantsKept
<1>8. ASSUME NEW u \in Users PROVE GrantAge(u)'
  <2>1. GrantAge(u) /\ (u \in fresh => u \notin banned)
    BY DEF GrantInv, GrantsKept
  <2>2. /\ userEpoch[u] \in Nat /\ userEpoch'[u] \in Nat
        /\ userEpoch[u] <= userEpoch'[u]
        /\ (u \in banned) # (u \in banned') => userEpoch[u] < userEpoch'[u]
    BY <1>1, EpochsMove
  <2>3. /\ grants'[u].revision = grants[u].revision
        /\ grants'[u].userEpoch = grants[u].userEpoch
    BY <1>2
  <2>4. CASE policy' = policy
    <3>1. u \in fresh => u \in fresh' \/ userEpoch[u] < userEpoch'[u]
      BY <1>6, <2>1, <2>2, <2>4
    <3> QED BY <2>1, <2>2, <2>3, <2>4, <3>1 DEF GrantAge
  <2>5. CASE policy'.revision = policy.revision + 1
    BY <1>4, <2>1, <2>2, <2>3, <2>5 DEF GrantAge
  <2> QED BY <1>4, <2>4, <2>5
<1>9. ASSUME NEW u \in Users, grants'[u].revision = policy'.revision, policy'.revision > 0
      PROVE  GrantRests(u)'
  <2>1. GrantAge(u)
    BY DEF GrantInv, GrantsKept
  <2>2. policy' = policy
    BY <1>2, <1>4, <1>9, <2>1 DEF GrantAge
  <2>3. GrantRests(u)
    BY <1>2, <1>9, <2>2 DEF GrantInv, GrantsKept
  <2> QED BY <1>2, <2>2, <2>3 DEF GrantRests
<1>10. GrantsKept'
  BY <1>2, <1>7, <1>8, <1>9 DEF GrantInv, GrantsKept
<1> QED BY <1>3, <1>4, <1>5, <1>10 DEF GrantInv

\* An issuer gives a wallet its credential once, and never takes its number back.
LEMMA IssuerMoves ==
    ASSUME GrantInv, IssuerStep
    PROVE  /\ CredentialsKept'
           /\ \A i \in Issuers, u \in Users :
                 tokenByWallet[i][u] # 0 => tokenByWallet'[i][u] = tokenByWallet[i][u]
<1>1. CredentialsKept
  BY DEF GrantInv
<1>2. ASSUME NEW i \in Issuers, NEW u \in Users, NEW e \in Expiries, Issue(i, u, e)
      PROVE  /\ CredentialsKept'
             /\ \A j \in Issuers, v \in Users :
                   tokenByWallet[j][v] # 0 => tokenByWallet'[j][v] = tokenByWallet[j][v]
  <2> DEFINE record == [holder |-> u, expiresAt |-> e, revoked |-> FALSE]
  <2>1. /\ tokenByWallet[i][u] = 0
        /\ tokenByWallet' = [tokenByWallet EXCEPT ![i][u] = Len(credentials[i]) + 1]
        /\ credentials' = [credentials EXCEPT ![i] = Append(credentials[i], record)]
    BY <1>1, <1>2 DEF Issue, CredentialsKept
  <2>2. record \in Credential
    BY GrantAssumption DEF Credential
  <2> HIDE DEF record
  <2>3. credentials[i] \in Seq(Credential) /\ Len(credentials[i]) \in Nat
    BY <1>1 DEF CredentialsKept
  <2>4. /\ Append(credentials[i], record) \in Seq(Credential)
        /\ Len(Append(credentials[i], record)) = Len(credentials[i]) + 1
    BY <2>2, <2>3
  <2>5. credentials' \in [Issuers -> Seq(Credential)]
    BY <1>1, <2>1, <2>4 DEF CredentialsKept
  <2>6. tokenByWallet' \in [Issuers -> [Users -> Nat]]
    BY <1>1, <2>1, <2>3 DEF CredentialsKept
  <2>7. ASSUME NEW j \in Issuers, NEW v \in Users
        PROVE  /\ tokenByWallet'[j][v] <= Len(credentials'[j])
               /\ tokenByWallet[j][v] # 0 => tokenByWallet'[j][v] = tokenByWallet[j][v]
    <3>1. tokenByWallet[j][v] \in Nat /\ tokenByWallet[j][v] <= Len(credentials[j])
      BY <1>1 DEF CredentialsKept
    <3>2. CASE j = i
      <4>1. Len(credentials'[j]) = Len(credentials[i]) + 1
        BY <1>1, <2>1, <2>4, <3>2 DEF CredentialsKept
      <4>2. tokenByWallet'[j][v] = IF v = u THEN Len(credentials[i]) + 1 ELSE tokenByWallet[j][v]
        BY <1>1, <2>1, <3>2 DEF CredentialsKept
      <4> QED BY <2>1, <2>3, <3>1, <3>2, <4>1, <4>2
    <3>3. CASE j # i
      <4>1. credentials'[j] = credentials[j] /\ tokenByWallet'[j] = tokenByWallet[j]
        BY <1>1, <2>1, <3>3 DEF CredentialsKept
      <4> QED BY <3>1, <4>1
    <3> QED BY <3>2, <3>3
  <2> QED BY <2>5, <2>6, <2>7 DEF CredentialsKept
<1>3. ASSUME NEW i \in Issuers, NEW u \in Users, RevokeCredential(i, u)
      PROVE  CredentialsKept' /\ UNCHANGED tokenByWallet
  <2> DEFINE id == tokenByWallet[i][u]
             held == credentials[i]
             after == [held EXCEPT ![id].revoked = TRUE]
  <2>1. /\ id # 0 /\ UNCHANGED tokenByWallet
        /\ credentials' = [credentials EXCEPT ![i] = after]
    BY <1>3 DEF RevokeCredential
  <2>2. held \in Seq(Credential) /\ id \in 1..Len(held)
    BY <1>1, <2>1 DEF CredentialsKept
  <2>3. [held[id] EXCEPT !.revoked = TRUE] \in Credential
    <3>1. held[id] \in Credential
      BY <2>2
    <3> QED BY <3>1 DEF Credential
  <2> HIDE DEF held, id
  <2>4. after \in Seq(Credential) /\ Len(after) = Len(held)
    BY <2>2, <2>3
  <2> HIDE DEF after
  <2>5. credentials' \in [Issuers -> Seq(Credential)]
    BY <1>1, <2>1, <2>4 DEF CredentialsKept
  <2>6. \A j \in Issuers : Len(credentials'[j]) = Len(credentials[j])
    BY <1>1, <2>1, <2>4 DEF CredentialsKept, held
  <2> QED BY <1>1, <2>1, <2>5, <2>6 DEF CredentialsKept
<1>4. PICK i \in Issuers, u \in Users : (\E e \in Expiries : Issue(i, u, e)) \/ RevokeCredential(i, u)
  BY DEF IssuerStep
<1>5. CASE RevokeCredential(i, u)
  BY <1>3, <1>5
<1>6. CASE \E e \in Expiries : Issue(i, u, e)
  BY <1>2, <1>6
<1> QED BY <1>4, <1>5, <1>6

\* Issuing and revoking keep the invariant: no grant is written, no number taken back.
LEMMA IssuerStepKeepsGrants ==
    ASSUME GrantInv, IssuerStep
    PROVE  GrantInv'
<1>1. /\ UNCHANGED registryVars
      /\ UNCHANGED <<nonces, grants, activations, spent, admission, fresh>>
  BY DEF IssuerStep, grantVars, historyVars
<1>2. UNCHANGED <<now, policy, pending, retiredRoot, proposal, dropped, banned, userEpoch>>
  BY <1>1 DEF registryVars, policyVars, banVars
<1>3. RegistryInv'
  BY <1>1, RegistryStepInv DEF GrantInv
<1>4. /\ CredentialsKept'
      /\ \A i \in Issuers, u \in Users :
            tokenByWallet[i][u] # 0 => tokenByWallet'[i][u] = tokenByWallet[i][u]
  BY IssuerMoves
<1>5. (OffAtFirst /\ NoncesCount)'
  BY <1>1, <1>2 DEF GrantInv, OffAtFirst, NoncesCount, NonceUsed
<1>6. ASSUME NEW u \in Users, grants'[u].revision = policy'.revision, policy'.revision > 0
      PROVE  GrantRests(u)'
  <2>1. GrantRests(u)
    BY <1>1, <1>2, <1>6 DEF GrantInv, GrantsKept
  <2> QED BY <1>1, <1>2, <1>4, <2>1 DEF GrantRests
<1>7. GrantsKept'
  BY <1>1, <1>2, <1>6 DEF GrantInv, GrantsKept, GrantAge
<1> QED BY <1>3, <1>4, <1>5, <1>7 DEF GrantInv

\* A nonce accepted for the activation namespace is counted once.
LEMMA SpendingCounts ==
    ASSUME NoncesCount, NEW u \in Users, NEW n \in Nonces, Consume(u, GRANT_ACTIVATION, n),
           spent' = [spent EXCEPT ![<<u, n>>] = @ + 1]
    PROVE  NoncesCount'
<1>1. spent[<<u, n>>] = 0
  BY DEF NoncesCount, Consume
<1>2. \A v \in Users, m \in Nonces :
         spent'[<<v, m>>] = IF v = u /\ m = n THEN 1 ELSE spent[<<v, m>>]
  <2> SUFFICES ASSUME NEW v \in Users, NEW m \in Nonces
               PROVE  spent'[<<v, m>>] = IF v = u /\ m = n THEN 1 ELSE spent[<<v, m>>]
    OBVIOUS
  <2>1. <<v, m>> = <<u, n>> <=> v = u /\ m = n
    OBVIOUS
  <2>2. DOMAIN spent = Users \X Nonces /\ <<v, m>> \in Users \X Nonces
    BY DEF NoncesCount
  <2>3. spent'[<<v, m>>] = IF <<v, m>> = <<u, n>> THEN spent[<<u, n>>] + 1 ELSE spent[<<v, m>>]
    BY <2>2
  <2> QED BY <1>1, <2>1, <2>3
<1>3. \A v \in Users, m \in Nonces :
         NonceUsed(v, GRANT_ACTIVATION, m)' <=>
            NonceUsed(v, GRANT_ACTIVATION, m) \/ (v = u /\ m = n)
  BY DEF Consume, NonceUsed
<1>4. spent' = [un \in Users \X Nonces |-> spent'[un]]
  BY DEF NoncesCount
<1> QED BY <1>2, <1>3, <1>4 DEF NoncesCount

\* A cancellation keeps the invariant, in the activation namespace or in another.
LEMMA CancellingKeepsGrants ==
    ASSUME GrantInv, NEW u \in Users, NEW n \in Nonces, NEW space \in CancelSpaces,
           GrantCancelNonce(u, space, n)
    PROVE  GrantInv'
<1>1. /\ UNCHANGED registryVars
      /\ UNCHANGED <<tokenByWallet, credentials, grants, activations, admission, fresh>>
  BY DEF GrantCancelNonce, issuerVars
<1>2. UNCHANGED <<now, policy, banned, userEpoch>>
  BY <1>1 DEF registryVars, policyVars, banVars
<1>3. RegistryInv'
  BY <1>1, RegistryStepInv DEF GrantInv
<1>4. NoncesCount'
  <2>1. CASE space = GRANT_ACTIVATION
    BY <2>1, SpendingCounts DEF GrantCancelNonce, CancelNonce, GrantInv
  <2>2. CASE space # GRANT_ACTIVATION
    <3>1. UNCHANGED spent /\ nonces' = nonces \cup {<<u, space, n>>}
      BY <2>2 DEF GrantCancelNonce, CancelNonce, Consume
    <3>2. \A v \in Users, m \in Nonces :
             NonceUsed(v, GRANT_ACTIVATION, m)' <=> NonceUsed(v, GRANT_ACTIVATION, m)
      BY <2>2, <3>1 DEF NonceUsed
    <3> QED BY <3>1, <3>2 DEF GrantInv, NoncesCount
  <2> QED BY <2>1, <2>2
<1>5. (OffAtFirst /\ CredentialsKept /\ GrantsKept)'
  BY <1>1, <1>2 DEF GrantInv, OffAtFirst, CredentialsKept, GrantsKept, GrantAge, GrantRests
<1> QED BY <1>3, <1>4, <1>5 DEF GrantInv

\* A policy that takes the issuer's credential names an issuer.
LEMMA IssuerAsked ==
    ASSUME RegistryInv, policy.revision > 0, NEW STATE source,
           SourceAllowed(policy.config.mode, source), "CNF" \in source
    PROVE  policy.config.cnfIssuer \in Issuers
<1> DEFINE c == policy.config
<1>1. Stored(c) /\ c \in Config
  BY RegistryAssumption DEF RegistryInv, RegistryTypeOK, PolicyType, Stored
<1>2. c.mode \in Modes /\ c.mode # "ZK_ONLY"
  BY <1>1 DEF SourceAllowed, Config, Modes
<1> QED BY <1>1, <1>2 DEF Stored, WellFormed, Config

\* The expiry written is within the TTL and within that of the evidence, and is to come.
LEMMA ExpiryIsBounded ==
    ASSUME RegistryInv, CredentialsKept, NEW u \in Users, NEW source \in SUBSET {"CNF", "ZK"},
           NEW proof \in Proofs \cup {NoProof}, policy.revision > 0,
           SourceAllowed(policy.config.mode, source),
           "CNF" \in source => CnfAccepts(policy.config, u),
           "ZK" \in source => ProofAccepted(policy.config, u, proof)
    PROVE  LET e == GrantExpiry(policy.config, u, source, proof)
           IN  /\ e \in Nat /\ e > now
               /\ e <= now + policy.config.maxGrantTTL
               /\ "ZK" \in source => proof \in Proofs /\ e <= proof.expiresAt
<1> DEFINE c == policy.config
           id == tokenByWallet[c.cnfIssuer][u]
           ttl == now + c.maxGrantTTL
           cnf == IF "CNF" \in source THEN Earlier(ttl, credentials[c.cnfIssuer][id].expiresAt)
                  ELSE ttl
<1>1. now \in Nat /\ c.maxGrantTTL \in Nat /\ c.maxGrantTTL > 0
  <2>1. Stored(c) /\ now \in 1..MaxTime
    BY RegistryAssumption DEF RegistryInv, RegistryTypeOK, PolicyType
  <2> QED BY <2>1, RegistryAssumption DEF Stored, WellFormed
<1>2. "CNF" \in source =>
         /\ credentials[c.cnfIssuer][id].expiresAt \in Nat
         /\ credentials[c.cnfIssuer][id].expiresAt > now
  <2> SUFFICES ASSUME "CNF" \in source
               PROVE  /\ credentials[c.cnfIssuer][id].expiresAt \in Nat
                      /\ credentials[c.cnfIssuer][id].expiresAt > now
    OBVIOUS
  <2>1. /\ id # 0 /\ credentials[c.cnfIssuer][id].expiresAt > now
        /\ id \in 1..Len(credentials[c.cnfIssuer])
    BY DEF CnfAccepts, CredentialValid, CredentialMatches
  <2>2. c.cnfIssuer \in Issuers
    BY IssuerAsked
  <2>3. credentials[c.cnfIssuer] \in Seq(Credential)
    BY <2>2 DEF CredentialsKept
  <2>4. credentials[c.cnfIssuer][id] \in Credential
    BY <2>1, <2>3
  <2> QED BY <2>1, <2>4, GrantAssumption DEF Credential
<1>3. "ZK" \in source => proof \in Proofs /\ proof.expiresAt \in Nat /\ proof.expiresAt > now
  BY GrantAssumption DEF ProofAccepted, Proof
<1>4. ttl \in Nat /\ ttl > now
  BY <1>1
<1> HIDE DEF ttl
<1>5. cnf \in Nat /\ cnf > now /\ cnf <= ttl
  <2>1. CASE "CNF" \notin source
    BY <1>1, <1>4, <2>1
  <2>2. CASE "CNF" \in source
    <3> DEFINE held == credentials[c.cnfIssuer][id].expiresAt
    <3>1. held \in Nat /\ held > now /\ cnf = IF held < ttl THEN held ELSE ttl
      BY <1>2, <2>2 DEF Earlier
    <3> HIDE DEF held, cnf
    <3> QED BY <1>1, <1>4, <3>1
  <2> QED BY <2>1, <2>2
<1>6. GrantExpiry(c, u, source, proof) = IF "ZK" \in source THEN Earlier(cnf, proof.expiresAt) ELSE cnf
  BY DEF GrantExpiry, ttl
<1> HIDE DEF cnf
<1> QED BY <1>1, <1>3, <1>4, <1>5, <1>6 DEF Earlier, ttl

\* What an accepted activation reads and what it leaves alone.
Accepted(u, signed, source, proof) ==
    /\ UNCHANGED <<now, policy, banned, userEpoch, tokenByWallet, credentials>>
    /\ UNCHANGED registryVars
    /\ policy.enabled /\ policy.revision \in Nat /\ policy.revision > 0
    /\ u \notin banned /\ SourceAllowed(policy.config.mode, source)
    /\ "CNF" \in source => CnfAccepts(policy.config, u) /\ policy.config.cnfIssuer \in Issuers
    /\ "ZK" \in source => policy.zkEnabled /\ ProofAccepted(policy.config, u, proof)
    /\ signed.executionPolicyHash = policy.executionPolicyHash
    /\ \A v \in Users \ {u} : grants'[v] = grants[v] /\ admission'[v] = admission[v]
    /\ grants' = [v \in Users |-> grants'[v]]
    /\ admission' = [v \in Users |-> admission'[v]]
    /\ fresh' = fresh \cup {u}

\* The grant and the admission it records.
Recorded(u, source, proof) ==
    /\ admission'[u].at = now /\ admission'[u].signed = policy.executionPolicyHash
    /\ admission'[u].proof = proof
    /\ grants'[u].policyHash = policy.executionPolicyHash
    /\ grants'[u].revision = policy.revision /\ grants'[u].userEpoch = userEpoch[u]
    /\ grants'[u].rootEpoch = policy.rootEpoch /\ grants'[u].root = policy.config.acceptedRoot
    /\ grants'[u].expiresAt = GrantExpiry(policy.config, u, source, proof)
    /\ grants'[u].source = source
    /\ "CNF" \in source => grants'[u].credentialId = tokenByWallet[policy.config.cnfIssuer][u]

\* What an activation leaves behind, in the code's words.
LEMMA ActivationWrites ==
    ASSUME GrantInv, NEW u \in Users, NEW n \in Nonces, NEW signed,
           NEW source \in SUBSET {"CNF", "ZK"}, NEW proof \in Proofs \cup {NoProof}, NEW deadline,
           GrantActivate(u, signed, source, proof, n, deadline)
    PROVE  Accepted(u, signed, source, proof) /\ Recorded(u, source, proof)
<1> DEFINE grant ==
      [ policyHash |-> policy.executionPolicyHash, revision |-> policy.revision,
        rootEpoch |-> policy.rootEpoch, userEpoch |-> userEpoch[u],
        expiresAt |-> GrantExpiry(policy.config, u, source, proof), source |-> source,
        root |-> policy.config.acceptedRoot,
        credentialId |-> IF "CNF" \in source
                         THEN tokenByWallet[policy.config.cnfIssuer][u] ELSE 0 ]
      admitted == [at |-> now, signed |-> signed.executionPolicyHash, proof |-> proof]
<1>1. /\ PolicySigned(signed) /\ u \notin banned
      /\ SourceAllowed(policy.config.mode, source)
      /\ "CNF" \in source => CnfAccepts(policy.config, u)
      /\ "ZK" \in source => policy.zkEnabled /\ ProofAccepted(policy.config, u, proof)
      /\ grants' = [grants EXCEPT ![u] = grant]
      /\ admission' = [admission EXCEPT ![u] = admitted]
      /\ fresh' = fresh \cup {u}
      /\ UNCHANGED registryVars /\ UNCHANGED issuerVars
  BY DEF GrantActivate
<1>2. UNCHANGED <<now, policy, banned, userEpoch, tokenByWallet, credentials>>
  BY <1>1 DEF registryVars, policyVars, banVars, issuerVars
<1>3. policy.enabled /\ policy.revision \in Nat /\ policy.revision > 0
  <2>1. policy.revision \in Nat
    BY DEF GrantInv, RegistryInv, RegistryTypeOK, PolicyType
  <2> QED BY <1>1, <2>1 DEF PolicySigned, GrantInv, OffAtFirst
<1>4. signed.executionPolicyHash = policy.executionPolicyHash
  BY <1>1 DEF PolicySigned
<1>5. "CNF" \in source => policy.config.cnfIssuer \in Issuers
  BY <1>1, <1>3, IssuerAsked DEF GrantInv
<1> HIDE DEF grant, admitted
<1>6. /\ grants = [v \in Users |-> grants[v]]
      /\ admission = [v \in Users |-> admission[v]]
  BY DEF GrantInv, GrantsKept
<1>7. /\ grants'[u] = grant /\ admission'[u] = admitted
      /\ \A v \in Users \ {u} : grants'[v] = grants[v] /\ admission'[v] = admission[v]
      /\ grants' = [v \in Users |-> grants'[v]]
      /\ admission' = [v \in Users |-> admission'[v]]
  BY <1>1, <1>6
<1>8. /\ admission'[u].at = now /\ admission'[u].signed = policy.executionPolicyHash
      /\ admission'[u].proof = proof
      /\ grants'[u].policyHash = policy.executionPolicyHash
      /\ grants'[u].revision = policy.revision /\ grants'[u].userEpoch = userEpoch[u]
      /\ grants'[u].rootEpoch = policy.rootEpoch /\ grants'[u].root = policy.config.acceptedRoot
      /\ grants'[u].expiresAt = GrantExpiry(policy.config, u, source, proof)
      /\ grants'[u].source = source
      /\ "CNF" \in source => grants'[u].credentialId = tokenByWallet[policy.config.cnfIssuer][u]
  <2>1. /\ admitted.at = now /\ admitted.signed = policy.executionPolicyHash
        /\ admitted.proof = proof
    BY <1>4 DEF admitted
  <2>2. /\ grant.policyHash = policy.executionPolicyHash
        /\ grant.revision = policy.revision /\ grant.userEpoch = userEpoch[u]
        /\ grant.rootEpoch = policy.rootEpoch /\ grant.root = policy.config.acceptedRoot
        /\ grant.expiresAt = GrantExpiry(policy.config, u, source, proof)
        /\ grant.source = source
        /\ "CNF" \in source => grant.credentialId = tokenByWallet[policy.config.cnfIssuer][u]
    BY DEF grant
  <2> QED BY <1>7, <2>1, <2>2
<1>9. Recorded(u, source, proof)
  BY <1>8 DEF Recorded
<1>10. Accepted(u, signed, source, proof)
  BY <1>1, <1>2, <1>3, <1>4, <1>5, <1>7 DEF Accepted
<1> QED BY <1>9, <1>10

\* An activation keeps the invariant: its grant is of this revision and this epoch.
LEMMA ActivatingKeepsGrants ==
    ASSUME GrantInv, NEW u \in Users, NEW n \in Nonces, NEW signed,
           NEW source \in SUBSET {"CNF", "ZK"}, NEW proof \in Proofs \cup {NoProof}, NEW deadline,
           GrantActivate(u, signed, source, proof, n, deadline)
    PROVE  GrantInv'
<1>0. Accepted(u, signed, source, proof) /\ Recorded(u, source, proof)
  BY ActivationWrites
<1>1. /\ UNCHANGED <<now, policy, banned, userEpoch, tokenByWallet, credentials>>
      /\ UNCHANGED registryVars
      /\ policy.enabled /\ policy.revision \in Nat /\ policy.revision > 0
      /\ u \notin banned /\ SourceAllowed(policy.config.mode, source)
      /\ "CNF" \in source => CnfAccepts(policy.config, u) /\ policy.config.cnfIssuer \in Issuers
      /\ "ZK" \in source => policy.zkEnabled /\ ProofAccepted(policy.config, u, proof)
      /\ \A v \in Users \ {u} : grants'[v] = grants[v] /\ admission'[v] = admission[v]
      /\ grants' = [v \in Users |-> grants'[v]]
      /\ admission' = [v \in Users |-> admission'[v]]
      /\ fresh' = fresh \cup {u}
  BY <1>0 DEF Accepted
<1>2. /\ admission'[u].at = now /\ admission'[u].signed = policy.executionPolicyHash
      /\ admission'[u].proof = proof
      /\ grants'[u].policyHash = policy.executionPolicyHash
      /\ grants'[u].revision = policy.revision /\ grants'[u].userEpoch = userEpoch[u]
      /\ grants'[u].rootEpoch = policy.rootEpoch /\ grants'[u].root = policy.config.acceptedRoot
      /\ grants'[u].expiresAt = GrantExpiry(policy.config, u, source, proof)
      /\ grants'[u].source = source
      /\ "CNF" \in source => grants'[u].credentialId = tokenByWallet[policy.config.cnfIssuer][u]
  BY <1>0 DEF Recorded
<1>3. RegistryInv'
  BY <1>1, RegistryStepInv DEF GrantInv
<1>4. NoncesCount'
  BY SpendingCounts DEF GrantActivate, SpendActivation, GrantInv
<1>5. (OffAtFirst /\ CredentialsKept)'
  BY <1>1 DEF GrantInv, OffAtFirst, CredentialsKept
<1>6. now \in Nat /\ userEpoch[u] \in Nat
  BY DEF GrantInv, RegistryInv, RegistryTypeOK
<1>7. LET e == GrantExpiry(policy.config, u, source, proof)
      IN  /\ e \in Nat
          /\ e <= now + policy.config.maxGrantTTL
          /\ "ZK" \in source => proof \in Proofs /\ e <= proof.expiresAt
  BY <1>1, ExpiryIsBounded DEF GrantInv
<1>8. GrantRests(u)'
  <2>1. "CNF" \in source => tokenByWallet[policy.config.cnfIssuer][u] # 0
    BY <1>1 DEF CnfAccepts, CredentialValid
  <2> QED BY <1>1, <1>2, <1>7, <2>1 DEF GrantRests
<1>9. GrantAge(u)'
  BY <1>1, <1>2, <1>6 DEF GrantAge
<1>10. ASSUME NEW v \in Users \ {u}
       PROVE  /\ admission'[v].signed = grants'[v].policyHash
              /\ admission'[v].at \in Nat
              /\ GrantAge(v)'
              /\ grants'[v].revision = policy'.revision /\ policy'.revision > 0 => GrantRests(v)'
  BY <1>1 DEF GrantInv, GrantsKept, GrantAge, GrantRests
<1>11. activations' = [v \in Users |-> activations'[v]]
  BY DEF GrantActivate, GrantInv, GrantsKept
<1>12. fresh' \cap banned' = {} /\ fresh' \subseteq Users
  BY <1>1 DEF GrantInv, GrantsKept
<1>13. GrantsKept'
  BY <1>1, <1>2, <1>6, <1>8, <1>9, <1>10, <1>11, <1>12 DEF GrantsKept
<1> QED BY <1>3, <1>4, <1>5, <1>13 DEF GrantInv

\* Every step keeps the invariant.
LEMMA GrantStepInv ==
    ASSUME GrantInv, [Next]_vars
    PROVE  GrantInv'
<1>1. CASE RegistryStep
  BY <1>1, RegistryStepKeepsGrants
<1>2. CASE IssuerStep
  BY <1>2, IssuerStepKeepsGrants
<1>3. CASE \E u \in Users : UserStep(u)
  <2>1. PICK u \in Users : UserStep(u)
    BY <1>3
  <2>2. PICK n \in Nonces :
          \/ \E signed \in seen, source \in SUBSET {"CNF", "ZK"},
                proof \in Proofs \cup {NoProof}, deadline \in Deadlines :
                GrantActivate(u, signed, source, proof, n, deadline)
          \/ \E space \in CancelSpaces : GrantCancelNonce(u, space, n)
    BY <2>1 DEF UserStep
  <2>3. CASE \E space \in CancelSpaces : GrantCancelNonce(u, space, n)
    BY <2>3, CancellingKeepsGrants
  <2>4. CASE \E signed \in seen, source \in SUBSET {"CNF", "ZK"},
                proof \in Proofs \cup {NoProof}, deadline \in Deadlines :
                GrantActivate(u, signed, source, proof, n, deadline)
    BY <2>4, ActivatingKeepsGrants
  <2> QED BY <2>2, <2>3, <2>4
<1>4. CASE UNCHANGED vars
  <2>1. /\ UNCHANGED registryVars
        /\ UNCHANGED <<tokenByWallet, credentials, nonces, grants, activations, spent,
                       admission, fresh>>
    BY <1>4 DEF vars, issuerVars, grantVars, historyVars
  <2>2. UNCHANGED <<now, policy, banned, userEpoch>>
    BY <2>1 DEF registryVars, policyVars, banVars
  <2>3. RegistryInv'
    BY <2>1, RegistryStepInv DEF GrantInv
  <2>4. (OffAtFirst /\ CredentialsKept /\ NoncesCount /\ GrantsKept)'
    BY <2>1, <2>2 DEF GrantInv, OffAtFirst, CredentialsKept, NoncesCount, NonceUsed, GrantsKept,
                      GrantAge, GrantRests
  <2> QED BY <2>3, <2>4 DEF GrantInv
<1> QED BY <1>1, <1>2, <1>3, <1>4 DEF Next

\* At first nothing is configured, nobody has a grant and no nonce is spent.
LEMMA GrantInitInv == Init => GrantInv
<1> SUFFICES ASSUME Init PROVE GrantInv
  OBVIOUS
<1>1. RegistryInv
  BY RegistryInitInv DEF Init
<1>2. OffAtFirst
  BY DEF Init, RegistryInit, OffAtFirst
<1>3. CredentialsKept
  BY DEF Init, IssuerInit, CredentialsKept
<1>4. NoncesCount
  BY DEF Init, NoncesCount, NonceUsed
<1>5. /\ grants = [u \in Users |-> grants[u]]
      /\ admission = [u \in Users |-> admission[u]]
      /\ activations = [u \in Users |-> activations[u]]
      /\ fresh \cap banned = {} /\ fresh \subseteq Users
  BY DEF Init
<1>6. ASSUME NEW u \in Users
      PROVE  /\ admission[u].signed = grants[u].policyHash /\ admission[u].at \in Nat
             /\ GrantAge(u)
  BY DEF Init, RegistryInit, GrantAge, EmptyGrant
<1>7. policy.revision = 0
  BY DEF Init, RegistryInit
<1>8. GrantsKept
  BY <1>5, <1>6, <1>7 DEF GrantsKept
<1> QED BY <1>1, <1>2, <1>3, <1>4, <1>8 DEF GrantInv

-----------------------------------------------------------------------------
(* The grants: the theorems. *)

\* The inductive invariant holds in every reachable state.
THEOREM GrantInvariant == Spec => []GrantInv
<1>1. Init => GrantInv BY GrantInitInv
<1>2. GrantInv /\ [Next]_vars => GrantInv' BY GrantStepInv
<1> QED BY <1>1, <1>2, PTL DEF Spec

\* Nobody is eligible on an activation that predates a change of policy, an
\* emergency stop or their own last ban.
THEOREM StaleGrants == Spec => []StaleGrantNeverEligible
<1>1. GrantInv => StaleGrantNeverEligible
  <2> SUFFICES ASSUME GrantInv, NEW u \in Eligible PROVE u \in fresh
    BY DEF StaleGrantNeverEligible
  <2>1. /\ u \in Users /\ policy.enabled /\ grants[u].revision = policy.revision
        /\ grants[u].userEpoch = userEpoch[u]
    BY DEF Eligible, IsEligible, UserInGoodStanding
  <2>2. GrantAge(u) /\ policy.revision # 0
    BY <2>1 DEF GrantInv, GrantsKept, OffAtFirst
  <2>3. policy.revision \in Nat /\ userEpoch[u] \in Nat
    BY <2>1, RegistryAssumption DEF GrantInv, RegistryInv, RegistryTypeOK, PolicyType
  <2> QED BY <2>1, <2>2, <2>3 DEF GrantAge
<1> QED BY <1>1, GrantInvariant, PTL

\* Whoever is eligible signed the policy in force, to its revision and root epoch.
THEOREM SignedPolicy == Spec => []EligibleAsSigned
<1>1. GrantInv => EligibleAsSigned
  BY DEF EligibleAsSigned, Eligible, IsEligible, GrantInv, GrantsKept
<1> QED BY <1>1, GrantInvariant, PTL

\* A nonce of the activation namespace is accepted once, to activate or to cancel.
THEOREM NoncesSpentOnce == Spec => []NonceSpentOnce
<1>1. GrantInv => NonceSpentOnce
  <2> SUFFICES ASSUME GrantInv, NEW u \in Users, NEW n \in Nonces
               PROVE  /\ spent[<<u, n>>] <= 1
                      /\ NonceUsed(u, GRANT_ACTIVATION, n) <=> spent[<<u, n>>] = 1
    BY Zenon DEF NonceSpentOnce
  <2>1. spent[<<u, n>>] = IF NonceUsed(u, GRANT_ACTIVATION, n) THEN 1 ELSE 0
    BY Zenon DEF GrantInv, NoncesCount
  <2> QED BY <2>1
<1> QED BY <1>1, GrantInvariant, PTL

\* Eligibility ends with the TTL and with the evidence the grant rested on.
THEOREM BoundedEligibility == Spec => []EligibilityIsBounded
<1>1. ASSUME GrantInv, NEW u \in Eligible
      PROVE  /\ now < admission[u].at + policy.config.maxGrantTTL
             /\ "ZK" \in grants[u].source => now < admission[u].proof.expiresAt
             /\ policy.config.mode = "BOTH" =>
                   /\ now < admission[u].proof.expiresAt
                   /\ CredentialValid(policy.config.cnfIssuer, u)
  <2>1. /\ u \in Users /\ policy.enabled /\ grants[u].revision = policy.revision
        /\ grants[u].expiresAt > now
        /\ SourceAllowed(policy.config.mode, grants[u].source)
        /\ "CNF" \in grants[u].source => CnfStillValid(policy.config, u, grants[u])
    BY DEF Eligible, IsEligible
  <2>2. /\ policy.revision \in Nat /\ policy.revision > 0 /\ now \in Nat
        /\ policy.config.maxGrantTTL \in Nat /\ admission[u].at \in Nat
    <3>1. policy.revision \in Nat /\ now \in Nat
      BY <1>1, RegistryAssumption DEF GrantInv, RegistryInv, RegistryTypeOK, PolicyType
    <3>2. policy.revision # 0
      BY <1>1, <2>1 DEF GrantInv, OffAtFirst
    <3>3. policy.config.maxGrantTTL \in Nat
      BY <1>1, <3>2, RegistryAssumption DEF GrantInv, RegistryInv, RegistryTypeOK, Stored, WellFormed
    <3>4. admission[u].at \in Nat
      BY <1>1, <2>1 DEF GrantInv, GrantsKept
    <3> QED BY <3>1, <3>2, <3>3, <3>4
  <2>3. /\ grants[u].expiresAt \in Nat
        /\ grants[u].expiresAt <= admission[u].at + policy.config.maxGrantTTL
        /\ "ZK" \in grants[u].source => /\ admission[u].proof \in Proofs
                                        /\ grants[u].expiresAt <= admission[u].proof.expiresAt
    BY <1>1, <2>1, <2>2 DEF GrantInv, GrantsKept, GrantRests
  <2>4. now < admission[u].at + policy.config.maxGrantTTL
    BY <2>1, <2>2, <2>3
  <2>5. "ZK" \in grants[u].source => now < admission[u].proof.expiresAt
    <3> SUFFICES ASSUME "ZK" \in grants[u].source PROVE now < admission[u].proof.expiresAt
      OBVIOUS
    <3>1. admission[u].proof.expiresAt \in Nat
      BY <2>3, GrantAssumption DEF Proof
    <3> QED BY <2>1, <2>2, <2>3, <3>1
  <2>6. policy.config.mode = "BOTH" => grants[u].source = {"CNF", "ZK"}
    BY <2>1 DEF SourceAllowed
  <2>7. "CNF" \in grants[u].source => CredentialValid(policy.config.cnfIssuer, u)
    BY <2>1 DEF CnfStillValid
  <2> QED BY <2>4, <2>5, <2>6, <2>7
<1>2. GrantInv => EligibilityIsBounded
  BY <1>1, Zenon DEF EligibilityIsBounded
<1> QED BY <1>2, GrantInvariant, PTL

-----------------------------------------------------------------------------
(* The grant manager keeps its promise to the hook. *)

\* With the policy, the epochs and the evidence of a wallet no better than before, and
\* its grant untouched, the wallet does not become eligible.
LEMMA RegistryLapses ==
    ASSUME GrantInv, RegistryStep
    PROVE  Eligible' \subseteq Eligible
<1> SUFFICES ASSUME NEW u \in Users, IsEligible(u, policy.executionPolicyHash, policy.revision)'
             PROVE  IsEligible(u, policy.executionPolicyHash, policy.revision)
  BY DEF Eligible
<1>1. RegistryInv /\ OffAtFirst /\ RegistryNext /\ GrantAge(u)
  BY DEF GrantInv, GrantsKept, RegistryStep
<1>2. UNCHANGED <<tokenByWallet, credentials, grants>>
  BY DEF RegistryStep, issuerVars, grantVars
<1>3. policy' = policy \/ policy'.revision = policy.revision + 1
  BY <1>1, PolicyMoves
<1>4. policy.revision \in Nat
  BY <1>1, PolicyMoves
<1>5. /\ grants[u].revision = policy'.revision /\ grants[u].userEpoch = userEpoch'[u]
      /\ u \notin banned'
  BY <1>2 DEF IsEligible, UserInGoodStanding
<1>6. policy' = policy
  BY <1>1, <1>3, <1>4, <1>5 DEF GrantAge
<1>7. /\ userEpoch[u] \in Nat /\ userEpoch'[u] \in Nat
      /\ userEpoch[u] <= userEpoch'[u]
      /\ (u \in banned) # (u \in banned') => userEpoch[u] < userEpoch'[u]
      /\ now \in Nat /\ now' \in Nat /\ now <= now'
  BY <1>1, EpochsMove
<1>8. u \notin banned /\ grants[u].userEpoch = userEpoch[u]
  BY <1>1, <1>5, <1>7 DEF GrantAge
<1>9. grants[u].expiresAt > now
  <2>1. grants[u].expiresAt > now' /\ policy.revision > 0
    BY <1>1, <1>2, <1>4, <1>6 DEF IsEligible, OffAtFirst
  <2>2. grants[u].expiresAt \in Nat
    BY <1>5, <1>6, <2>1 DEF GrantInv, GrantsKept, GrantRests
  <2> QED BY <1>7, <2>1, <2>2
<1>10. "CNF" \in grants[u].source => CnfStillValid(policy.config, u, grants[u])
  <2> DEFINE i == policy.config.cnfIssuer
             id == tokenByWallet[i][u]
  <2> SUFFICES ASSUME "CNF" \in grants[u].source PROVE CnfStillValid(policy.config, u, grants[u])
    OBVIOUS
  <2>1. /\ id # 0 /\ id = grants[u].credentialId /\ id \in 1..Len(credentials[i])
        /\ credentials[i][id].holder = u /\ ~credentials[i][id].revoked
        /\ TypeOf[i] = policy.config.credentialType
        /\ credentials[i][id].expiresAt > now'
    BY <1>2, <1>6 DEF IsEligible, CnfStillValid, CredentialValid, CredentialMatches
  <2>2. policy.revision > 0
    BY <1>1, <1>4, <1>6 DEF IsEligible, OffAtFirst
  <2>3. i \in Issuers
    BY <1>5, <1>6, <2>2 DEF GrantInv, GrantsKept, GrantRests
  <2>4. credentials[i][id] \in Credential
    <3>1. credentials[i] \in Seq(Credential)
      BY <2>3 DEF GrantInv, CredentialsKept
    <3> QED BY <2>1, <3>1
  <2>5. credentials[i][id].expiresAt \in Nat
    BY <2>4, GrantAssumption DEF Credential
  <2>6. credentials[i][id].expiresAt > now
    BY <1>7, <2>1, <2>5
  <2> QED BY <2>1, <2>6 DEF CnfStillValid, CredentialValid, CredentialMatches
<1> QED BY <1>2, <1>6, <1>8, <1>9, <1>10 DEF IsEligible, UserInGoodStanding

\* A credential on record stays as it is, or is revoked.
LEMMA RecordsStand ==
    ASSUME GrantInv, IssuerStep, NEW j \in Issuers, NEW k \in 1..Len(credentials[j])
    PROVE  \/ credentials'[j][k] = credentials[j][k]
           \/ credentials'[j][k].revoked
<1> DEFINE Stands == credentials'[j][k] = credentials[j][k] \/ credentials'[j][k].revoked
<1>1. credentials \in [Issuers -> Seq(Credential)] /\ credentials[j] \in Seq(Credential)
  BY DEF GrantInv, CredentialsKept
<1>2. ASSUME NEW i \in Issuers, NEW u \in Users, NEW e \in Expiries, Issue(i, u, e) PROVE Stands
  <2> DEFINE record == [holder |-> u, expiresAt |-> e, revoked |-> FALSE]
  <2>1. credentials' = [credentials EXCEPT ![i] = Append(credentials[i], record)]
    BY <1>1, <1>2 DEF Issue
  <2> HIDE DEF record
  <2>2. CASE j = i
    <3>1. credentials'[j] = Append(credentials[j], record)
      BY <1>1, <2>1, <2>2
    <3>2. Append(credentials[j], record)[k] = credentials[j][k]
      BY <1>1
    <3> QED BY <3>1, <3>2
  <2>3. CASE j # i
    BY <1>1, <2>1, <2>3
  <2> QED BY <2>2, <2>3
<1>3. ASSUME NEW i \in Issuers, NEW u \in Users, RevokeCredential(i, u) PROVE Stands
  <2> DEFINE id == tokenByWallet[i][u]
             revoked == [credentials[i][id] EXCEPT !.revoked = TRUE]
             after == [credentials[i] EXCEPT ![id] = revoked]
  <2>1. id # 0 /\ credentials' = [credentials EXCEPT ![i] = after]
    BY <1>3 DEF RevokeCredential
  <2>2. credentials[i] \in Seq(Credential) /\ id \in 1..Len(credentials[i])
    BY <2>1 DEF GrantInv, CredentialsKept
  <2>3. revoked.revoked
    <3>1. credentials[i][id] \in Credential
      BY <2>2
    <3> QED BY <3>1 DEF Credential
  <2> HIDE DEF revoked, id
  <2>4. ASSUME j = i
        PROVE  credentials'[j] = after /\ after[k] = IF k = id THEN revoked ELSE credentials[j][k]
    BY <1>1, <2>1, <2>2, <2>4
  <2>5. ASSUME j # i PROVE credentials'[j] = credentials[j]
    BY <1>1, <2>1, <2>5
  <2> QED BY <2>3, <2>4, <2>5
<1>4. PICK i \in Issuers, u \in Users : (\E e \in Expiries : Issue(i, u, e)) \/ RevokeCredential(i, u)
  BY DEF IssuerStep
<1> QED BY <1>2, <1>3, <1>4

\* No issuer makes a wallet eligible: a grant answers for the credential it was given
\* on, which an issuer can only take back.
LEMMA IssuerLapses ==
    ASSUME GrantInv, IssuerStep
    PROVE  Eligible' \subseteq Eligible
<1> SUFFICES ASSUME NEW u \in Users, IsEligible(u, policy.executionPolicyHash, policy.revision)'
             PROVE  IsEligible(u, policy.executionPolicyHash, policy.revision)
  BY DEF Eligible
<1>1. UNCHANGED <<now, policy, banned, userEpoch, grants>>
  BY DEF IssuerStep, registryVars, policyVars, banVars, grantVars
<1>2. policy.enabled /\ grants[u].revision = policy.revision
  BY <1>1 DEF IsEligible
<1>3. policy.revision \in Nat /\ policy.revision > 0
  BY <1>2 DEF GrantInv, RegistryInv, RegistryTypeOK, PolicyType, OffAtFirst
<1>4. "CNF" \in grants[u].source => CnfStillValid(policy.config, u, grants[u])
  <2> DEFINE i == policy.config.cnfIssuer
             id == tokenByWallet[i][u]
  <2> SUFFICES ASSUME "CNF" \in grants[u].source PROVE CnfStillValid(policy.config, u, grants[u])
    OBVIOUS
  <2>1. i \in Issuers /\ id = grants[u].credentialId /\ id # 0
    BY <1>2, <1>3 DEF GrantInv, GrantsKept, GrantRests
  <2>2. tokenByWallet'[i][u] = id
    BY <2>1, IssuerMoves
  <2>3. id \in 1..Len(credentials[i])
    BY <2>1 DEF GrantInv, CredentialsKept
  <2> DEFINE after == credentials'[i][id]
  <2>4. /\ after.holder = u /\ ~after.revoked /\ after.expiresAt > now
        /\ TypeOf[i] = policy.config.credentialType
    BY <1>1, <2>2 DEF IsEligible, CnfStillValid, CredentialValid,
       CredentialMatches
  <2>5. after = credentials[i][id]
    BY <2>1, <2>3, <2>4, RecordsStand
  <2> QED BY <2>1, <2>3, <2>4, <2>5 DEF CnfStillValid, CredentialValid, CredentialMatches
<1> QED BY <1>1, <1>4 DEF IsEligible, UserInGoodStanding

\* What an accepted activation writes makes its wallet eligible, and no other.
LEMMA ActivationAdmits ==
    ASSUME GrantInv, NEW u \in Users, NEW n \in Nonces, NEW signed,
           NEW source \in SUBSET {"CNF", "ZK"}, NEW proof \in Proofs \cup {NoProof}, NEW deadline,
           GrantActivate(u, signed, source, proof, n, deadline)
    PROVE  Eligible' = Eligible \cup {u}
<1> DEFINE Is(v) == IsEligible(v, policy.executionPolicyHash, policy.revision)
<1>0. Accepted(u, signed, source, proof) /\ Recorded(u, source, proof)
  BY ActivationWrites
<1>1. /\ UNCHANGED <<now, policy, banned, userEpoch, tokenByWallet, credentials>>
      /\ policy.enabled /\ policy.revision \in Nat /\ policy.revision > 0
      /\ u \notin banned /\ SourceAllowed(policy.config.mode, source)
      /\ "CNF" \in source => CnfAccepts(policy.config, u)
      /\ "ZK" \in source => policy.zkEnabled /\ ProofAccepted(policy.config, u, proof)
      /\ \A v \in Users \ {u} : grants'[v] = grants[v]
  BY <1>0 DEF Accepted
<1>2. /\ admission'[u].at = now /\ admission'[u].signed = policy.executionPolicyHash
      /\ admission'[u].proof = proof
      /\ grants'[u].policyHash = policy.executionPolicyHash
      /\ grants'[u].revision = policy.revision /\ grants'[u].userEpoch = userEpoch[u]
      /\ grants'[u].rootEpoch = policy.rootEpoch /\ grants'[u].root = policy.config.acceptedRoot
      /\ grants'[u].expiresAt = GrantExpiry(policy.config, u, source, proof)
      /\ grants'[u].source = source
      /\ "CNF" \in source => grants'[u].credentialId = tokenByWallet[policy.config.cnfIssuer][u]
  BY <1>0 DEF Recorded
<1>3. ASSUME NEW v \in Users \ {u} PROVE Is(v)' <=> Is(v)
  <2>1. grants'[v] = grants[v]
    BY <1>1
  <2> QED BY <1>1, <2>1 DEF IsEligible, UserInGoodStanding, CnfStillValid, CredentialValid,
                            CredentialMatches
<1>4. Is(u)'
  <2>1. grants'[u].expiresAt > now
    BY <1>1, <1>2, ExpiryIsBounded DEF GrantInv
  <2>2. "CNF" \in source => CnfStillValid(policy.config, u, grants[u])'
    BY <1>1, <1>2 DEF CnfAccepts, CnfStillValid, CredentialValid, CredentialMatches
  <2> QED BY <1>1, <1>2, <2>1, <2>2 DEF IsEligible, UserInGoodStanding
<1> QED BY <1>3, <1>4 DEF Eligible

\* Whoever trades did activate, and everything else only takes eligibility away: the
\* grant manager implements the promise the hook relies on.
THEOREM PromiseKept == Spec => EligibilityOnlyByActivation
<1>1. Init => Promise!Init
  <2> SUFFICES ASSUME Init PROVE Eligible = {} /\ activations = [u \in Users |-> 0]
    BY DEF Promise!Init
  <2>1. ~policy.enabled
    BY DEF Init, RegistryInit
  <2> QED BY <2>1 DEF Init, Eligible, IsEligible
<1>2. ASSUME GrantInv, Next PROVE Promise!Next
  <2>1. CASE RegistryStep
    BY <1>2, <2>1, RegistryLapses DEF Promise!Next, Promise!Lapse, RegistryStep, grantVars, historyVars
  <2>2. CASE IssuerStep
    BY <1>2, <2>2, IssuerLapses DEF Promise!Next, Promise!Lapse, IssuerStep, grantVars, historyVars
  <2>3. CASE \E u \in Users : UserStep(u)
    <3>1. PICK u \in Users : UserStep(u)
      BY <2>3
    <3>2. PICK n \in Nonces :
            \/ \E signed \in seen, source \in SUBSET {"CNF", "ZK"},
                  proof \in Proofs \cup {NoProof}, deadline \in Deadlines :
                  GrantActivate(u, signed, source, proof, n, deadline)
            \/ \E space \in CancelSpaces : GrantCancelNonce(u, space, n)
      BY <3>1 DEF UserStep
    <3>3. CASE \E space \in CancelSpaces : GrantCancelNonce(u, space, n)
      <4>1. /\ UNCHANGED <<now, policy, banned, userEpoch, grants, tokenByWallet, credentials>>
            /\ UNCHANGED activations
        BY <3>3 DEF GrantCancelNonce, registryVars, policyVars, banVars, issuerVars
      <4>2. Eligible' = Eligible
        BY <4>1 DEF Eligible, IsEligible, UserInGoodStanding, CnfStillValid, CredentialValid,
                    CredentialMatches
      <4> QED BY <4>1, <4>2 DEF Promise!Next, Promise!Lapse
    <3>4. CASE \E signed \in seen, source \in SUBSET {"CNF", "ZK"},
                  proof \in Proofs \cup {NoProof}, deadline \in Deadlines :
                  GrantActivate(u, signed, source, proof, n, deadline)
      <4>1. Eligible' = Eligible \cup {u}
        BY <1>2, <3>4, ActivationAdmits
      <4>2. activations' = [activations EXCEPT ![u] = @ + 1]
        BY <3>4 DEF GrantActivate
      <4> QED BY <4>1, <4>2 DEF Promise!Next, Promise!Admit
    <3> QED BY <3>2, <3>3, <3>4
  <2> QED BY <1>2, <2>1, <2>2, <2>3 DEF Next
<1>3. ASSUME UNCHANGED vars PROVE UNCHANGED <<Eligible, activations>>
  <2>1. /\ UNCHANGED <<now, policy, banned, userEpoch, grants, tokenByWallet, credentials>>
        /\ UNCHANGED activations
    BY <1>3 DEF vars, registryVars, policyVars, banVars, issuerVars, grantVars, historyVars
  <2> QED BY <2>1 DEF Eligible, IsEligible, UserInGoodStanding, CnfStillValid, CredentialValid,
                      CredentialMatches
<1>4. GrantInv /\ [Next]_vars => [Promise!Next]_<<Eligible, activations>>
  BY <1>2, <1>3
<1> QED BY <1>1, <1>4, GrantInvariant, PTL DEF Spec, EligibilityOnlyByActivation, Promise!Spec
=============================================================================

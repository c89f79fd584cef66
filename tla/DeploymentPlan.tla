--------------------------- MODULE DeploymentPlan ---------------------------
(***************************************************************************)
(* The plan of a deployment (scripts/mixed/prepare-deployment.mjs,         *)
(* scripts/pilot/prepare-base-sepolia.mjs, scripts/pilot/model.mjs): which *)
(* configurations are accepted and which transactions, in which order and  *)
(* at which nonces, they stand for.  The data of a transaction is          *)
(* determined by its label and the configuration and is left out; what a   *)
(* contract creation yields is the address of the deployer's nonce.        *)
(***************************************************************************)
EXTENDS Integers, Sequences, FiniteSets, SequencesExt

Thresholds == {"heartbeat0", "heartbeat1", "usdDeviationBps", "pairDeviationBps",
               "poolOracleDeviationBps", "sequencerGracePeriod"}

ZeroAddress == "0x0"

\* What a production configuration has to name, and its form: hex digits.
ProductionEvidence ==
    {"sourceCommit", "sourceDigest", "verifierAdapterCodeHash", "poolManagerCodeHash",
     "ceremonyTranscriptSHA256", "zkeySHA256", "vkeySHA256", "independentAuditSHA256",
     "issuerAcceptanceSHA256"}

TokensAndFeedsBound(c) ==
    c.token0 < c.token1 /\ c.token0 # 0 /\ c.feed0 # c.feed1

ThresholdsInRange(c) ==
    /\ \A key \in Thresholds : c[key] \in Nat
    /\ c.heartbeat0 # 0 /\ c.heartbeat1 # 0
    /\ c.poolOracleDeviationBps \in 1..100
    /\ c.usdDeviationBps <= 10000 /\ c.pairDeviationBps <= 10000

SequencerBound(c) ==
    /\ c.sequencerRequired = (c.sequencerFeed # ZeroAddress)
    /\ c.sequencerRequired = (c.sequencerGracePeriod # 0)

ValidDeploymentConfig(c) ==
    /\ c.format = "ilal-mixed-deploy-config-v1"
    /\ c.classification \in {"testnet", "production"} /\ c.chainId \in Nat \ {0}
    /\ c.addressesValid
    /\ TokensAndFeedsBound(c)
    /\ c.startNonce \in Nat /\ c.initialTick = 0
    /\ c.lowerTick = -100 /\ c.upperTick = 100
    /\ ThresholdsInRange(c)
    /\ SequencerBound(c)
    /\ c.policy # "missing"
    /\ c.mode \in {"CNF_ONLY", "ZK_ONLY", "EITHER", "BOTH"}
    /\ c.mode = "EITHER" => c.cnfSourceExplicitlyApproved
    /\ c.classification = "production" =>
         /\ c.ceremony = "reviewed-production" /\ c.sourceDirty = FALSE
         /\ ProductionEvidence \subseteq c.evidence

\* The checkout a plan is made and broadcast from: what the configuration names
\* has to be it.
SourceMatches(c, source) ==
    /\ c.sourceCommit \in {"", source.revision}
    /\ c.sourceDigest \in {"", source.digest}
    /\ c.classification = "production" => ~source.dirty

----------------------------------------------------------------------------

Deployed == << "ChainlinkStablecoinOracleGuard", "MixedOracleGuard", "MixedPolicyRegistry",
               "MixedGrantManager", "MixedExecutionRouter", "MixedLiquidityRouter",
               "MixedHookFactory" >>

\* Configure first, then hand governance to the administrator.
Called(c) == << "deploy hook", "bind execution hook", "bind liquidity hook",
                "configure policy", "initialize pool" >>
             \o (IF c.admin # c.deployer THEN << "transfer governance" >> ELSE << >>)

\* A creation is expected at the address of its nonce; a call yields no contract.
Transaction(c, label, nonce, creation) ==
    [label |-> label, nonce |-> nonce, chainId |-> c.chainId, from |-> c.deployer,
     expectedAddress |-> IF creation THEN <<c.deployer, nonce>> ELSE <<>>]

Creations(c, names, first) ==
    [i \in 1..Len(names) |-> Transaction(c, names[i], first + i - 1, TRUE)]

PrepareDeployment(c) ==
    LET firstCall == c.startNonce + Len(Deployed)
    IN  Creations(c, Deployed, c.startNonce)
        \o [i \in 1..Len(Called(c)) |-> Transaction(c, Called(c)[i], firstCall + i - 1, FALSE)]

----------------------------------------------------------------------------
(* The issuer pilot puts its two assets and, for CNF_ONLY, its credential  *)
(* issuer in front.                                                        *)

RoleNames == {"deployer", "issuer", "settlementAssetOperator", "liquidityProvider",
              "institutionA", "institutionB", "executor"}

ValidPilotPolicy(p) ==
    /\ p.mode \in {"CNF_ONLY", "ZK_ONLY"}
    /\ p.grantTtlSeconds \in 60..604800
    /\ p.mode = "ZK_ONLY" => p.fieldElements /\ p.minKycLevel \in 0..3

ValidPilotConfig(pilot) ==
    /\ pilot.format = "ilal-issuer-pilot-config-v1" /\ pilot.chainId \in Nat \ {0}
    /\ Cardinality({pilot.roles[name] : name \in RoleNames}) = Cardinality(RoleNames)
    /\ pilot.assets.a # pilot.assets.b
    /\ ValidPilotPolicy(pilot.policy)
    /\ pilot.scenario = "canonical"

PilotAssets(pilot) ==
    << "PilotAsset A", "PilotAsset B" >>
    \o (IF pilot.policy.mode = "CNF_ONLY" THEN << "PilotCNFIssuer" >> ELSE << >>)

\* The protocol's own configuration: the pool belongs to the issuer, and the first
\* nonce is the one behind the assets.  token0 is the asset with the lower address.
PilotProtocolConfig(pilot, d) ==
    [format |-> "ilal-mixed-deploy-config-v1", classification |-> "testnet",
     chainId |-> 84532, deployer |-> pilot.roles.deployer, admin |-> pilot.roles.issuer,
     addressesValid |-> TRUE, token0 |-> 1, token1 |-> 2,
     feed0 |-> d.feedIssuerAsset, feed1 |-> d.feedSettlementCash,
     sequencerFeed |-> ZeroAddress, startNonce |-> d.startNonce + Len(PilotAssets(pilot)),
     initialTick |-> 0, heartbeat0 |-> 86400, heartbeat1 |-> 86400,
     usdDeviationBps |-> 100, pairDeviationBps |-> 100, poolOracleDeviationBps |-> 100,
     sequencerGracePeriod |-> 0, sequencerRequired |-> FALSE,
     lowerTick |-> -100, upperTick |-> 100, mode |-> pilot.policy.mode,
     cnfSourceExplicitlyApproved |-> FALSE, ceremony |-> "unsafe-development",
     sourceCommit |-> d.sourceCommit, sourceDigest |-> d.sourceDigest,
     sourceDirty |-> d.sourceDirty, policy |-> "from the pilot", evidence |-> {}]

ValidPilotPlan(pilot, d) ==
    /\ ValidPilotConfig(pilot) /\ pilot.chainId = 84532
    /\ d.startNonce \in Nat
    /\ ValidDeploymentConfig(PilotProtocolConfig(pilot, d))

PreparePilotDeployment(pilot, d) ==
    LET c == PilotProtocolConfig(pilot, d)
    IN  Creations(c, PilotAssets(pilot), d.startNonce) \o PrepareDeployment(c)
=============================================================================

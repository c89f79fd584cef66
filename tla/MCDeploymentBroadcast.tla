----------------------- MODULE MCDeploymentBroadcast -----------------------
(* The whole plans of both scripts, a plan that was edited, one from another *)
(* checkout and one of an EITHER pool nobody approved, and every combination *)
(* of the signer's options.                                                  *)
EXTENDS MCKeystores, DeploymentBroadcast

CONSTANTS dep, iss, oth

MixedConfig ==
    [format |-> "ilal-mixed-deploy-config-v1", classification |-> "testnet", chainId |-> 84532,
     deployer |-> dep, admin |-> iss, addressesValid |-> TRUE, token0 |-> 1, token1 |-> 2,
     feed0 |-> 1, feed1 |-> 2, sequencerFeed |-> ZeroAddress, startNonce |-> StartNonce,
     initialTick |-> 0, heartbeat0 |-> 60, heartbeat1 |-> 60, usdDeviationBps |-> 100,
     pairDeviationBps |-> 100, poolOracleDeviationBps |-> 100, sequencerGracePeriod |-> 0,
     sequencerRequired |-> FALSE, lowerTick |-> -100, upperTick |-> 100, mode |-> "CNF_ONLY",
     cnfSourceExplicitlyApproved |-> FALSE, ceremony |-> "unsafe-development",
     sourceCommit |-> "abc", sourceDigest |-> "", sourceDirty |-> TRUE, policy |-> "given",
     evidence |-> {}]

PilotConfig ==
    [format |-> "ilal-issuer-pilot-config-v1", chainId |-> 84532,
     roles |-> [name \in RoleNames |-> IF name = "deployer" THEN dep
                                       ELSE IF name = "issuer" THEN iss ELSE <<oth, name>>],
     assets |-> [a |-> "ISS", b |-> "CASH"],
     policy |-> [mode |-> "ZK_ONLY", grantTtlSeconds |-> 3600, fieldElements |-> TRUE,
                 minKycLevel |-> 1],
     scenario |-> "canonical"]

Dependencies == [startNonce |-> StartNonce, feedIssuerAsset |-> 1, feedSettlementCash |-> 2,
                 sourceCommit |-> "abc", sourceDigest |-> "d", sourceDirty |-> TRUE]

MixedPlan(c, transactions) ==
    [script |-> "mixed", config |-> c, dependencies |-> Dependencies, transactions |-> transactions]

Elsewhere == [MixedConfig EXCEPT !.sourceCommit = "def"]
Unapproved == [MixedConfig EXCEPT !.mode = "EITHER"]

MCReviewed ==
    [mixed |-> MixedPlan(MixedConfig, PrepareDeployment(MixedConfig)),
     edited |-> MixedPlan(MixedConfig, Front(PrepareDeployment(MixedConfig))),
     elsewhere |-> MixedPlan(Elsewhere, PrepareDeployment(Elsewhere)),
     unapproved |-> MixedPlan(Unapproved, PrepareDeployment(Unapproved)),
     pilot |-> [script |-> "pilot", config |-> PilotConfig, dependencies |-> Dependencies,
                transactions |-> PreparePilotDeployment(PilotConfig, Dependencies)]]

MCCheckout == [revision |-> "abc", digest |-> "d", dirty |-> TRUE]

Keystores == { NoValue, Keystore(dep), Keystore(oth), KeystoreOf(dep, NoValue),
               KeystoreOf(dep, [prefixed |-> TRUE, of |-> dep]),
               KeystoreOf(dep, [prefixed |-> FALSE, of |-> oth]) }
PasswordFiles == { NoValue, PasswordFile(<<"p", "w", "\r", "\n">>), PasswordFile(<<"p">>),
                   SharedFile(<<"p", "w">>) }
RpcAccounts == { NoValue, [valid |-> TRUE, of |-> dep], [valid |-> TRUE, of |-> oth],
                 [valid |-> FALSE, of |-> dep] }
RawKeys == { NoValue, [form |-> "prefixed", of |-> dep], [form |-> "bare", of |-> dep] }

Options == [keystore |-> NoValue, passwordFile |-> NoValue, rpcAccount |-> NoValue,
            unsafePrivateKey |-> FALSE]
Typed == Typing(<<"p", "x", "backspace", "w", "return">>)
Here(env) == [env |-> env, terminal |-> Typed]
Endpoint(id) == [chainId |-> id, accounts |-> {dep}]

ByKeystore ==
    {[options |-> [Options EXCEPT !.keystore = k, !.passwordFile = f], at |-> Here(NoValue),
      rpc |-> Endpoint(84532)] : k \in Keystores, f \in PasswordFiles}
ByAccountOrKey ==
    {[options |-> [Options EXCEPT !.rpcAccount = a, !.unsafePrivateKey = unsafe], at |-> Here(raw),
      rpc |-> Endpoint(id)] : a \in RpcAccounts, unsafe \in BOOLEAN, raw \in RawKeys, id \in {1, 84532}}
ByTwoSources ==
    {[options |-> [Options EXCEPT !.keystore = Keystore(dep), !.rpcAccount = [valid |-> TRUE, of |-> dep]],
      at |-> [env |-> NoValue, terminal |-> NoTerminal], rpc |-> Endpoint(84532)]}

MCInvocations == ByKeystore \cup ByAccountOrKey \cup ByTwoSources
=============================================================================

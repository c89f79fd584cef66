--------------------------- MODULE MCMixedConsole ---------------------------
(* Two users' orders: a batch of three that matches in part and one direct     *)
(* swap; one activation; the deployment's manifest, one that names another deployment's grant  *)
(* manager and one for another chain.                                          *)
EXTENDS MixedConsole

Bound(name) ==
    CASE name = "hook" ->
           [executionRouter |-> "executionRouter", liquidityRouter |-> "liquidityRouter",
            poolManager |-> "poolManager", oracle |-> "oracle", eligibility |-> "grantManager",
            supportedPoolId |-> <<1, 2, "hook">>]
      [] name \in {"executionRouter", "liquidityRouter"} -> [canonicalHook |-> "hook"]
      [] name \in {"grantManager", "otherGrants"} -> [registry |-> "policyRegistry"]
      [] name = "oracle" -> [token0 |-> 1, token1 |-> 2]
      [] OTHER -> [none |-> "none"]

MCWorld ==
    [chainId |-> 1,
     code |-> [name \in Named \cup {"otherGrants"} |-> name],
     says |-> [name \in Named \cup {"otherGrants"} |-> Bound(name)],
     decimals |-> [token \in 1..2 |-> 6]]

Manifest ==
    [format |-> "ilal-mixed-deployment-v1", chainId |-> 1, contracts |-> [name \in Named |-> name],
     pool |-> [currency0 |-> 1, currency1 |-> 2, hooks |-> "hook", poolId |-> <<1, 2, "hook">>],
     classification |-> "testnet", ceremony |-> "unsafe-development",
     codeHashes |-> [name \in {"hook"} |-> "hook"]]

MCManifests ==
    {Manifest, [Manifest EXCEPT !.contracts.grantManager = "otherGrants"], [Manifest EXCEPT !.chainId = 2]}

File(kind, user, z, amount, hash, deadline) ==
    [kind |-> kind, domain |-> MixedDomain(1, "hook", FALSE),
     order |-> [user |-> user, zeroForOne |-> z, amountIn |-> amount, hash |-> hash,
                minSqrtPriceX96 |-> 3, maxSqrtPriceX96 |-> 4, deadline |-> deadline, nonce |-> 1]]

Buy == File("batch", "a", TRUE, 5, 3, 1)
Sell(amount, hash) == File("batch", "b", FALSE, amount, hash, 0)
Swap == File("direct", "a", TRUE, 3, 5, 1)

Other(amount, hash, nonce) == [Sell(amount, hash) EXCEPT !.order.nonce = nonce]
MCFiles == {Buy, Sell(2, 4), Swap}
MCLists == {<<Swap>>, <<Buy, Sell(2, 4), Other(3, 1, 2)>>}

MCAuthorizations ==
    {[user |-> "a", space |-> space, nonce |-> 1, deadline |-> 1] : space \in {Spaces.GRANT_ACTIVATION}}

MCGenesis ==
    [hash |-> <<1, 0>>, time |-> 0, price |-> 3, spent |-> {}, tx |-> NoTx, success |-> FALSE,
     eligible |-> {<<"grantManager", "a">>, <<"grantManager", "b">>,
                   <<"otherGrants", "a">>},
     funds |-> [u \in {"a", "b"} |-> 5]]
=============================================================================

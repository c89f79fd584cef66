----------------------------- MODULE MixedClient -----------------------------
(***************************************************************************)
(* What the SDK computes by itself (sdk/src/mixed/client.ts, model.ts,     *)
(* types.ts): which orders and manifests it accepts, how a manifest is     *)
(* compared with the contracts on the chain, which contract an             *)
(* authorization belongs to, and how a quote is put together.              *)
(*                                                                         *)
(* An order is a record; `hash' is its place among the hashes the router   *)
(* and the SDK sort by.                                                     *)
(***************************************************************************)
EXTENDS MatchingMath, Sequences, FiniteSets, TLC

\* The namespaces of types.ts.
Spaces == [BATCH_ORDER |-> 0, DIRECT_SWAP |-> 1, GRANT_ACTIVATION |-> 2,
           LP_ADD |-> 3, LP_EXIT |-> 4, LP_COLLECT |-> 5]

MixedDomain(chainId, contract, grant) ==
    [name |-> IF grant THEN "ILAL Mixed Grant" ELSE "ILAL Mixed Hook",
     chainId |-> chainId, verifyingContract |-> contract]

MixedTypedData(order, d, direct) ==
    [domain |-> MixedDomain(d.chainId, d.contracts.hook, FALSE),
     primaryType |-> IF direct THEN "MixedDirectSwap" ELSE "MixedOrder", message |-> order]

\* parseMixedOrder, for fields of the right form.
OrderInBounds(o) ==
    /\ o.amountIn \in 1..MAX_AMOUNT
    /\ o.minSqrtPriceX96 # 0 /\ o.minSqrtPriceX96 <= o.maxSqrtPriceX96

\* parseSignedMixedOrder and the loop of prepareMixedExecution: the files of an
\* execution are of one kind and all for this hook on this chain.
IsDirect(files) == Len(files) = 1 /\ files[1].kind = "direct"

FilesAccepted(files, d) ==
    \A i \in DOMAIN files :
        LET f == files[i] IN
        /\ OrderInBounds(f.order)
        /\ f.kind = IF IsDirect(files) THEN "direct" ELSE "batch"
        /\ f.domain = MixedDomain(d.chainId, d.contracts.hook, FALSE)

\* executeDirectSwap or executeBatch.
ExecutionCall(files) ==
    [to |-> "executionRouter", direct |-> IsDirect(files),
     orders |-> [i \in DOMAIN files |-> files[i].order]]

\* The nonces of grants are the grant manager's, all others the hook's.
CancelTarget(d, space) ==
    IF space = Spaces.GRANT_ACTIVATION THEN d.contracts.grantManager ELSE d.contracts.hook

----------------------------------------------------------------------------
(* A manifest.                                                             *)

Named == {"poolManager", "hook", "executionRouter", "liquidityRouter", "oracle",
          "grantManager", "policyRegistry"}

ValidMixedDeployment(d) ==
    /\ d.format = "ilal-mixed-deployment-v1" /\ d.chainId > 0
    /\ d.pool.currency0 < d.pool.currency1 /\ d.pool.currency0 # 0
    /\ d.pool.hooks = d.contracts.hook
    /\ d.pool.poolId = <<d.pool.currency0, d.pool.currency1, d.pool.hooks>>
    /\ d.classification = "production" =>
         d.ceremony = "reviewed-production" /\ DOMAIN d.codeHashes = Named

\* What each contract says it is bound to, and what the manifest says.
Bindings(d) ==
    [ c \in {<<"hook", "executionRouter">>, <<"hook", "liquidityRouter">>, <<"hook", "poolManager">>,
             <<"hook", "oracle">>, <<"hook", "supportedPoolId">>,
             <<"executionRouter", "canonicalHook">>, <<"liquidityRouter", "canonicalHook">>,
             <<"grantManager", "registry">>, <<"hook", "eligibility">>,
             <<"oracle", "token0">>, <<"oracle", "token1">>} |->
        CASE c[2] = "supportedPoolId" -> d.pool.poolId
          [] c[2] = "canonicalHook" -> d.contracts.hook
          [] c[2] = "registry" -> d.contracts.policyRegistry
          [] c[2] = "eligibility" -> d.contracts.grantManager
          [] c[2] = "token0" -> d.pool.currency0
          [] c[2] = "token1" -> d.pool.currency1
          [] OTHER -> d.contracts[c[2]] ]

BoundAsNamed(d, world) ==
    \A c \in DOMAIN Bindings(d) : world.says[d.contracts[c[1]]][c[2]] = Bindings(d)[c]

\* checkMixedDeployment, against the chain the node serves.
DeploymentMatches(d, world) ==
    /\ ValidMixedDeployment(d)
    /\ world.chainId = d.chainId
    /\ \A name \in Named :
         /\ d.contracts[name] \in DOMAIN world.code
         /\ name \in DOMAIN d.codeHashes => d.codeHashes[name] = world.code[d.contracts[name]]
    /\ BoundAsNamed(d, world)
    /\ world.decimals[d.pool.currency0] = world.decimals[d.pool.currency1]

----------------------------------------------------------------------------
(* The reference model of a match, and the quote made with it.             *)

MatchingBudget(total0, total1, sqrtPriceX96) ==
    LET n == sqrtPriceX96 * sqrtPriceX96
        converted == (total1 * Q192) \div n
        matched0 == IF total0 < converted THEN total0 ELSE converted
    IN  [total0 |-> total0, total1 |-> total1,
         matched0 |-> matched0, matched1 |-> (matched0 * n) \div Q192]

MatchingBudgetDefined(total0, total1, sqrtPriceX96) ==
    /\ sqrtPriceX96 \in MinSqrt..MaxSqrt
    /\ total0 \in 1..MAX_AMOUNT /\ total1 \in 1..MAX_AMOUNT
    /\ LET b == MatchingBudget(total0, total1, sqrtPriceX96)
       IN  b.matched0 # 0 /\ b.matched1 # 0

\* As if each order were rounded for itself.
AllocateMatchAlone(b, zeroForOne, cumulative, amount) ==
    LET total == IF zeroForOne THEN b.total0 ELSE b.total1
        matched == IF zeroForOne THEN b.matched0 ELSE b.matched1
        output == IF zeroForOne THEN b.matched1 ELSE b.matched0
        matchedInput == (amount * matched) \div total
    IN  [matchedInput |-> matchedInput, matchedOutput |-> (matchedInput * output) \div matched,
         residual |-> amount - matchedInput]

AllocateMatch(b, zeroForOne, cumulative, amount) ==
    LET total == IF zeroForOne THEN b.total0 ELSE b.total1
        matched == IF zeroForOne THEN b.matched0 ELSE b.matched1
        output == IF zeroForOne THEN b.matched1 ELSE b.matched0
        first == (cumulative * matched) \div total
        after == ((cumulative + amount) * matched) \div total
    IN  [matchedInput |-> after - first,
         matchedOutput |-> (after * output) \div matched - (first * output) \div matched,
         residual |-> amount - (after - first)]

\* What the orders of one side among the first n put in.
InputOf(orders, zeroForOne, n) ==
    LET sum[i \in 0..n] ==
            IF i = 0 THEN 0
            ELSE sum[i - 1] + (IF orders[i].zeroForOne = zeroForOne THEN orders[i].amountIn ELSE 0)
    IN  sum[n]

\* The orders by their hashes, one with the same hash as another after it: the k-th
\* is the one that has k - 1 before it.
Before(orders, i) ==
    {j \in DOMAIN orders : \/ orders[j].hash < orders[i].hash
                           \/ orders[j].hash = orders[i].hash /\ j < i}
SortedByHash(orders) ==
    [k \in DOMAIN orders |->
        orders[CHOOSE i \in DOMAIN orders : Cardinality(Before(orders, i)) = k - 1]]

\* spendRequirements: input per user and token.
Required(orders, user, zeroForOne) ==
    InputOf(SelectSeq(orders, LAMBDA o : o.user = user), zeroForOne,
            Len(SelectSeq(orders, LAMBDA o : o.user = user)))

QuoteCount(orders, direct) == IF direct THEN Len(orders) = 1 ELSE Len(orders) \in 2..16

\* The rows of a quote: the SDK's own allocation at the price it read, beside the
\* outputs the simulation returned in the router's order.
QuoteRows(orders, direct, price, outputs) ==
    LET sorted == SortedByHash(orders)
        budget == MatchingBudget(InputOf(sorted, TRUE, Len(sorted)),
                                 InputOf(sorted, FALSE, Len(sorted)), price)
        allocation(i) ==
            IF direct THEN [matchedInput |-> 0, matchedOutput |-> 0, residual |-> sorted[i].amountIn]
            ELSE AllocateMatch(budget, sorted[i].zeroForOne,
                               InputOf(sorted, sorted[i].zeroForOne, i - 1), sorted[i].amountIn)
    IN  [i \in DOMAIN sorted |->
            [hash |-> sorted[i].hash, matchedInput |-> allocation(i).matchedInput,
             matchedOutput |-> allocation(i).matchedOutput, residual |-> allocation(i).residual,
             output |-> outputs[i], ammOutput |-> outputs[i] - allocation(i).matchedOutput]]

----------------------------------------------------------------------------

\* readMixedOrderStatus, from what was read.
OrderSpace(kind) == IF kind = "direct" THEN Spaces.DIRECT_SWAP ELSE Spaces.BATCH_ORDER

StatusOf(used, time, deadline, eligible) ==
    IF used THEN "consumed-or-cancelled"
    ELSE IF time > deadline THEN "expired"
    ELSE IF ~eligible THEN "ineligible" ELSE "pending-authorization"
=============================================================================

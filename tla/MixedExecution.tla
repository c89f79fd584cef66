---------------------------- MODULE MixedExecution ----------------------------
(***************************************************************************)
(* One call of the execution router, contracts/src/mixed/MixedExecution-    *)
(* Router.sol, through the pool manager's unlock and the hook (MixedHook):   *)
(* sort, open, fund every order, swap every order, close, pay every order,  *)
(* return.  quoteBatch runs the same steps on unsigned orders and reverts.  *)
(*                                                                         *)
(* The chain runs one call at a time; between calls time passes, users void *)
(* nonces and eligibility changes as Eligibility allows, and the same       *)
(* orders may be submitted again, in another order or with others.  At any  *)
(* step a call may fail, at a require or for want of gas, and then all of   *)
(* it is undone: a require that fails is a step that only Abort can take.   *)
(*                                                                         *)
(* Orders name the policy in force; one that names another is refused like  *)
(* that of a user who is not eligible.  A token is named by the side that   *)
(* sells it.  The pool manager and its liquidity are external.              *)
(***************************************************************************)
EXTENDS MatchingMath, Sequences, SequencesExt, FiniteSetsExt

CONSTANTS
    Users, Nonces,
    Orders,         \* the orders that may be submitted or quoted
    Signed,         \* those that their users signed
    HashOf,         \* the struct hash of each order, as a number
    Prices,         \* the sqrt prices the pool may have
    AmmOutputs,     \* what a swap against the liquidity may return
    Funds,          \* what each wallet holds, and has approved, of each token
    Liquidity,      \* what the liquidity holds of each token
    MaxBatch,       \* 16 orders
    MaxTime,        \* bound: the last block timestamp
    MaxActivations  \* bound: how often a user becomes eligible

VARIABLES
    now, nonces, eligible, activations,
    wallet, reserve, price,         \* tokens, and the sqrt price of the pool
    routerActive, quoting,          \* transient flags of the router
    hookActive, current, hashes, allocations,       \* context of the hook
    deltas,                         \* the pool manager's account of each caller
    phase, orders, direct, index, outputs,          \* the call being run
    saved,                          \* what an abort goes back to
    fills                           \* history: every fill, undone with the rest

INSTANCE MixedAuthorization
Grants == INSTANCE Eligibility

accounts == <<nonces, wallet, reserve, price, fills>>
context == <<hookActive, current, hashes, allocations>>
request == <<orders, direct, quoting>>
outside == <<now, eligible, activations>>
vars == <<outside, accounts, routerActive, context, deltas, phase, request, index,
          outputs, saved>>

Space(dir) == IF dir THEN DIRECT_SWAP ELSE BATCH_ORDER

Order == [ user : Users, space : {BATCH_ORDER, DIRECT_SWAP}, zeroForOne : Sides,
           amountIn : Nat \ {0}, minAmountOut : Nat, maxAmmInput : Nat,
           minSqrtPrice : Nat, maxSqrtPrice : Nat, deadline : Nat, nonce : Nonces ]

ASSUME ExecutionAssumption ==
    /\ Orders \subseteq Order
    /\ Signed \subseteq Orders
    /\ HashOf \in [Orders -> Nat]
    /\ \A o, p \in Orders : HashOf[o] = HashOf[p] => o = p
    /\ Prices \subseteq Nat
    /\ AmmOutputs \subseteq Nat /\ 0 \in AmmOutputs
    /\ Funds \in [Users -> [Sides -> Nat]]
    /\ Liquidity \in [Sides -> Nat]
    /\ MaxBatch \in Nat /\ MaxTime \in Nat /\ MaxActivations \in Nat

NoContext == [commitment |-> {}, referencePrice |-> 0, next |-> 0, direct |-> FALSE,
              budget |-> Budget([z \in Sides |-> 0], 1)]
NoDeltas == [c \in {"router", "hook"} |-> [t \in Sides |-> 0]]

-----------------------------------------------------------------------------
(* openBatch: what each order is to give and get. *)

\* Mutant: the order is compared with the one before it only.
OnePlaceDown(os, i) == IF HashOf[os[i]] < HashOf[os[i - 1]] THEN i - 1 ELSE i

\* The inner loop of _execute: order i is exchanged with the one before it for as long as
\* there is one and it has the greater hash.  This is where it comes to rest.
Rest(os, i) ==
    CHOOSE j \in 1..i :
        /\ \A k \in j..i - 1 : HashOf[os[i]] < HashOf[os[k]]
        /\ j > 1 => ~(HashOf[os[i]] < HashOf[os[j - 1]])

\* Those it passed are one place further up.
Insert(os, i) ==
    LET j == Rest(os, i)
    IN  [k \in DOMAIN os |->
            CASE k = j -> os[i] [] k \in j + 1..i -> os[k - 1] [] OTHER -> os[k]]

\* The outer loop of _execute, from the second order on: an insertion sort by struct hash.
Sorted(os) ==
    LET pass[i \in 1..Len(os)] == IF i = 1 THEN os ELSE Insert(pass[i - 1], i)
    IN  pass[Len(os)]

AmountsIn(os) == [i \in DOMAIN os |-> os[i].amountIn]

\* Those of side z among the first n orders.
OfSide(os, z, n) == {i \in 1..n : os[i].zeroForOne = z}

Total(os, z) == SumFunctionOnSet(AmountsIn(os), OfSide(os, z, Len(os)))

\* Input of the order's side ahead of it: c0 or c1.
Ahead(os, i) == SumFunctionOnSet(AmountsIn(os), OfSide(os, os[i].zeroForOne, i - 1))

BudgetOf(os, dir) ==
    LET total == [z \in Sides |-> Total(os, z)] IN
    IF dir THEN [total |-> total, matched |-> [z \in Sides |-> 0]] ELSE Budget(total, price)

\* A direct swap is all residual.
AllocationOf(os, dir, i) ==
    IF dir THEN [matchedInput |-> 0, matchedOutput |-> 0, residual |-> os[i].amountIn]
    ELSE Allocate(BudgetOf(os, dir), os[i].zeroForOne, Ahead(os, i), os[i].amountIn)

AllocationsOf(os, dir) == [i \in DOMAIN os |-> AllocationOf(os, dir, i)]

\* What the order allows to reach the pool.
WithinOrder(o, a) == a.residual <= o.maxAmmInput /\ a.matchedOutput <= MAX_AMOUNT

\* budget and allocate do not revert, and every order is kept to its limit.
Matches(os, dir) ==
    /\ \A z \in Sides : Total(os, z) <= MAX_AMOUNT
    /\ ~dir => BudgetDefined([z \in Sides |-> Total(os, z)], price)
    /\ \A i \in DOMAIN os :
          /\ ~dir => AllocationDefined(BudgetOf(os, dir), os[i].zeroForOne, Ahead(os, i),
                                       os[i].amountIn)
          /\ WithinOrder(os[i], AllocationOf(os, dir, i))

\* _authorize, or only the deadline in a quote.
Authorized(o) == ~quoting => o \in Signed /\ o.space = Space(direct)

\* _validateOrder but for the nonce, which is spent for all orders below.
Acceptable(o) ==
    /\ o.amountIn \in 1..MAX_AMOUNT
    /\ o.minSqrtPrice <= price /\ price <= o.maxSqrtPrice
    /\ Authorized(o)
    /\ InTime(now, o.deadline)
    /\ o.user \in eligible

\* Mutant: nonces are marked, but not looked at.
MarkNonces(spent) == nonces' = nonces \cup spent

\* _consume for a set of nonces, no two orders with the same.
ConsumeAll(spent) ==
    /\ Cardinality(spent) = Len(orders)
    /\ spent \cap nonces = {}
    /\ nonces' = nonces \cup spent

InBand(s) == PriceSupported(s)

-----------------------------------------------------------------------------
(* The steps of a call. *)

Persistent ==
    [ nonces |-> nonces, wallet |-> wallet, reserve |-> reserve, price |-> price,
      fills |-> fills, hookActive |-> hookActive, current |-> current,
      hashes |-> hashes, allocations |-> allocations ]

\* executeBatch, executeDirectSwap, quoteBatch.
Call(os, dir, quote) ==
    /\ phase = "idle"
    /\ ~routerActive /\ ~quoting
    /\ IF dir THEN Len(os) = 1 ELSE Len(os) \in 2..MaxBatch
    /\ orders' = Sorted(os) /\ direct' = dir /\ quoting' = quote
    /\ routerActive' = TRUE
    /\ saved' = Persistent
    /\ phase' = "open"
    /\ UNCHANGED <<outside, accounts, context, deltas, index, outputs>>

Open ==
    /\ phase = "open"
    /\ routerActive /\ ~hookActive
    /\ InBand(price)
    /\ \A i \in DOMAIN orders : Acceptable(orders[i])
    /\ \A i \in 2..Len(orders) : HashOf[orders[i - 1]] < HashOf[orders[i]]
    /\ ConsumeAll({<<o.user, Space(direct), o.nonce>> : o \in ToSet(orders)})
    /\ Matches(orders, direct)
    /\ current' = [ commitment |-> ToSet(orders), referencePrice |-> price, next |-> 1,
                    direct |-> direct, budget |-> BudgetOf(orders, direct) ]
    /\ hashes' = [i \in DOMAIN orders |-> orders[i]]
    /\ allocations' = AllocationsOf(orders, direct)
    /\ hookActive' = TRUE
    /\ phase' = "fund" /\ index' = 1
    /\ UNCHANGED <<outside, wallet, reserve, price, routerActive, deltas, request, outputs,
                   saved, fills>>

\* The next order, or the next phase.
Advance(following) ==
    IF index < Len(orders) THEN index' = index + 1 /\ phase' = phase
                           ELSE index' = 1 /\ phase' = following

\* MixedSettlement.fund
Fund ==
    LET o == orders[index] IN
    /\ phase = "fund"
    /\ wallet[o.user][o.zeroForOne] >= o.amountIn
    /\ wallet' = [wallet EXCEPT ![o.user][o.zeroForOne] = @ - o.amountIn]
    /\ deltas' = [deltas EXCEPT !["router"][o.zeroForOne] = @ + o.amountIn]
    /\ Advance("swap")
    /\ UNCHANGED <<outside, nonces, reserve, price, routerActive, context, request, outputs,
                   saved, fills>>

\* Mutant: the router asks for no limit.
PriceUnlimited(z) == IF z THEN 0 ELSE 2 * MaxSqrt

\* priceLimit: a swap stops at the edge of the band it moves towards.
PriceLimit(z) == IF z THEN MinSqrt ELSE MaxSqrt

\* A swap of the pool manager: all of the input, or the router reverts, at a price
\* that moves towards the limit, for an output the liquidity has.
AmmSwap(z, input, output, p) ==
    /\ p \in Prices
    /\ IF input = 0 THEN output = 0 /\ p = price
       ELSE /\ output \in AmmOutputs /\ output <= reserve[~z]
            /\ IF z THEN PriceLimit(z) <= p /\ p <= price /\ PriceLimit(z) < price
                    ELSE price <= p /\ p <= PriceLimit(z) /\ price < PriceLimit(z)
    /\ price' = p
    /\ reserve' = [reserve EXCEPT ![z] = @ + input, ![~z] = @ - output]

\* beforeSwap: each order opened, once, in its place.
BeforeSwap(o) ==
    /\ hookActive /\ routerActive
    /\ index = current.next /\ hashes[index] = o
    /\ current' = [current EXCEPT !.next = @ + 1]

\* _swap with beforeSwap: the matched part is the hook's, the rest the pool's.
\* swap settles both: the manager books the hook's part on the hook and the whole
\* on the router.
Swap ==
    LET o == orders[index]
        z == o.zeroForOne
        a == allocations[index]
    IN  /\ phase = "swap"
        /\ BeforeSwap(o)
        /\ \E ammOutput \in AmmOutputs, p \in Prices :
              LET output == a.matchedOutput + ammOutput IN
              /\ AmmSwap(z, a.residual, ammOutput, p)
              /\ output >= o.minAmountOut
              /\ outputs' = Append(outputs, output)
              /\ fills' = fills \cup
                   {[ order |-> o, matchedInput |-> a.matchedInput, ammInput |-> a.residual,
                      matchedOutput |-> a.matchedOutput, ammOutput |-> ammOutput ]}
              /\ deltas' = [deltas EXCEPT !["router"][z] = @ - o.amountIn,
                                          !["router"][~z] = @ + output,
                                          !["hook"][z] = @ + a.matchedInput,
                                          !["hook"][~z] = @ - a.matchedOutput]
        /\ Advance("close")
        /\ UNCHANGED <<outside, nonces, wallet, routerActive, hookActive, hashes, allocations,
                       request, saved>>

\* Mutant: closeBatch leaves the order hashes.
HashesKept == hashes

\* delete _hashes[i] for every i below current.count
HashesDeleted == <<>>

\* closeBatch
Close ==
    /\ phase = "close"
    /\ hookActive /\ current.next = Len(orders) + 1
    /\ InBand(price)
    /\ hashes' = HashesDeleted /\ allocations' = <<>>
    /\ current' = NoContext /\ hookActive' = FALSE
    /\ phase' = "pay"
    /\ UNCHANGED <<outside, accounts, routerActive, deltas, request, index, outputs, saved>>

\* MixedSettlement.pay
Pay ==
    LET o == orders[index] IN
    /\ phase = "pay"
    /\ wallet' = [wallet EXCEPT ![o.user][~o.zeroForOne] = @ + outputs[index]]
    /\ deltas' = [deltas EXCEPT !["router"][~o.zeroForOne] = @ - outputs[index]]
    /\ Advance("return")
    /\ UNCHANGED <<outside, nonces, reserve, price, routerActive, context, request, outputs,
                   saved, fills>>

\* The end of a call: the caller holds nothing and remembers nothing.
Finished ==
    /\ routerActive' = FALSE /\ quoting' = FALSE
    /\ phase' = "idle" /\ index' = 0
    /\ orders' = <<>> /\ outputs' = <<>> /\ direct' = FALSE
    /\ saved' = <<>>

\* quoteBatch reverts with its result.
Returns == ~quoting

\* unlock returns if every account is settled, and so does the call.
Return ==
    /\ phase = "return"
    /\ Returns
    /\ deltas = NoDeltas
    /\ Finished
    /\ UNCHANGED <<outside, accounts, context, deltas>>

\* A revert, for whatever reason, and the end of every quote.
Abort ==
    /\ phase # "idle"
    /\ nonces' = saved.nonces /\ wallet' = saved.wallet
    /\ reserve' = saved.reserve /\ price' = saved.price /\ fills' = saved.fills
    /\ hookActive' = saved.hookActive /\ current' = saved.current
    /\ hashes' = saved.hashes /\ allocations' = saved.allocations
    /\ deltas' = NoDeltas
    /\ Finished
    /\ UNCHANGED outside

-----------------------------------------------------------------------------
(* Between calls. *)

Tick ==
    /\ phase = "idle" /\ now < MaxTime
    /\ now' = now + 1
    /\ UNCHANGED <<eligible, activations, accounts, routerActive, context, deltas, phase,
                   request, index, outputs, saved>>

HookCancelNonce(u, space, n) ==
    /\ phase = "idle"
    /\ CancelNonce(u, space, n)
    /\ UNCHANGED <<outside, wallet, reserve, price, fills, routerActive, context, deltas,
                   phase, request, index, outputs, saved>>

\* What the grant manager, the registry and the issuers do to eligibility.
Review ==
    /\ phase = "idle"
    /\ \/ \E u \in Users : activations[u] < MaxActivations /\ Grants!Admit(u)
       \/ Grants!Lapse
    /\ UNCHANGED <<now, accounts, routerActive, context, deltas, phase, request, index,
                   outputs, saved>>

Init ==
    /\ now = 1 /\ nonces = {} /\ Grants!Init
    /\ wallet = Funds /\ reserve = Liquidity
    /\ price \in {p \in Prices : InBand(p)}
    /\ routerActive = FALSE /\ quoting = FALSE
    /\ hookActive = FALSE /\ current = NoContext /\ hashes = <<>> /\ allocations = <<>>
    /\ deltas = NoDeltas
    /\ phase = "idle" /\ index = 0
    /\ orders = <<>> /\ outputs = <<>> /\ direct = FALSE
    /\ saved = <<>> /\ fills = {}

\* The lists that somebody may submit: an order may be in one twice.
Submissions == UNION {[1..k -> Orders] : k \in 1..MaxBatch}

Outside ==
    \/ Tick
    \/ \E o \in Signed : HookCancelNonce(o.user, o.space, o.nonce)
    \/ Review

Step == Open \/ Fund \/ Swap \/ Close \/ Pay \/ Return \/ Abort

Next ==
    \/ \E os \in Submissions, dir, quote \in BOOLEAN : Call(os, dir, quote)
    \/ Step
    \/ Outside

Spec == Init /\ [][Next]_vars

-----------------------------------------------------------------------------
(* Properties. *)

\* No call leaves anything to a later one, in the same transaction or not: no
\* flag, no context, no order hash, no allocation and no open account.
NothingOutlivesACall ==
    phase = "idle" =>
        /\ ~routerActive /\ ~quoting /\ ~hookActive
        /\ current = NoContext /\ hashes = <<>> /\ allocations = <<>>
        /\ deltas = NoDeltas

\* When every order was swapped the hook is square with the pool manager in both
\* tokens, and the router owes it nothing beyond what it is about to pay out, so
\* that a batch that was swapped is not lost to unlock's final check.
AccountsSquare ==
    /\ phase \in {"close", "pay", "return"} => deltas["hook"] = NoDeltas["hook"]
    /\ phase = "close" => \A t \in Sides :
          deltas["router"][t] = SumFunctionOnSet(outputs, OfSide(orders, ~t, Len(orders)))
    /\ phase = "return" => deltas = NoDeltas

\* Whoever submits a set of orders, and in whatever order, it is one and the same batch:
\* the hook, which opens none that is not strictly ascending, refuses no set for the order
\* it came in, and every list of the set is sorted to the list that is about to be opened.
SubmitterHasNoSay ==
    phase = "open" /\ IsInjective(orders) =>
        /\ \A i \in 2..Len(orders) : HashOf[orders[i - 1]] < HashOf[orders[i]]
        /\ \A os \in {t \in [DOMAIN orders -> ToSet(orders)] : IsInjective(t)} :
              Sorted(os) = orders

\* No execution moves the pool out of the band, at no time within the call.
PriceStaysInBand == InBand(price)

\* A committed view, by which a call happens when it returns.
Committed(field) == IF phase = "idle" THEN Persistent[field] ELSE saved[field]

\* The promise to everybody else: calls are atomic settlements of signed orders.
Promise == INSTANCE Settlement WITH
    price <- Committed("price"), wallet <- Committed("wallet"), reserve <- Committed("reserve"),
    spent <- Committed("nonces"), fills <- Committed("fills")
CallsAreSettlements == Promise!Spec
=============================================================================

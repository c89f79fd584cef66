---------------------------- MODULE MixedConsole ----------------------------
(***************************************************************************)
(* The requests of the local console that look at the chain or prepare a   *)
(* transaction (cli/src/commands/mixedConsole.ts, commands/mixed.ts), as    *)
(* the SDK carries them out call by call, and the page that sends the       *)
(* result (site/mixed.js).  Between two calls to the node the chain moves:  *)
(* it grows, and a fork may replace its last block.                         *)
(*                                                                         *)
(* The contracts are reduced to what these requests read: the nonces spent  *)
(* with each contract, who is eligible with which grant manager, the price  *)
(* and what users can spend.                                                *)
(***************************************************************************)
EXTENDS MixedClient, SequencesExt, FiniteSetsExt

CONSTANTS
    Pages,              \* the pages open in browsers
    Manifests,          \* the deployment manifests the console may be started with
    World,              \* the chain's identity, code and immutable bindings
    Files,              \* signed orders
    Lists,              \* the lists of files a quote or an execution is asked for
    Authorizations,     \* signed activations and liquidity authorizations
    Genesis,            \* the first block
    Prices, Funds,      \* what the price and a user's spendable amount become
    MaxBlocks, MaxForks, MaxTime, MaxSent       \* bounds of the instance

VARIABLES
    manifest,           \* what the console was started with
    serving,            \* the console accepts requests
    chain,              \* the blocks the node has, the latest last
    forks,              \* the number of blocks that were replaced
    sent,               \* the transactions wallets have sent
    pages               \* what each page waits for

vars == <<manifest, serving, chain, forks, sent, pages>>

\* The fields of an order that parseMixedOrder makes numbers and a flag of.
Parsed(f) ==
    /\ f.order.zeroForOne \in Sides
    /\ {f.order.minSqrtPriceX96, f.order.maxSqrtPriceX96, f.order.deadline} \subseteq Nat
    /\ f.order.hash \in Nat

BlockFields == {"hash", "time", "price", "spent", "tx", "success", "eligible", "funds"}

ASSUME ConsoleAssumption ==
    /\ \A f \in Files : Parsed(f)
    /\ \A files \in Lists :
          files \in Seq({files[i] : i \in DOMAIN files}) /\ \A i \in DOMAIN files : Parsed(files[i])
    /\ DOMAIN Genesis = BlockFields /\ Genesis.hash = <<1, 0>> /\ Genesis.time \in Nat
    /\ Genesis.success = FALSE
    /\ MaxTime \in Nat

NoTx == [kind |-> "none"]
NoAnswer == [state |-> "none"]
Idle == [at |-> "idle", files |-> <<>>, number |-> 0, seen |-> [hash |-> <<0, 0>>, time |-> 0],
         used |-> FALSE, price |-> 0, tx |-> NoTx, answer |-> NoAnswer]
Becomes(p, state) == pages' = [pages EXCEPT ![p] = state]
ChainUnchanged == UNCHANGED <<manifest, serving, chain, forks, sent>>

Orders(files) == [i \in DOMAIN files |-> files[i].order]
Uses(f) == <<f.order.user, OrderSpace(f.kind), f.order.nonce>>

----------------------------------------------------------------------------
(* The contracts.                                                          *)

\* The hook of the manifest, and the grant manager a hook asks.
Hook == manifest.contracts.hook
HookGrants(hook) == World.says[hook].eligibility

\* _validateOrder, without the signature.
HookAccepts(hook, b, f) ==
    /\ b.price \in f.order.minSqrtPriceX96..f.order.maxSqrtPriceX96
    /\ b.time <= f.order.deadline
    /\ <<HookGrants(hook), f.order.user>> \in b.eligible
    /\ <<hook, Uses(f)>> \notin b.spent

\* The router has sorted the orders when the hook adds them up.
Totals(files) ==
    LET orders == SortedByHash(Orders(files))
    IN  [z \in Sides |-> InputOf(orders, z, Len(orders))]

Spendable(b, files) ==
    \A i \in DOMAIN files, z \in Sides :
        Required(Orders(files), files[i].order.user, z) <= b.funds[files[i].order.user]

Settles(hook, b, files) ==
    /\ \A i \in DOMAIN files : HookAccepts(hook, b, files[i])
    /\ \A i, j \in DOMAIN files : Uses(files[i]) = Uses(files[j]) => i = j
    /\ Spendable(b, files)
    /\ ~IsDirect(files) => Len(files) > 1 /\ BudgetDefined(Totals(files), b.price)

\* What the pool pays for a residual.
PoolOutput(price, z, input) ==
    IF z THEN MulDiv(input, Numerator(price), Q192) ELSE MulDiv(input, Q192, Numerator(price))

\* The settlement of openBatch and _swap, in the order of the router's sort.
Settled(b, files) ==
    LET orders == SortedByHash(Orders(files))
        budget == Budget(Totals(files), b.price)
        share(i) ==
            IF IsDirect(files)
            THEN [matchedInput |-> 0, matchedOutput |-> 0, residual |-> orders[i].amountIn]
            ELSE Allocate(budget, orders[i].zeroForOne,
                          InputOf(orders, orders[i].zeroForOne, i - 1), orders[i].amountIn)
    IN  [i \in DOMAIN orders |->
            [share |-> share(i),
             output |-> share(i).matchedOutput
                          + PoolOutput(b.price, orders[i].zeroForOne, share(i).residual)]]

\* A transaction spends nonces with one contract, at once or not at all.
Succeeds(tx, b) ==
    /\ \A u \in tx.uses : <<tx.contract, u>> \notin b.spent
    /\ \A t \in tx.deadlines : b.time <= t
    /\ tx.files # <<>> => Settles(tx.contract, b, tx.files)

----------------------------------------------------------------------------
(* The chain.                                                              *)

Latest == Last(chain)

Mined(tx) == \E i \in DOMAIN chain : chain[i].tx = tx

\* Eligibility with some grant manager, the price or an allowance changes, or
\* nothing but the time.
Changes(b) ==
    {[b EXCEPT !.eligible = SymDiff({x}, @)] : x \in {HookGrants(Hook)} \X DOMAIN Genesis.funds}
    \cup {[b EXCEPT !.price = s] : s \in Prices}
    \cup {[b EXCEPT !.funds[u] = n] : u \in DOMAIN Genesis.funds, n \in Funds}

Included(b, tx) ==
    [b EXCEPT !.tx = tx, !.success = Succeeds(tx, b),
              !.spent = IF Succeeds(tx, b) THEN @ \cup {<<tx.contract, u>> : u \in tx.uses} ELSE @]

MineBlock ==
    /\ Len(chain) < MaxBlocks
    /\ \E time \in Latest.time..MaxTime :
       LET b == [Latest EXCEPT !.hash = <<Len(chain) + 1, forks>>, !.time = time,
                               !.tx = NoTx, !.success = FALSE]
       IN  \E next \in Changes(b) \cup {Included(b, tx) : tx \in {t \in sent : ~Mined(t)}} :
              chain' = Append(chain, next)
    /\ UNCHANGED <<manifest, serving, forks, sent, pages>>

Fork ==
    /\ Len(chain) > 1 /\ forks < MaxForks
    /\ chain' = Front(chain)
    /\ forks' = forks + 1
    /\ UNCHANGED <<manifest, serving, sent, pages>>

----------------------------------------------------------------------------
(* The console.                                                            *)

\* startMixedConsole serves only a deployment that is on the chain as named.
StartMixedConsole ==
    /\ ~serving
    /\ DeploymentMatches(manifest, World)
    /\ serving' = TRUE
    /\ UNCHANGED <<manifest, chain, forks, sent, pages>>

\* Every request repeats that check: what it looks at never changes.
Asks(p, at, files) ==
    /\ serving /\ pages[p] = Idle
    /\ DeploymentMatches(manifest, World)
    /\ Becomes(p, [Idle EXCEPT !.at = at, !.files = files])
    /\ ChainUnchanged

AskStatus(p, f) == FilesAccepted(<<f>>, manifest) /\ Asks(p, "status", <<f>>)

AskQuote(p, files) ==
    /\ \A i \in DOMAIN files : OrderInBounds(files[i].order)
    /\ QuoteCount(files, IsDirect(files))
    /\ Asks(p, "quote", files)

\* getBlock: the number is what every later read of the request is pinned to.
GetBlock(p) ==
    /\ pages[p].at \in {"status", "quote"}
    /\ Becomes(p, [pages[p] EXCEPT
          !.at = IF @ = "status" THEN "nonce" ELSE "price",
          !.number = Len(chain), !.seen = [hash |-> Latest.hash, time |-> Latest.time]])
    /\ ChainUnchanged

\* As if a read had no block number.
AtLatest(p) == Latest

AtNumber(p) == chain[pages[p].number]

\* The node answers a pinned read while it has a block of that number.
Reads(p, at) == pages[p].at = at /\ pages[p].number \in DOMAIN chain

ReadNonce(p) ==
    /\ Reads(p, "nonce")
    /\ Becomes(p, [pages[p] EXCEPT !.at = "eligibility",
          !.used = <<manifest.contracts.hook, Uses(pages[p].files[1])>> \in AtNumber(p).spent])
    /\ ChainUnchanged

ReadMixedOrderStatus(p) ==
    /\ Reads(p, "eligibility")
    /\ LET o == pages[p].files[1].order
           eligible == <<manifest.contracts.grantManager, o.user>> \in AtNumber(p).eligible
       IN  Becomes(p, [pages[p] EXCEPT !.at = "answered", !.used = FALSE,
              !.answer = [state |-> StatusOf(pages[p].used, pages[p].seen.time, o.deadline, eligible)]])
    /\ ChainUnchanged

ReadPrice(p) ==
    /\ Reads(p, "price")
    /\ Becomes(p, [pages[p] EXCEPT !.at = "spending", !.price = AtNumber(p).price])
    /\ ChainUnchanged

SpendRequirements(p) ==
    /\ Reads(p, "spending")
    /\ Becomes(p, IF Spendable(AtNumber(p), pages[p].files)
                  THEN [pages[p] EXCEPT !.at = "simulation"] ELSE Idle)
    /\ ChainUnchanged

\* quoteBatch is simulated; what it reverts with is the result.
QuoteMixedOrders(p) ==
    /\ Reads(p, "simulation")
    /\ LET files == pages[p].files
           settled == Settled(AtNumber(p), files)
       IN  /\ Settles(Hook, AtNumber(p), files)
           /\ ~IsDirect(files) => MatchingBudgetDefined(Totals(files)[TRUE], Totals(files)[FALSE], pages[p].price)
           /\ Becomes(p, [pages[p] EXCEPT !.at = "answered", !.price = 0,
                 !.answer = [state |-> "quoted", price |-> pages[p].price,
                             rows |-> QuoteRows(Orders(files), IsDirect(files), pages[p].price,
                                                [i \in DOMAIN settled |-> settled[i].output])]])
    /\ ChainUnchanged

----------------------------------------------------------------------------
(* Transactions, prepared by a simulation on the latest block.             *)

Execution(files) ==
    [kind |-> "execute", contract |-> Hook, uses |-> {Uses(files[i]) : i \in DOMAIN files},
     deadlines |-> {}, files |-> files]

\* A grant is activated with the grant manager; liquidity is authorized with the hook.
Authorized(a) ==
    [kind |-> "authorize", uses |-> {<<a.user, a.space, a.nonce>>}, deadlines |-> {a.deadline},
     contract |-> IF a.space = Spaces.GRANT_ACTIVATION THEN HookGrants(Hook) ELSE Hook, files |-> <<>>]

\* As if every nonce were the hook's.
CancellationWithHook(u) ==
    [kind |-> "cancel", contract |-> manifest.contracts.hook,
     uses |-> {u}, deadlines |-> {}, files |-> <<>>]

Cancellation(u) ==
    [kind |-> "cancel", contract |-> CancelTarget(manifest, u[2]),
     uses |-> {u}, deadlines |-> {}, files |-> <<>>]

Prepared(p, tx) ==
    /\ serving /\ pages[p] = Idle
    /\ Succeeds(tx, Latest)
    /\ Becomes(p, [Idle EXCEPT !.at = "prepared", !.tx = tx])
    /\ ChainUnchanged

PrepareExecution(p, files) ==
    /\ FilesAccepted(files, manifest)
    /\ DeploymentMatches(manifest, World)
    /\ Prepared(p, Execution(files))

PrepareAuthorization(p, a) == Prepared(p, Authorized(a))

PrepareCancel(p, u) == u[2] \in 0..5 /\ Prepared(p, Cancellation(u))

SendTransaction(p) ==
    /\ pages[p].at = "prepared"
    /\ Cardinality(sent \cup {pages[p].tx}) <= MaxSent
    /\ sent' = sent \cup {pages[p].tx}
    /\ Becomes(p, [Idle EXCEPT !.at = "receipt"])
    /\ UNCHANGED <<manifest, serving, chain, forks>>

\* The receipt is shown when it is there, 120 polls at most.
ShowReceipt(p) ==
    /\ pages[p].at = "receipt"
    /\ Becomes(p, Idle)
    /\ ChainUnchanged

\* The answer is dismissed; the node fails or refuses; the wallet changed its
\* account or declines.
Stop(p) ==
    /\ pages[p].at \notin {"idle", "receipt"}
    /\ Becomes(p, Idle)
    /\ ChainUnchanged

----------------------------------------------------------------------------

Init ==
    /\ manifest \in Manifests
    /\ serving = FALSE
    /\ chain = <<Genesis>>
    /\ forks = 0
    /\ sent = {}
    /\ pages = [p \in Pages |-> Idle]

Cancellable == {Uses(f) : f \in Files} \cup {<<a.user, a.space, a.nonce>> : a \in Authorizations}

StatusPage(p) ==
    \/ \E f \in Files : AskStatus(p, f)
    \/ GetBlock(p) \/ ReadNonce(p) \/ ReadMixedOrderStatus(p)

QuotePage(p) ==
    \/ \E files \in Lists : AskQuote(p, files)
    \/ ReadPrice(p) \/ SpendRequirements(p) \/ QuoteMixedOrders(p)

SendingPage(p) ==
    \/ \E files \in Lists : PrepareExecution(p, files)
    \/ \E a \in Authorizations : PrepareAuthorization(p, a)
    \/ \E u \in Cancellable : PrepareCancel(p, u)
    \/ SendTransaction(p) \/ ShowReceipt(p) \/ Stop(p)

Next ==
    \/ MineBlock \/ Fork \/ StartMixedConsole
    \/ \E p \in Pages : StatusPage(p) \/ QuotePage(p) \/ SendingPage(p)

Spec == Init /\ [][Next]_vars

-----------------------------------------------------------------------------
(* Properties. *)

\* The answered pages whose snapshot is still part of the chain, and its block.
Answered == {p \in Pages : pages[p].at = "answered" /\ pages[p].number \in DOMAIN chain
                            /\ chain[pages[p].number].hash = pages[p].seen.hash}
Snapshot(p) == chain[pages[p].number]

\* A status says what the hook itself makes of the order in the snapshot's block,
\* though it was read in three calls between which the chain moved, from the
\* contracts the manifest names (client.ts:141-148).
StatusIsTheHooks ==
    \A p \in Answered :
        pages[p].answer.state # "quoted" =>
            LET b == Snapshot(p)
                f == pages[p].files[1]
            IN  /\ pages[p].answer.state = "consumed-or-cancelled" <=> <<Hook, Uses(f)>> \in b.spent
                /\ pages[p].answer.state = "pending-authorization"
                     <=> HookAccepts(Hook, [b EXCEPT !.price = f.order.minSqrtPriceX96], f)

\* A quote's rows, put together from the SDK's arithmetic at a price from one call
\* and the outputs of another, are the settlement of the snapshot's block, row by
\* row (client.ts:84-102, model.ts:7-27).
QuoteIsTheSettlement ==
    \A p \in Answered :
        pages[p].answer.state = "quoted" =>
            LET settled == Settled(Snapshot(p), pages[p].files)
                rows == pages[p].answer.rows
            IN  /\ Settles(Hook, Snapshot(p), pages[p].files)
                /\ \A i \in DOMAIN rows :
                     /\ rows[i].output = settled[i].output
                     /\ rows[i].matchedInput = settled[i].share.matchedInput
                     /\ rows[i].matchedOutput = settled[i].share.matchedOutput

\* After a cancellation the console prepared has succeeded, no transaction that
\* uses the cancelled authorization does (mixedConsole.ts:87-92, client.ts:133-138).
CancelledStaysDead ==
    \A i, j \in DOMAIN chain :
        /\ i < j /\ chain[i].success /\ chain[j].success
        /\ chain[i].tx.kind = "cancel"
        => chain[i].tx.uses \cap chain[j].tx.uses = {}
=============================================================================

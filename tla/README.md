# ILAL Mixed: a verification model

TLA+ models of the permissioned batch exchange in this repository
(`src/contracts/src/mixed`) and of the off-chain programs that deploy and use it
(SDK, console, signer, Safe proposals, deployment and pilot scripts), the TLC runs
that check them on small instances, and TLAPS proofs of theorems that hold for every
instance.

Paths below are relative to the repository; `mixed/` is `contracts/src/mixed/`.

## The system

Users sign orders off chain. Anybody may submit a batch of 2 to 16 signed
orders, or one direct swap, to the execution router. In one transaction the
router sorts the orders, has the hook match them against each other at the
pool's current price, sends only the residual to the public Uniswap v4 liquidity,
and pays everybody. Who may take part is decided by the grant manager, which
asks a policy registry governed by the pool's owner and a credential issuer, and
verifies zero-knowledge proofs. The owner's changes are delayed by 48 hours,
emergency stops are immediate. Around it, a local console serves pages that sign and
submit through the SDK; a command line proposes transactions to a Safe; two
broadcasters deploy a reviewed plan; and a resumable script rehearses a pool's whole
life and verifies the evidence it leaves.

| Component | State | Operations | Interacts with |
|---|---|---|---|
| Policy registry, `mixed/MixedPolicyRegistry.sol` | policy, pending proposal, retired roots, bans, user epochs, unban times | configure, activate, cancelProposal, disable, invalidateRoot, ban, proposeUnban, activateUnban | read by the grant manager |
| Authorization, `mixed/MixedAuthorization.sol`, `MixedTypes.sol` | one nonce bitmap per user and namespace | consume, cancelNonce, signature and deadline | base of the hook and of the grant manager |
| Grant manager, `mixed/MixedGrantManager.sol` | one grant per wallet, nonces | activate, cancelNonce, isEligible | reads registry, issuer, verifier; asked by the hook |
| Pilot issuer, `contracts/src/mocks/PilotCNFIssuer.sol` | one credential per wallet | issue, revoke, views | asked by the grant manager |
| Matching, `mixed/MatchingMath.sol` | none | budget, allocate | called by the hook |
| Execution router, `mixed/MixedExecutionRouter.sol`, `MixedSettlement.sol` | transient flags | executeBatch, executeDirectSwap, quoteBatch, unlockCallback | drives pool manager and hook |
| Hook, `mixed/MixedHook.sol` | nonces, the context of the batch in flight | openBatch, beforeSwap, closeBatch, liquidity callbacks | called by the routers and by the pool manager |
| Liquidity router, `mixed/MixedLiquidityRouter.sol` | transient flag | modify (add, exit, collect) | pool manager, hook |
| Oracle guard, `mixed/MixedOracleGuard.sol`, `contracts/src/oracle/` | none (reads feeds) | validate, checkBand, priceLimit | asked by the hook |
| EAS/ZK issuer, `contracts/src/CNFIssuer.sol` | credentials, root, verifier and domain with pending changes, bans | mint, renew, revoke, propose/activate | may stand in for the pilot issuer |
| SDK, `sdk/src/mixed/` | none | deployment checks, status, quote, prepare | the contracts, call by call over RPC |
| Console, `cli/src/commands/mixedConsole.ts`, page `site/mixed.js` | map of pending challenges | prepare, challenge, signed, status, quote, execute, cancel | SDK; pages in browsers |
| Signer, `cli/src/signer.ts` | the options of one invocation | keystore, managed account, unsafe key | used by every command that sends |
| Safe proposals, `cli/src/safe.ts` | one file per proposal | propose, configured call | the Safe, its transaction service |
| Deployment, `scripts/mixed/`, `scripts/pilot/prepare-*`, `broadcast-*`, `journal.mjs` | journal, manifest | prepare, broadcast, resume, reconcile | the chain, files |
| Pilot lifecycle, `scripts/pilot/lifecycle-v2.mjs`, `evidence-v2.mjs` | journal of signed steps | run, resume, verify | the chain, the contracts |

What is hard about it, by component:

* **Registry.** Two timelocks whose subject can change while they run: a proposal
  is overwritten, cancelled or voided by a stop; a user is banned again while an
  unban matures; a root is retired that a proposal names. Correct if whatever admits
  anything new waited the full delay unchallenged, and no root comes back.
* **Grant manager.** A grant is state read long after it was written. Policy, bans,
  credentials and time move in between, in any order. Correct if it counts only
  for the policy that was signed, not after a ban, and not beyond its evidence.
* **Matching.** Four divisions rounding down whose errors have to cancel exactly,
  or the pool manager refuses the whole batch.
* **Execution.** A call of many steps over several contracts, any of which may
  fail, submitted by anybody, any number of times, in any composition; and a quote
  that runs all of it on unsigned orders. Correct if nobody outside can tell that it
  has steps at all, and if no authorization is used twice.
* **Liquidity.** Eligibility, policy and feeds may fail for good while a position is
  open. Correct if its owner can always take all of it out.
* **Console and SDK.** Requests interleave at every await, with each other and with a
  chain that grows and forks; an answer is put together from several calls. Correct if
  challenges stay bounded and are not lost, and if an answer is what the contracts make
  of one block.
* **Signer.** Three sources, each with checks of its own, read twice for two consumers.
  Correct if both sign as the same account.
* **Safe proposals.** A file is written, a proposal is posted, the file is written
  again, by a process that may die anywhere and beside others using the same name.
  Correct if the file never claims more than the service holds, and never less than was posted.
* **Broadcasters.** A transaction is sent before its receipt is journaled; blocks are
  reorganised, nonces used by others, receipts preconfirmed. Correct if journal and
  manifest never name what did not happen, and a run that nothing obstructs ends.
* **Lifecycle.** The same, with transactions signed in advance and authorizations that
  age; the evidence is read call by call afterwards. Correct if no step is sent twice and
  verified evidence proves what it says.

## Modules

| Module | Models |
|---|---|
| `MixedPolicyRegistry` | the registry, one action per mutator |
| `PilotCNFIssuer` | the issuer, as operators on the variables of whoever composes it |
| `MixedAuthorization` | nonces and namespaces, likewise |
| `MixedGrantManager` | the grant manager; extends the registry, instantiates issuer and authorization, and interleaves owner, issuer, users and time |
| `Eligibility` | abstract: what the hook may assume of the grant manager |
| `MatchingMath` | budget and allocate, as operators |
| `MatchingBatch` | the two loops of `openBatch` over a batch, one order per step |
| `MixedExecution` | one call of the router through hook and pool manager, and what happens between calls; uses `MatchingMath`, `MixedAuthorization` and the actions of `Eligibility` |
| `Settlement` | abstract: what the router promises to everybody else |
| `MixedLiquidity` | positions, `modify` and the hook's checks of it, beside swaps, failing feeds and lost eligibility |
| `MixedClient` | what the SDK computes by itself: accepted orders and manifests, binding checks, quote arithmetic |
| `MixedConsole` | status, quote, execution and cancellation requests, call by call over a forking chain |
| `ConsoleChallenges` | prepare, challenge and signed of the console, between several pages |
| `ExecutionSigner` | the signer, as operators |
| `SafeProposals` | concurrent invocations of `safe propose` and of configured calls |
| `DeploymentPlan` | which configurations are accepted, and the transactions they stand for |
| `DeploymentBroadcast` | both broadcasters; extends plan and signer |
| `PilotLifecycle` | the resumable script and the verification of its evidence |
| `*Proofs` | theorems: registry and grant manager, matching, execution, both console models, Safe proposals, broadcasters, lifecycle |
| `MC*` | instances for TLC (`MCKeystores`: keystores and key files for two of them) |

### From code to actions

**Contracts.** One successful transaction is one action, except in `MatchingBatch`
(one loop iteration) and `MixedExecution` (one step of a call). A reverted transaction
changes nothing. An action has the code's `require`s as guards and includes every
private function it calls: `Activate` contains `_validate` and `_apply`, which
contains `_hash`.

* `policy`, `pending`, `retiredRoot`, `banned`, `userEpoch`, `unbanAfter` are the
  registry's mappings for one pool. Issuer hash, schema hash, jurisdiction root
  and proof policy are one value, `zkDomain`, because the code only ever compares
  them together.
* keccak hashes are injective: a policy hash is the record of what is hashed, an
  order hash is a number given by the instance.
* A signature is a fact: an action takes a message its user did sign. For grants,
  that is any policy that was enabled at some time (`seen`); for orders, the set
  `Signed`. Anybody submits, so the submitter is not modelled.
* A proof is a member of `Proofs`, the proofs that verify, with its public inputs.
* In `MixedExecution`, `deltas` are the pool manager's accounts of router and
  hook; `current`, `hashes`, `allocations` the hook's context; `saved` is what the
  revert of the running call restores. Two deviations in form: `current.next`
  counts from 1, and a token is named by the side that sells it (`TRUE` is token 0).
  The insertion sort of `_execute` (`MixedExecutionRouter.sol:105-112`) is `Sorted`, one pass
  per order: `Insert` puts an order where it comes to `Rest`, past those with larger hashes,
  and moves those up. A signature moves with its order, being a fact about it. What is
  submitted may hold the same order twice; it sorts next to itself and the hook refuses it.
* A `require` that fails inside a call, running out of gas, and a feed that
  `oracle.validate` refuses all have one effect, so they are one action, `Abort`,
  possible at each step of a call. A guard that fails leaves `Abort` as the only step.
* Pool manager, liquidity and tokens are external. A swap takes the whole input or
  the router aborts, stops at the limit it is given, and returns some amount that the
  liquidity has. Tokens are standard: `fund` refuses anything else. The router's
  and the hook's flags refuse a second call within a call, so calls do not nest.
* An order names the policy in force; one that names another is not eligible.
* In `MixedLiquidity` a call that does not revert is one step, and a user has one
  position, which earns fees of at most `MaxFees` as others swap. A message is in
  `signed` from its signature to its deadline, which `Expire` stands for.

**Programs.** One action is what a program does between two awaits or two system calls,
and another process, the chain or a crash may come in between.

* *Console*: each handler gives way at its awaits. `left` is `expires - now` in ticks,
  and the purge of expired challenges happens where the code does it, before the limit is
  tested. Identifiers and nonces are random, so an identifier is one not in use.
* *Console over the chain*: `chain` is a sequence of blocks with the contracts' state
  behind each; `Fork` replaces the last. A snapshot is the block whose number the request
  pins, and each later call reads the chain at that number. `/api/prepare`, which reads the
  policy and a block in two calls, is one step.
* *Safe proposals*: every await of an invocation is a step. A file is truncated (`Torn`)
  and then filled; `died` is possible at every step, and the answer of the service may be
  lost after it accepted. The Safe executes and changes owners between any two reads.
* *Broadcasters*: `chain[k + 1]` is the transaction mined at the deployer's nonce `k`,
  `pending` the mempool. A journal is `Absent`, `Torn` or `Journal(rows)`. Whatever goes
  wrong outside is counted in `wrong`, by kind. Waiting for a receipt follows replacements,
  as viem does. A plan is a list of labels with nonces, senders and expected addresses;
  `Unchecked` names those whose code the pilot's broadcaster does not look for.
* *Lifecycle*: a run walks the script from its start, and what the journal already has is
  looked up instead of signed. The journal is replaced as a whole (written beside and
  renamed), unlike the broadcasters'. A block is built transaction by transaction, the
  script's and foreign ones in any order (`building`), and nobody sees it before `Seal`. The nonce
  to sign with counts what is pending; a receipt brings the status of its block.
  A tick is 900 s, so the script's windows of 1800 and
  3600 s are 2 and 4. Policy and block of a quote or a grant are read in one step where the
  code makes two calls.

### History variables

`proposal`, `bannedAt`, `dropped` (registry), `seen`, `activations`, `spent`,
`admission`, `fresh` (grants), `running` (matching), `fills` (execution), `redeemed`
(console), `posted` (Safe), `broadcast` and `stood` (lifecycle) record what happened.
Only `seen` occurs in a guard, as the set of messages that can exist.
The counters `wrong` (broadcast, lifecycle) bound what goes wrong, and are named so in
the guards; `wrong.seen` and `wrong.reorgs` also tell the properties what a run saw.

## Runs

| Run | Instance and bounds | States | Checks |
|---|---|---|---|
| `registry` | 1 user, 2 roots, 5 configurations (one malformed, one CNF-only with a root that is not validated), delay 2, time to 5, 4 revisions, 3 user epochs | 264,546 | `RegistryTypeOK`, `HashIsCurrent`, `DroppedRootStaysDead`, `PendingStaysValid`, `ChangeWaitsForDelay`, `UnbanWaitsForDelay` |
| `grants` | 1 user, policy from BOTH to EITHER with another root, 3 revisions, 2 nonces, TTL 2, evidence to time 5 | 1.1 million | `StaleGrantNeverEligible`, `EligibilityIsBounded`, `EligibleAsSigned`, `EligibilityOnlyByActivation` |
| `two_users` | 2 users, one policy, each with a proof, nonces cancelled in 2 namespaces | 1,128,224 | `NonceSpentOnce`, `EligibilityOnlyByActivation` |
| `matching` | all batches of 2 to 4 orders of 1 to 3 units and of 2 to 3 orders of 1 to 7, prices below, in and on both sides of parity, unit 16 | 123,628 | `TypeOK`, `HookBalanced`, `AllocationsWithinOrders`, `SharesAreProportional`, `CrossesAtReferencePrice`, `OnlyDustIsLeft` |
| `execution` | 2 users, 6 orders, calls of up to 3, 2 blocks, one activation each | 620,444 | `NothingOutlivesACall`, `AccountsSquare`, `SubmitterHasNoSay`, `PriceStaysInBand`, `CallsAreSettlements` |
| `liquidity` | 1 user, 2 nonces per namespace, prices 0 and 1, liquidity added one at a time, limits 0 and 1, funds 2, fees to 1, one activation | 668,304 | `HoldersGetOut` |
| `answers` | 1 page, 3 manifests, 3 signed files in 2 lists, 1 authorization, 3 blocks, 1 fork, 2 transactions, prices 3 and 4 | 1,471,833 | `StatusIsTheHooks`, `QuoteIsTheSettlement`, `CancelledStaysDead` |
| `console` | 2 pages, 3 identifiers, room for 2, lifetime 1 | 67,700 | `CapHolds`, `KeptUntilSigned`, `RoomAgain` |
| `console_single_use` | the same | depth 9 | `SingleUse`, violated |
| `safe` | 2 invocations of 11 kinds, each signer source, 2 owners, the Safe executes one transaction; symmetry of the invocations | 783,949 | `SubmittedIsAccepted`, `PostedIsOnFile` |
| `broadcast` | 5 plan files (mixed, edited, made elsewhere, not approved, pilot), every combination of signer options, at most 3 mishaps | 2,068,348 | `ManifestOnlyWhenDeployed`, `JournalIsTrue`, `SignersAgree`, `EndsWithManifest` |
| `lifecycle` | the whole script with one set-up transaction, delay 8, up to 2 transactions in a block, 2 mishaps when the journal has 1, 11, 15 or 21 steps (`Exposed`) | 1,371,341 | `OneTransactionPerStep`, `VerifiedAsAWhole`, `RefusedForWhatIsTested` |

Why the bounds are enough for the cases of interest:

* *Registry.* Four revisions let a root be accepted, replaced, proposed again and refused;
  three epochs let a user be banned, unbanned and banned again; a delay of two in five
  ticks lets a proposal be overwritten half way and mature later.
* *Grants.* Three revisions are a configuration, a stop or retirement, and a new
  activation, so a grant can be stale in each way. Proofs expire before and after
  the TTL. A second user can only matter through shared evidence and nonces.
* *Matching.* With unit 16 and prices 2 to 5, conversions round at every batch size; the
  total 13 is the bound `MAX_AMOUNT` that larger batches exceed, and price 2 is
  outside the band.
* *Execution.* The six orders are a buy and three sells that match it alone or together, two
  of them on one nonce, one that expires earlier, a direct swap and one that nobody
  signed. Batches of two and three orders do settle.
* *Liquidity.* At price 0 a position is all of one token and at 1 all of the other, so limits
  that were met at signing fail at the call; two nonces leave one for the exit after the
  other was voided. Positions do not interact, so one user is enough.
* *Answers.* Three blocks and one fork put a new or replaced block between any two of a
  request's calls; one price is not that of the other's match.
* *Console.* Two pages against room for two reach the limit with a request of each waiting,
  and lifetime 1 lets a challenge age in between.
* *Safe.* Two invocations are what it takes to share a file or to find a nonce used; that
  any number behaves the same is a theorem.
* *Broadcast.* Three mishaps include any crash followed by another after resumption and a
  reorganisation or foreign nonce in between.
* *Lifecycle.* The exposed points are the wait for the timelock, the refused execution of the
  first negative case on its way into a block, the time before the second, in which
  authorizations age, and the end, from the exit through the verification. One mint stands
  for all set-up steps, which differ only in what they do to balances. Two transactions in a block put a
  foreign one ahead of the script's or behind it. Foreign uses are the issuer's revocation and
  ban of an institution, which the negative cases depend on, and a configuration.

`MaxTime`, `MaxRevision`, `MaxUserEpoch`, `MaxActivations`, `MaxBlocks`, `MaxForks`,
`MaxSent`, `MaxFees`, `MaxNonce`, `MaxWrong`, `MaxPerBlock`, `Exposed` and the sets of nonces,
deadlines and expiries only bound the instances. Deadlock is checked except in `matching`, where a batch
ends, in `safe`, where invocations return, in `answers`, whose bounds stop the chain and the
console may never start, and in `lifecycle`, which ends verified.

### What the runs show

* **Timelocks hold against every sequence of owner calls.** `ChangeWaitsForDelay`
  speaks of the proposal that is applied, not of some proposal: it stood,
  uncancelled, for the whole delay. `DroppedRootStaysDead` covers roots that were
  replaced under a configuration that did not use them.
* **Grants never revive.** `StaleGrantNeverEligible` and `EligibleAsSigned` combine
  revision, hash and user epoch; `EligibilityOnlyByActivation` says the same to the
  hook, as `Eligibility!Spec`: all that the registry, the issuer and time can do is
  take eligibility away.
* **Rounding errors cancel.** `HookBalanced` holds for each batch although every
  allocation is rounded; the mutant that rounds each order on its own breaks it.
* **Calls are atomic.** `CallsAreSettlements` is a refinement: seen through what is
  committed (`saved` during a call, the state between calls), the steps implement
  `Settlement!Spec`, in which fills happen at once, between orders signed, at their
  limits, and each nonce once.
* **Liquidity is never locked in.** `HoldersGetOut`: eligibility and feeds may be lost for
  ever at any moment, and the price may move under every signature.
* **Answers are of one block.** While the pinned block is part of the chain, status and
  quote agree with hook and settlement row by row, whatever was mined between the calls.
* **The console stays usable.** The limit holds although requests wait between the test and
  one another; a failed attempt never costs the challenge; a full map has room again.
* **Files do not lie.** A proposal marked submitted is with the service; a journal row is on
  the chain; a manifest follows a deployment; verified evidence stood as a whole, and a refusal
  in it that is the first transaction of its block refuses what it tests.
* **The submitter has no say.** The sort takes every list of a batch's orders to the same
  one, whatever was submitted, in a quote as in an execution.
* **No step twice.** The lifecycle sends one transaction per step through every stop.

Every property has a mutant, a change to one definition of the kind a slip in the
code would make, under which TLC finds it violated. They are the definitions
marked `Mutant:` or introduced by "As if".

### Fairness and liveness

No contract acts by itself: the specifications of the contracts alone have no fairness.
Where somebody or something does act, it is assumed to:

* `MixedLiquidity`: deadlines pass (`WF Expire`); a user who wants out goes on signing
  (`WF SignExit`) and sends what can still be executed. For the latter weak fairness is not enough,
  because prices disable a signed exit again and again: `SF (leaving /\ ModifyOwn)`
  says that a user who keeps trying eventually hits a price that meets the limits just signed.
  Nothing is assumed of eligibility, feeds and swaps.
* `ConsoleChallenges`: time passes (`WF Tick`), and a request that was read is registered
  or refused (`SF`, per page: the process runs every callback that is ready). Users are
  not assumed to sign anything.
* `DeploymentBroadcast`: the operator starts the broadcaster again until there is a
  manifest, with options it accepts; a started process goes on (`WF Step`); the network
  mines (`WF Mine`). A crash has no fairness. What obstructs a deployment for good
  (`Obstructed`) is part of the property, so that it says exactly when an operator has to look.

### Findings

`console_single_use`: `scripts/mixed/console-e2e.mjs:23` records "single-use signing
challenges". `/api/signed` looks the challenge up (`mixedConsole.ts:59`), awaits the node,
and only then deletes it, so two concurrent requests are both answered with a result. What
comes out is the same signed authorization twice, and its nonce is spent once.

### Observations

Noted on the way:

* `rootEpoch` moves with every revision and so always equals it.
* A CNF-only configuration may carry any `acceptedRoot`; it is not validated, and is
  retired when replaced like any other.
* The second `_validate` in `activate` never refuses a proposal: this is
  `PendingStaysValid`, and a theorem.
* A grant activation does not name the user's epoch. One that was signed before a
  ban can be submitted after the unban if neither the policy has changed nor the
  deadline passed; it is a new activation, and counts as such.
* *Safe.* Two proposals at one nonce share the default file and the later overwrites the
  earlier silently. Owners, threshold and nonce may be of different blocks. A missing service
  or sender is found only after the file was written. Hence the conditions of `PostedIsOnFile`.
* *Broadcasters.* A crash between sending (`broadcast-deployment.mjs:43`) and the journal
  (`:47`) fails closed: the next run finds a nonce it did not expect. So does a torn
  journal. The mixed broadcaster accepts a preconfirmed receipt with the zero block hash and
  then refuses to resume from it, while the pilot's waits, and reconciles.
  `RUNBOOK.md:45` describes resumption; `Obstructed` lists when it needs a person.
* *Console over the chain.* Snapshots are pinned by number, not by hash, so a fork within a
  request mixes two chains; the properties speak of snapshots that are still on the chain.
* *Lifecycle.* `EVIDENCE_V2.md:33` says that the comparison of checkpoints rejects unrelated
  changes to the observed state. For a refused execution the verification compares balances,
  pool, position and nonces before and after, and of the transaction only that its block follows
  the one before (`evidence-v2.mjs:76`, "Isolated transaction block required"). A change of policy
  or eligibility in the same block, ahead of the execution, is in neither comparison: the
  evidence verifies, and the refusal need not show what it is recorded for. Without its condition
  on executions that are the first of their blocks, TLC finds `RefusedForWhatIsTested` violated
  by a single foreign transaction.
* The checkpoint is read again by number at the end. A foreign use of a nonce that was
  already signed blocks the journal for ever, which fails closed.

## Proofs

Each theorem is for all values of the constants that satisfy the named assumptions: any
sets of users, roots, issuers and configurations, any delay; any batch, unit and price; any
plan and any number of blocks, forks, pages, invocations, runs or mishaps. 50 theorems in 8
modules, on 321 lemmas. Every invariant and action property of the runs and both refinements
are among them; what is left to TLC alone is liveness.

Two techniques recur. An invariant that speaks of *reads of a chain that forks* says what
was read under the condition that the block it was read from still stands, and that a block
which is gone does not come back, so the condition can only become false. And a fact on
*lists or sums of any length* is shown by taking the smallest place, or the smallest
set, at which it fails (`NatLessThanWellFounded` and `WFMin` of the library) and the step
that leads there.

**Registry** (first part of `MixedGrantManagerProofs`, from `RegistryAssumption`). The invariant
`RegistryInv` strengthens `RegistryTypeOK` with the properties themselves and with
the links between storage and history that they need: the pending slot and the
standing proposal hold the same configuration and `activateAfter` is `DELAY` after it
was made; a dropped root is retired; an unban time is at least `DELAY` after the last
ban; nothing is pending before the first configuration. It is needed because a proposal is
judged when it is made and applied later: `PendingStaysValid` is inductive only together
with the fact that each action that retires a root leaves the slot empty. The action
properties follow from the invariant in the state before the step.

| Theorem | Property |
|---|---|
| `RegistryInvariant` | `RegistrySpec => []RegistryInv` |
| `RegistryTypeCorrect`, `HashCorrect`, `RootRetirement`, `PendingActivatable` | `RegistryTypeOK`, `HashIsCurrent`, `DroppedRootStaysDead`, `PendingStaysValid` |
| `PolicyTimelock`, `UnbanTimelock` | `ChangeWaitsForDelay`, `UnbanWaitsForDelay` |

**Grants** (second part of `MixedGrantManagerProofs`, from `RegistryAssumption` and
`GrantAssumption`). `GrantInv` adds to `RegistryInv`: nothing is enabled before it is
configured; issuers' records are well formed; a nonce counts as often as it was accepted; a
grant is no newer than policy and user epoch, and *older* than one of them unless its
user is fresh (`GrantAge`); a grant of the revision in force rests on evidence the policy asks for
and ends with it (`GrantRests`). Stale grants need the first, because `fresh` forgets a user
at each change and the only trace left in the grant is a number that is too small; bounded
eligibility needs the second, because the proof is not read again. Two facts of the registry
carry it: every change of policy is the next revision (`PolicyMoves`), every ban and unban
the next epoch (`EpochsMove`). The refinement maps `eligible` to `Eligible`: steps of the
registry, of time and of issuers cannot add a wallet (`RegistryLapses`, `IssuerLapses`; the
latter because a credential on record is unchanged or revoked, `RecordsStand`), and an
activation adds its own and no other (`ActivationAdmits`).

| Theorem | Property |
|---|---|
| `GrantInvariant` | `Spec => []GrantInv` |
| `StaleGrants`, `SignedPolicy`, `BoundedEligibility`, `NoncesSpentOnce` | `StaleGrantNeverEligible`, `EligibleAsSigned`, `EligibilityIsBounded`, `NonceSpentOnce` |
| `PromiseKept` | `EligibilityOnlyByActivation`, the refinement of `Eligibility` |

**Matching** (`MatchingMathProofs`, from `MathAssumption` and `BatchAssumption`).
Lemmas on division rounding down (`DivBounds`, `DivStep`, `MulDivStep`,
`MulDivWhole`) give what one allocation may be. The invariant `BatchInv` says that
what was drawn from a side so far is the share of its first `before` units, that
`before` is the sum the first loop had reached at the same order (which is what
`running` records), and that the budget is that of the totals. At the end `before`
is the total, whose share is the whole match, so the hook is square.
`AllocInv` adds what was appended to `allocations`. The reference price and the
maximality of the match follow from the budget alone. Proportionality is a statement
about each allocation when it is made: a difference of two quotients is within a unit of the
quotient of the difference (`MulDivProportional`), on both of a side's sums
(`AllocateProportional`).

| Theorem | Property |
|---|---|
| `BatchInvariant` | `Spec => []BatchInv` |
| `MatchConserves` | `HookBalanced` |
| `AllocationBounds`, `BatchTypeCorrect` | `AllocationsWithinOrders`, `TypeOK` |
| `ProportionalShares` | `SharesAreProportional` |
| `ReferencePrice`, `MatchIsMaximal` | `CrossesAtReferencePrice`, `OnlyDustIsLeft` |

**Execution** (`MixedExecutionProofs`, from `ExecutionAssumption` and `MathAssumption`), in
three layers, each with the ones before it as hypotheses.

* `CallInv`: the hook holds a context from open to close only; what an abort restores is a
  state with a clear hook and a price in the band. The latter part is what makes it inductive:
  an abort goes back to `saved`, of which the properties say nothing.
* `AccountsInv`: the request is a submission, sorted; what the pool manager has on account for
  the router and for the hook is a sum over the orders done so far (`Drawn`), phase by
  phase; and the allocations of `openBatch` are `Balanced`: what they take of one side is what
  they give on the other. The last is the argument of `BatchInv` once more, for the sequence that
  `AllocationsOf` is; the lemmas on division it starts from are restated here, because
  `MatchingMathProofs` is about a machine with variables of its own. That a sum over a finite
  set is what the fold computes, and grows by the value of a member added, is
  `SmallestSubset` and `SumWithout`. That the request is sorted is by the passes of the sort:
  after each, the orders so far are the same and ascend (`InsertIs`, `SortedIs`). A
  list of different orders that ascends is the only one of its set (`OneAscendingList`), so the
  submitter has no say.
* `SettlementInv`: `LedgerInv`, every fill has its authorization spent, in the state that is
  saved too; `AuthorizedInv`, the opening spends each order's nonce once, of signed orders
  of eligible users; `WalletInv`, a wallet is the saved one less what its orders were funded
  with and plus what they were paid so far; `FillsInv`, there is one fill for each order
  swapped, within its limits, and the reserve is the saved one moved by their residuals. It is
  what relates the middle of a call to its beginning, which the abstract step compares
  with its end.

The refinement maps a successful `Return` to `Settlement!Settle`, what happens between calls to
a cancelled nonce or a change of eligibility, and every other step, an abort and a quote
included, to a stutter. The abstract settlement sums over the *set* of its fills, the
invariant over *places* of the request: nonces differ, so fills do, and `SumOfImage` and
`CountedAs` turn one into the other.

| Theorem | Property |
|---|---|
| `CallInvariant` | `Spec => []CallInv` |
| `CallsAreSeparate`, `PriceInBand` | `NothingOutlivesACall`, `PriceStaysInBand` |
| `AccountsInvariant` | `Spec => [](CallInv /\ AccountsInv)` |
| `AccountsAreSquare`, `SubmittersHaveNoSay` | `AccountsSquare`, `SubmitterHasNoSay` |
| `SettlementInvariant` | `Spec => [](CallInv /\ AccountsInv /\ SettlementInv)` |
| `CallsSettle` | `CallsAreSettlements`, the refinement of `Settlement` |

**Console over the chain** (`MixedConsoleProofs`, from `ConsoleAssumption`). `ConsoleInv`: a hash
is not used again at its number, what is spent stays spent in the blocks after, and a
transaction that succeeded found unspent what it uses (`ChainOK`); every page's request, as
long as the block it pins is the one it saw (`Intact`), has read what is so of that block, up
to and including the answer (`PageOK`, `ReadSoFar`); and a transaction spends a nonce with
the one contract that keeps it (`Proper`), without which a cancellation could succeed
beside the use it cancels. For the quote, what the SDK computes from its own sums is the
hook's allocation, row by row, because both sort alike.

| Theorem | Property |
|---|---|
| `ConsoleInvariant` | `Spec => []ConsoleInv` |
| `StatusesAreRight`, `QuotesAreRight` | `StatusIsTheHooks`, `QuoteIsTheSettlement` |
| `CancelledIsDead` | `CancelledStaysDead` |

**Console challenges** (`ConsoleChallengesProofs`, from its `ConsoleAssumption`, with the library's
facts on cardinality). `CapInv` adds that the map is finite. `CapInvariant`, `Cap`
(`CapHolds`), `Kept` (`KeptUntilSigned`).

**Safe proposals** (`SafeProposalsProofs`, from `SafeAssumption`). `SubmissionInv` adds to the
property what every invocation believes: once the service accepted, the transaction it would
write is the one accepted, because owners, threshold and nonce are read no more. The service
forgets nothing, so steps of others keep it. `FileInv` says what an invocation that has its
path to itself has left there at each of its steps (`Left`); who has a path to itself after a
step of another had it before, and that other wrote elsewhere (`OneSettles`).

| Theorem | Property |
|---|---|
| `SubmissionInvariant`, `SubmittedFilesAreRight` | `Spec => []SubmissionInv`, `SubmittedIsAccepted` |
| `FilesInvariant`, `PostedProposalsAreOnFile` | `Spec => []FileInv`, `PostedIsOnFile` |

**Broadcasters** (`DeploymentBroadcastProofs`, from `BroadcastAssumption`). An accepted plan
has consecutive nonces (`PlansAreConsecutive`), which is why one transaction count, compared
before sending, speaks for all that are left. `BroadcastInv`: journal, run and manifest list
the first transactions of the plan in order (`InOrder`); what the run compared or wrote was
mined as it says unless this run saw a reorganisation or a foreign nonce; and a
transaction that is waited for is the only one that can be mined at its nonce (`Takes`). A
manifest remembers how many reorganisations there were when it was written, so that
what it says is conditioned on those after it.

| Theorem | Property |
|---|---|
| `PlansAreConsecutive`, `BroadcastInvariant` | what `DeploymentPlan` accepts; `Spec => []BroadcastInv` |
| `JournalIsRight`, `ManifestIsRight` | `JournalIsTrue`, `ManifestOnlyWhenDeployed` |
| `SignersAreOne` | `SignersAgree` |

**Lifecycle** (`PilotLifecycleProofs`, from `LifecycleAssumption`). `JournalInv`: what was
broadcast is what the journal has for its step, and a run that broadcasts or waits is at a
step of the journal. It is needed because the property compares two broadcasts of two runs,
and only the journal connects them. `VerificationInv` adds that hashes of blocks are not
used again and that each has the contracts' state behind it (`ChainInv`), and that what the
verification has read so far holds as long as the checkpoint it read it under stands
(`ReadingInv`): at the end all checkpoints stand at once, so they and the rows stood
together when the last was read. `EntriesInv` says that a run which passed a place of the
script has cached what it signs there once, and that times and deadlines are numbers: a
refusal is then judged by an authorization that exists and had not expired. What it met is
the state of the checkpoint before, if it is the first of its block (`FirstMeets`).

| Theorem | Property |
|---|---|
| `JournalInvariant`, `OneTransaction` | `Spec => []JournalInv`, `OneTransactionPerStep` |
| `VerificationInvariant`, `VerifiedWhole` | `Spec => []VerificationInv`, `VerifiedAsAWhole` |
| `EntriesInvariant`, `RefusedForTheTestedFact` | `Spec => []EntriesInv`, `RefusedForWhatIsTested` |

**Only model-checked**: liveness under fairness (`HoldersGetOut`, `RoomAgain`,
`EndsWithManifest`), which needs `ENABLED` and is out of the prover's reach. The first is all
that is checked of `MixedLiquidity`, so no theorem is about that module. The models have no
recursive operators, of which nothing could be proved.

## Not modelled

* Integer width: amounts are bounded by `MAX_AMOUNT` before any arithmetic and
  `FullMath.mulDiv` is exact in 512 bits; revisions and epochs are 64-bit counters
  that no owner exhausts.
* Cryptography: signatures, hashes, Groth16, key derivation; the circuits.
* `bindHook`, hook address mining, the hook factory and the verifier adapter: stateless, or
  done once at deployment. Ownership transfer is OpenZeppelin's.
* The oracle's feeds (`ChainlinkStablecoinOracleGuard.sol:138`): which readings are current is
  comparisons of a reading with thresholds; here a reading either is good or aborts the call.
* `CNFIssuer` (`:208`, `:372`): not part of a Mixed deployment, which asks `PilotCNFIssuer`;
  its delayed changes follow the registry's pattern. A root that returns and a renewal that
  resets `revoked` are hazards listed without a property for that reason.
* `lifecycle-zk.mjs`, which follows the journal discipline of `lifecycle-v2.mjs` with ZK
  grants; `local-pilot.mjs`, `local-e2e.mjs` and the release scripts, which run once, in
  sequence, against a local node or over files.
* Preflight reads of `prepare-base-sepolia.mjs`, the fields of manifests, token balances,
  events and the oracle probe in the evidence.
* The command line's parsing and formatting, the Merkle tree of `mixedIssuer.ts`, static
  pages, token approvals and sessions of the console, pilot assets, evidence and release data.

## Left to do

The modules were built in this order: registry, grants, matching, execution, then the
programs, then liquidity. What would come next:

1. `CNFIssuer` beside the registry: the life of a credential over two sources of evidence.
2. `MixedExecution` fed by `MixedGrantManager` instead of `Eligibility`. The proof of
   `PromiseKept` is what justifies the abstraction meanwhile.
3. Readings of the oracle guard as functions of time and answers.
4. A safety property of `MixedLiquidity` beside its liveness, and its proof.

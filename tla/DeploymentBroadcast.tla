------------------------ MODULE DeploymentBroadcast ------------------------
(***************************************************************************)
(* The two deployment broadcasters, mixed/broadcast-deployment.mjs and     *)
(* pilot/broadcast-base-sepolia.mjs with pilot/journal.mjs: each sends a   *)
(* reviewed plan, one transaction after the other, and writes a journal    *)
(* after every receipt, from which a later run goes on.  The run may be    *)
(* killed at any step, and every await may reject.                         *)
(*                                                                         *)
(* External: the chain, seen from the deployer's account.  chain[k + 1] is *)
(* the transaction mined at nonce k; a pending transaction may be seen     *)
(* with the zero block hash before it is mined (a preconfirmation), the    *)
(* last block may be reorganised away, and somebody else may use or        *)
(* replace a nonce of the deployer.  As viem does, waiting for a replaced  *)
(* transaction yields the receipt of the one that took its nonce.          *)
(***************************************************************************)
EXTENDS DeploymentPlan, ExecutionSigner

CONSTANTS
    Reviewed,       \* name |-> plan file: [script, config, dependencies, transactions]
    Invocations,    \* how a run may be started: [options, at, rpc]
    Checkout,       \* the checkout: [revision, digest, dirty]
    StartNonce,     \* nonce of the deployer when the plans were prepared
    MaxWrong        \* bounds how often anything goes wrong, of all kinds together

VARIABLES
    plan,       \* name of the plan file, the same in every run
    chain, pending, blocks,    \* mined, in the mempool, last block used
    journal, manifest,         \* the two files
    run,        \* the process
    signer,     \* what the run that starts was given: [clients, forge]
    wrong       \* what went wrong so far: counters and whether this run saw it

vars == <<plan, chain, pending, blocks, journal, manifest, run, signer, wrong>>
files == <<journal, manifest>>
ledger == <<chain, pending, blocks>>

ASSUME BroadcastAssumption == {StartNonce, MaxWrong} \subseteq Nat

PlanFile == Reviewed
Plan == PlanFile[plan]
Mixed == Plan.script = "mixed"

\* A transaction of the plan is its index in it; 0 is anybody else's.
Foreign == 0
Zero == 0                       \* the block hash of a preconfirmation

Absent == [kind |-> "absent"]
Torn == [kind |-> "torn"]
Journal(rows) == [kind |-> "journal", rows |-> rows]

Unsigned == [clients |-> NoSigner, forge |-> NoSigner]

Off == [pc |-> "off", rows |-> <<>>]
At(pc) == run.pc = pc
Goto(pc) == run' = [run EXCEPT !.pc = pc]
Running == run.pc # "off"

Stop == run' = Off

Tx(i) == Plan.transactions[i]
Count == Len(Plan.transactions)
FirstNonce == Tx(1).nonce

NothingWrong == [foreign |-> 0, reorgs |-> 0, reverts |-> 0, crashes |-> 0, orphans |-> 0,
                 preconfirmed |-> 0, seen |-> FALSE]

MayGoWrong ==
    wrong.foreign + wrong.reorgs + wrong.reverts + wrong.crashes + wrong.orphans
        + wrong.preconfirmed < MaxWrong

\* getTransactionCount at the pending tag.
NextNonce == Len(chain) + Len(pending)

----------------------------------------------------------------------------
(* The chain.                                                              *)

MineBlock(tx, status) ==
    /\ chain' = Append(chain, [tx |-> tx, block |-> blocks + 1, status |-> status])
    /\ blocks' = blocks + 1
    /\ pending' = IF pending = <<>> THEN <<>> ELSE Tail(pending)

Mine == \E status \in {"success", "reverted"} :
    /\ pending # <<>>
    /\ status = "reverted" => MayGoWrong
    /\ MineBlock(Head(pending), status)
    /\ wrong' = IF status = "reverted" THEN [wrong EXCEPT !.reverts = @ + 1] ELSE wrong
    /\ UNCHANGED <<plan, files, run, signer>>

\* Takes the next nonce, which a pending transaction may be waiting for.
UseNonce ==
    /\ MayGoWrong
    /\ MineBlock(Foreign, "success")
    /\ wrong' = [wrong EXCEPT !.foreign = @ + 1, !.seen = TRUE]
    /\ UNCHANGED <<plan, files, run, signer>>

\* The last block goes; its transaction is in the mempool again, or lost.
Reorg == \E kept \in BOOLEAN :
    /\ MayGoWrong
    /\ Len(chain) > StartNonce /\ pending = <<>>
    /\ pending' = IF kept THEN << Last(chain).tx >> ELSE <<>>
    /\ chain' = Front(chain)
    /\ wrong' = [wrong EXCEPT !.reorgs = @ + 1, !.seen = TRUE]
    /\ UNCHANGED <<plan, blocks, files, run, signer>>

AnswerOf(mined) == [status |-> mined.status, block |-> mined.block]

\* What the endpoint answers for a transaction by its hash.
Receipts(tx) ==
    {AnswerOf(mined) : mined \in {m \in Range(chain) : m.tx = tx}}
    \cup (IF tx \in Range(pending) THEN {[status |-> "success", block |-> Zero]} ELSE {})

\* What waiting for it yields: also the receipt of what replaced it.
AwaitedReceipts(tx) ==
    Receipts(tx)
    \cup (IF Tx(tx).nonce < Len(chain) THEN {AnswerOf(chain[Tx(tx).nonce + 1])} ELSE {})

Canonical(receipt) == receipt.status = "success" /\ receipt.block # Zero

----------------------------------------------------------------------------
(* The start of a run: it gets its plan, its signer and its journal.       *)

Regenerated(p) ==
    IF p.script = "mixed" THEN PrepareDeployment(p.config)
    ELSE PreparePilotDeployment(p.config, p.dependencies)

\* A plan counts only if its own configuration stands for exactly it.
PlanAcceptable(p) ==
    /\ IF p.script = "mixed" THEN ValidDeploymentConfig(p.config) /\ SourceMatches(p.config, Checkout)
       ELSE ValidPilotPlan(p.config, p.dependencies)
    /\ Regenerated(p) = p.transactions

AcceptablePlans == {name \in DOMAIN PlanFile : PlanAcceptable(PlanFile[name])}

Network(p) ==
    IF p.script = "mixed"
    THEN [id |-> p.config.chainId, testnet |-> p.config.classification # "production"]
    ELSE [id |-> 84532, testnet |-> TRUE]
Deployer(p) == IF p.script = "mixed" THEN p.config.deployer ELSE p.config.roles.deployer

\* What an invocation comes to: the two signers, and whether the run goes on, which
\* takes the plan's deployer and the plan's chain.
Started(p, invocation) ==
    LET clients == CreateExecutionClients(ConfigureSignerOptions(invocation.options),
                                          invocation.at, Network(p), invocation.rpc, NoValue)
    IN  [clients |-> clients,
         forge |-> ForgeSignerForExternalProcess(invocation.options, invocation.at, Network(p),
                                                 invocation.rpc, NoValue),
         goesOn |-> /\ PlanAcceptable(p)
                    /\ clients.address = Deployer(p)
                    /\ invocation.rpc.chainId = Network(p).id]

Starts == [name \in DOMAIN PlanFile |-> {Started(PlanFile[name], i) : i \in Invocations}]

\* A start that is refused leaves everything as it was: it is explored only while
\* nothing has gone wrong.
Start == \E started \in Starts[plan] :
    /\ ~Running
    /\ started.goesOn \/ wrong = NothingWrong \/ plan \notin AcceptablePlans
    /\ signer' = [clients |-> started.clients, forge |-> started.forge]
    /\ run' = IF started.goesOn THEN [Off EXCEPT !.pc = "reading"] ELSE Off
    /\ wrong' = [wrong EXCEPT !.seen = FALSE]
    /\ UNCHANGED <<plan, ledger, files>>

\* As if a later run did not know of the first.
ForgetJournal ==
    /\ At("reading")
    /\ IF journal = Torn THEN Stop ELSE Goto("reconciling")
    /\ signer' = Unsigned
    /\ UNCHANGED <<plan, ledger, files, wrong>>

\* A file that is not whole is not JSON: the run ends there, and so do all later ones.
ReadJournal ==
    /\ At("reading")
    /\ CASE journal = Absent -> run' = [run EXCEPT !.pc = "reconciling"]
         [] journal = Torn -> Stop
         [] OTHER -> run' = [run EXCEPT !.pc = "reconciling", !.rows = journal.rows]
    /\ signer' = Unsigned
    /\ UNCHANGED <<plan, ledger, files, wrong>>

RowStands(row) == \E receipt \in Receipts(row.tx) :
    receipt.status = "success" /\ receipt.block = row.block

\* journal.mjs: the row of a preconfirmation gets its block, any other keeps it.
RowReconciles(row, receipt) ==
    Canonical(receipt) /\ row.block \in {Zero, receipt.block}

Reconciled(row) ==
    LET receipt == CHOOSE receipt \in Receipts(row.tx) : RowReconciles(row, receipt)
    IN  [row EXCEPT !.block = receipt.block]

\* As if the journal were believed.
BelieveRows ==
    /\ At("reconciling") /\ Mixed
    /\ Goto("counting")
    /\ UNCHANGED <<plan, ledger, files, signer, wrong>>

\* The mixed broadcaster compares every row with the chain as it is.
CheckRows ==
    /\ At("reconciling") /\ Mixed
    /\ IF \A i \in DOMAIN run.rows : RowStands(run.rows[i])
       THEN Goto("counting") ELSE Stop
    /\ UNCHANGED <<plan, ledger, files, signer, wrong>>

\* The pilot's waits for canonical receipts and writes the journal anew.
ReconcileRows ==
    /\ At("reconciling") /\ ~Mixed
    /\ IF \A i \in DOMAIN run.rows : \E receipt \in Receipts(run.rows[i].tx) :
             RowReconciles(run.rows[i], receipt)
       THEN /\ run' = [run EXCEPT !.rows = [i \in DOMAIN run.rows |-> Reconciled(run.rows[i])],
                                  !.pc = "rewriting"]
            /\ journal' = Torn
       ELSE Stop /\ UNCHANGED journal
    /\ UNCHANGED <<plan, ledger, manifest, signer, wrong>>

RewriteJournal ==
    /\ At("rewriting")
    /\ journal' = Journal(run.rows)
    /\ Goto("counting")
    /\ UNCHANGED <<plan, ledger, manifest, signer, wrong>>

CheckNonce ==
    /\ At("counting")
    /\ IF NextNonce = FirstNonce + Len(run.rows) THEN Goto("sending") ELSE Stop
    /\ UNCHANGED <<plan, ledger, files, signer, wrong>>

----------------------------------------------------------------------------
(* One transaction after the other.                                        *)

NextTx == Len(run.rows) + 1

\* The node takes a transaction only at the next free nonce; the answer may be lost.
Send == \E answered \in BOOLEAN :
    /\ At("sending") /\ Len(run.rows) < Count
    /\ IF NextNonce = Tx(NextTx).nonce
       THEN /\ pending' = Append(pending, NextTx)
            /\ run' = IF answered THEN [run EXCEPT !.pc = "waiting"] ELSE Off
            /\ wrong' = IF answered THEN wrong ELSE [wrong EXCEPT !.orphans = @ + 1]
            /\ answered \/ MayGoWrong
       ELSE Stop /\ UNCHANGED <<pending, wrong>>
    /\ UNCHANGED <<plan, chain, blocks, files, signer>>

\* A creation that was replaced yields no contract at the expected address.
AtExpectedAddress(tx) ==
    \/ Tx(tx).expectedAddress = <<>>
    \/ tx \in Range(pending)
    \/ chain[Tx(tx).nonce + 1].tx = tx

Row(tx, receipt) == [tx |-> tx, block |-> receipt.block]

\* As if the status were not looked at.
AnyReceipt(receipt) == TRUE

\* The mixed broadcaster takes any receipt of success; the pilot's goes on waiting
\* until it has a block.
Acceptable(receipt) == receipt.status = "success" /\ (Mixed \/ receipt.block # Zero)

Settled(receipt) == Mixed \/ receipt.status = "reverted" \/ receipt.block # Zero

AwaitReceipt ==
    /\ At("waiting")
    /\ \E receipt \in AwaitedReceipts(NextTx) :
       /\ Settled(receipt)
       /\ receipt.block = Zero => MayGoWrong
       /\ wrong' = IF receipt.block = Zero THEN [wrong EXCEPT !.preconfirmed = @ + 1] ELSE wrong
       /\ IF Acceptable(receipt) /\ AtExpectedAddress(NextTx)
          THEN run' = [run EXCEPT !.rows = Append(@, Row(NextTx, receipt)), !.pc = "recording"]
          ELSE Stop
    /\ UNCHANGED <<plan, ledger, files, signer>>

\* The transaction is neither mined nor in the mempool any more: the wait times out.
TimeOut ==
    /\ At("waiting") /\ AwaitedReceipts(NextTx) = {}
    /\ wrong' = [wrong EXCEPT !.orphans = @ + 1]
    /\ Stop
    /\ UNCHANGED <<plan, ledger, files, signer>>

\* writeFileSync: truncated, then filled.
OpenJournal ==
    /\ At("recording")
    /\ journal' = Torn
    /\ Goto("filling")
    /\ UNCHANGED <<plan, ledger, manifest, signer, wrong>>

FillJournal ==
    /\ At("filling")
    /\ journal' = Journal(run.rows)
    /\ Goto("sending")
    /\ UNCHANGED <<plan, ledger, manifest, signer, wrong>>

----------------------------------------------------------------------------
(* The manifest.                                                           *)

Succeeded(tx) == \E k \in DOMAIN chain : chain[k].tx = tx /\ chain[k].status = "success"

\* Code is looked for at predicted addresses: that of the hook, which the factory creates,
\* and those of the creations.  The pilot leaves out its own assets and issuer, and what
\* the mixed script takes for infrastructure.
Unchecked ==
    IF Mixed THEN {} ELSE {"PilotAsset A", "PilotAsset B", "PilotCNFIssuer",
                           "ChainlinkStablecoinOracleGuard", "MixedHookFactory"}

WithCode == {i \in 1..Count :
    /\ Tx(i).expectedAddress # <<>> \/ Tx(i).label = "deploy hook"
    /\ Tx(i).label \notin Unchecked}

OpenManifest ==
    /\ At("sending") /\ Len(run.rows) = Count
    /\ IF \A tx \in WithCode : Succeeded(tx)
       THEN manifest' = Torn /\ Goto("publishing")
       ELSE Stop /\ UNCHANGED manifest
    /\ UNCHANGED <<plan, ledger, journal, signer, wrong>>

FillManifest ==
    /\ At("publishing")
    /\ manifest' = [kind |-> "manifest", rows |-> run.rows, seen |-> wrong.seen,
                   reorgs |-> wrong.reorgs]
    /\ Stop
    /\ UNCHANGED <<plan, ledger, journal, signer, wrong>>

\* Killed, an await that rejects, or a wait that times out.
Crash ==
    /\ Running /\ MayGoWrong
    /\ wrong' = IF At("waiting") \/ At("recording") THEN [wrong EXCEPT !.orphans = @ + 1]
                ELSE [wrong EXCEPT !.crashes = @ + 1]
    /\ Stop
    /\ UNCHANGED <<plan, ledger, files, signer>>

----------------------------------------------------------------------------

Init ==
    /\ plan \in DOMAIN Reviewed
    /\ chain = [k \in 1..StartNonce |-> [tx |-> Foreign, block |-> 0, status |-> "success"]]
    /\ pending = <<>> /\ blocks = 0
    /\ journal = Absent /\ manifest = Absent
    /\ run = Off
    /\ signer = Unsigned
    /\ wrong = NothingWrong

Outside == Mine \/ UseNonce \/ Reorg

Step == \/ ReadJournal \/ CheckRows \/ ReconcileRows \/ RewriteJournal \/ CheckNonce \/ Send
        \/ AwaitReceipt \/ TimeOut \/ OpenJournal \/ FillJournal \/ OpenManifest \/ FillManifest

Next == Start \/ Step \/ Crash \/ Outside

\* The operator starts it again until there is a manifest, a started process goes on,
\* and the network mines.
Fairness ==
    /\ WF_vars(Start /\ manifest.kind # "manifest" /\ run'.pc = "reading")
    /\ WF_vars(Step)
    /\ WF_vars(Mine)

Spec == Init /\ [][Next]_vars /\ Fairness

----------------------------------------------------------------------------
(* Properties.                                                             *)

\* A manifest lists a deployment that took place, every transaction of the plan at its
\* nonce and none of them reverted, unless the run that wrote it saw a block reorganised or
\* a nonce taken, or the block went afterwards.  The mixed broadcaster also lists what it
\* knows from a preconfirmation (broadcast-deployment.mjs:33-54).
ManifestOnlyWhenDeployed ==
    manifest.kind = "manifest" /\ ~manifest.seen /\ manifest.reorgs = wrong.reorgs =>
        \A i \in 1..Count :
            \/ Succeeded(i)
            \/ Mixed /\ manifest.rows[i].block = Zero

\* The journal is never ahead of the chain and never has a gap: while no block was
\* reorganised and no nonce taken, its rows are the first transactions of the plan, each of
\* them mined with success in the block the row names, or named before it had one; the
\* pilot's names no transaction before it has a block (broadcast-deployment.mjs:43-47,
\* broadcast-base-sepolia.mjs:22-29).
JournalIsTrue ==
    journal.kind = "journal" =>
        /\ \A i \in DOMAIN journal.rows : journal.rows[i].tx = i
        /\ wrong.reorgs = 0 /\ wrong.foreign = 0 =>
             \A i \in DOMAIN journal.rows :
                \/ RowStands(journal.rows[i])
                \/ Mixed /\ journal.rows[i].block = Zero

\* Whatever source is selected, the signer that signs here and the one handed to a forge
\* process are the same account if both are accepted, and a source the first refuses is
\* accepted by the second only if it is a keystore, which the second does not open
\* (signer.ts:207-213, :297-320).
SignersAgree ==
    signer.forge # NoSigner =>
        \/ signer.clients = signer.forge
        \/ signer.clients = NoSigner /\ signer.forge.kind = "keystore"

\* What an operator has to look at before a deployment can be finished.
Obstructed ==
    \/ plan \notin AcceptablePlans
    \/ wrong.foreign > 0 \/ wrong.reorgs > 0 \/ wrong.reverts > 0 \/ wrong.orphans > 0
    \/ journal = Torn
    \/ journal.kind = "journal" /\ \E i \in DOMAIN journal.rows : journal.rows[i].block = Zero

\* A deployment that is started again whenever it stopped ends with a manifest, however
\* often it was killed between two transactions; the exceptions are a nonce or a block that
\* was lost, a transaction that reverted, one that was sent and not written to the journal,
\* a preconfirmation in it, and a journal that was being written when the process was
\* killed (RUNBOOK.md:45).
EndsWithManifest == []<>~Obstructed => <>(manifest.kind = "manifest")
=============================================================================

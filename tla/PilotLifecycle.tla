--------------------------- MODULE PilotLifecycle ---------------------------
(***************************************************************************)
(* The issuer pilot's resumable rehearsal, scripts/pilot/lifecycle-v2.mjs,  *)
(* and the verification of its evidence, scripts/pilot/evidence-v2.mjs.     *)
(*                                                                         *)
(* A run walks through a script of transactions from its start.  What it   *)
(* signed is in the journal, which is replaced as a whole; a later run      *)
(* finds it there.  Meanwhile accounts are used elsewhere, transactions are *)
(* lost, blocks are replaced, and time passes.  A tick is 900 seconds.      *)
(* Blocks without a transaction of the pilot's accounts, or of whoever      *)
(* else changes the state behind them, are left out.                        *)
(***************************************************************************)
EXTENDS Integers, Sequences, FiniteSets, SequencesExt, Functions

CONSTANTS
    Setup,          \* the mints and approvals, as steps that change nothing here
    Foreign,        \* what the pilot's accounts may be used for elsewhere
    Delay,          \* the registry's 48 hours
    MaxWrong,       \* bound: how often something goes wrong
    Exposed,        \* bound: and while how many steps are in the journal
    MaxPerBlock     \* bound: transactions in a block

ASSUME LifecycleAssumption ==
    /\ Delay \in Nat \ {0}
    /\ MaxWrong \in Nat
    /\ Exposed \subseteq Nat
    /\ MaxPerBlock \in Nat \ {0}
    /\ Setup \in Seq([ do : {"send"}, label : STRING, role : STRING,
                      kind : {"mint", "approve"}, who : STRING ])

Institutions == {"institutionA", "institutionB"}
Users == Institutions \cup {"liquidityProvider"}

\* 1800 seconds: the deadline of all that is signed, and the TTL after the change.
Window == 2
InitialTTL == 4

VARIABLES
    chain,          \* the blocks, each with the contracts' state behind it
    building,       \* the next block, before anybody sees it
    blocks,         \* how many were ever produced: the last block's hash
    mempool,        \* the transactions nodes know of
    clock,          \* the time of the next block
    journal,        \* the file: signed steps and cached authorizations
    run,            \* the running script, or off
    wrong,          \* how often something went wrong
    broadcast,      \* history: every transaction given to a node
    stood           \* history: the evidence was on the chain when the recheck began

ledger == <<chain, building, blocks, mempool, clock>>
vars == <<ledger, journal, run, wrong, broadcast, stood>>

----------------------------------------------------------------------------
(* The script.                                                             *)

Step(do, label, role, kind, who) ==
    [do |-> do, label |-> label, role |-> role, kind |-> kind, who |-> who]
Send(label, role, kind, who) == Step("send", label, role, kind, who)
Once(key, kind, who) == Step("once", key, "none", kind, who)

Granting(label, user) == << Once(label, "grant", user), Send(label, user, "grant", user) >>

Grants(label) ==
    Granting(label \o "-liquidityProvider", "liquidityProvider")
    \o Granting(label \o "-institutionA", "institutionA")
    \o Granting(label \o "-institutionB", "institutionB")

Lp(name) ==
    << Once(name, "lp", "liquidityProvider"),
       Send(name, "liquidityProvider", name, "liquidityProvider") >>

Quote(name) == Once(name, "case", "none")
Execute(name) == Send(name, "executor", "execute", "none")

Script ==
    << Send("proposePolicyChange", "issuer", "configure", "none"),
       Step("timelock", "timelock", "none", "none", "none"),
       Send("issueliquidityProvider", "issuer", "issue", "liquidityProvider"),
       Send("issueinstitutionA", "issuer", "issue", "institutionA"),
       Send("issueinstitutionB", "issuer", "issue", "institutionB") >>
    \o Setup \o Grants("initialGrant") \o Lp("add")
    \o << Quote("revision"), Send("activatePolicyChange", "issuer", "activate", "none"),
          Execute("revision") >>
    \o Grants("updatedGrant")
    \o << Quote("execution"), Execute("execution"),
          Quote("revocation"), Send("revokeInstitutionA", "issuer", "revoke", "institutionA"),
          Execute("revocation"),
          Send("revokeLp", "issuer", "revoke", "liquidityProvider"),
          Send("disablePolicy", "issuer", "disable", "none") >>
    \o Lp("collect") \o Lp("exit")

Expected(label) == label \notin {"revision", "revocation"}

----------------------------------------------------------------------------
(* The contracts, as far as the script and its evidence look at them.      *)

Deployed ==
    [revision |-> 1, ttl |-> InitialTTL, enabled |-> TRUE, activateAfter |-> 0, ours |-> FALSE,
     valid |-> {}, banned |-> {}, spent |-> {},
     grants |-> [u \in Users |-> [revision |-> 0, expires |-> 0]]]

NotSigned == [revision |-> 0, deadline |-> 0, number |-> 0, id |-> 0, time |-> 0]

Eligible(w, user, revision, time) ==
    /\ w.enabled /\ w.revision = revision
    /\ user \in w.valid \ w.banned
    /\ w.grants[user].revision = revision /\ w.grants[user].expires > time

\* A batch of both institutions, on their nonces for this case.
Accepts(w, name, signed, time) ==
    /\ time <= signed.deadline
    /\ name \notin w.spent
    /\ \A user \in Institutions : Eligible(w, user, signed.revision, time)

Allowed(w, tx, time) ==
    CASE tx.kind = "activate" -> w.activateAfter # 0 /\ time >= w.activateAfter
      [] tx.kind = "grant" ->
           /\ w.enabled /\ tx.signed.revision = w.revision /\ time <= tx.signed.deadline
           /\ tx.who \in w.valid \ w.banned
      [] tx.kind = "add" ->
           time <= tx.signed.deadline /\ Eligible(w, tx.who, tx.signed.revision, time)
      [] tx.kind \in {"collect", "exit"} -> time <= tx.signed.deadline
      [] tx.kind = "execute" -> Accepts(w, tx.label, tx.signed, time)
      [] OTHER -> TRUE

After(w, tx, time) ==
    CASE tx.kind = "configure" ->
           [w EXCEPT !.activateAfter = time + Delay, !.ours = tx.label # "foreign"]
      [] tx.kind = "activate" ->
           [w EXCEPT !.revision = @ + 1, !.activateAfter = 0,
                     !.ttl = IF w.ours THEN Window ELSE @]
      [] tx.kind = "issue" -> [w EXCEPT !.valid = @ \cup {tx.who}]
      [] tx.kind = "revoke" -> [w EXCEPT !.valid = @ \ {tx.who}]
      [] tx.kind = "ban" -> [w EXCEPT !.banned = @ \cup {tx.who}]
      [] tx.kind = "disable" ->
           [w EXCEPT !.enabled = FALSE, !.revision = @ + 1, !.activateAfter = 0]
      [] tx.kind = "grant" ->
           [w EXCEPT !.grants[tx.who] = [revision |-> w.revision, expires |-> time + w.ttl]]
      [] tx.kind = "execute" -> [w EXCEPT !.spent = @ \cup {tx.label}]
      [] OTHER -> w

----------------------------------------------------------------------------
(* The chain.                                                              *)

Now == Last(chain).world

Transaction(label, role, kind, who, nonce, signed) ==
    [label |-> label, role |-> role, kind |-> kind, who |-> who, nonce |-> nonce, signed |-> signed]

\* How many of a block's transactions are the account's, and how many of the chain's.
Sent(txs, role) == {j \in DOMAIN txs : txs[j].tx.role = role}
AccountNonce(role) ==
    Cardinality(UNION {{n} \X Sent(chain[n].txs, role) : n \in DOMAIN chain})

\* The account's next nonce to a node, which counts what it has not mined yet.
PendingNonce(role) ==
    LET mined == AccountNonce(role)
        waiting == {tx.nonce : tx \in {t \in mempool : t.role = role}}
    IN  Min({n \in mined..(mined + Cardinality(waiting)) : n \notin waiting})

Receipts(n) == Range(chain[n].txs)
Mined(tx) == \E n \in DOMAIN chain : \E r \in Receipts(n) : r.tx = tx

Nothing == [txs |-> <<>>, world |-> Deployed]

\* The contracts' state behind what the next block has so far.
Here == IF building = Nothing THEN Now ELSE building.world

\* A transaction on its account's next nonce is the next of the block.
Include(tx) ==
    LET ok == Allowed(Here, tx, clock)
    IN  /\ Len(building.txs) < MaxPerBlock
        /\ tx.nonce = AccountNonce(tx.role) + Cardinality(Sent(building.txs, tx.role))
        /\ building' = [txs |-> Append(building.txs, [tx |-> tx, ok |-> ok]),
                        world |-> IF ok THEN After(Here, tx, clock) ELSE Here]
        /\ UNCHANGED <<chain, blocks, mempool, clock>>

GoesWrong ==
    /\ wrong < MaxWrong /\ Cardinality(DOMAIN journal.steps) \in Exposed
    /\ wrong' = wrong + 1

Mine ==
    /\ \E tx \in mempool : Include(tx)
    /\ UNCHANGED <<journal, run, wrong, broadcast, stood>>

UseElsewhere ==
    /\ GoesWrong
    /\ \E f \in Foreign :
          Include(Transaction("foreign", f.role, f.kind, f.who,
                              AccountNonce(f.role) + Cardinality(Sent(building.txs, f.role)),
                              NotSigned))
    /\ UNCHANGED <<journal, run, broadcast, stood>>

\* The block is there for all to see, and nodes drop what can no longer follow it.
Seal ==
    /\ building # Nothing
    /\ chain' = Append(chain, [txs |-> building.txs, id |-> blocks + 1, time |-> clock,
                               world |-> building.world])
    /\ blocks' = blocks + 1
    /\ mempool' = {t \in mempool : \A j \in Sent(building.txs, t.role) :
                                      building.txs[j].tx.nonce # t.nonce}
    /\ building' = Nothing
    /\ UNCHANGED <<clock, journal, run, wrong, broadcast, stood>>

\* A node forgets a transaction.
Forget ==
    /\ GoesWrong
    /\ \E tx \in mempool : mempool' = mempool \ {tx}
    /\ UNCHANGED <<chain, building, blocks, clock, journal, run, broadcast, stood>>

\* The last block is replaced; its transactions wait to be included again.
Reorg ==
    /\ GoesWrong
    /\ Len(chain) > 1
    /\ chain' = Front(chain)
    /\ mempool' = mempool \cup {tx \in {r.tx : r \in Receipts(Len(chain))} : tx.label # "foreign"}
    /\ UNCHANGED <<building, blocks, clock, journal, run, broadcast, stood>>

Pause ==
    /\ GoesWrong
    /\ clock' = clock + 1
    /\ UNCHANGED <<chain, building, blocks, mempool, journal, run, broadcast, stood>>

----------------------------------------------------------------------------
(* A run of the script.                                                    *)

NoReceipt == [number |-> 0, ok |-> FALSE]
Off == [k |-> 0, at |-> "off", receipt |-> NoReceipt]
Running == run.at \notin {"off", "verified"}
Current == Script[run.k]
Throw == run' = Off
Goto(at) == run' = [run EXCEPT !.at = at, !.receipt = NoReceipt]
NextStep == run' = [k |-> run.k + 1, at |-> "next", receipt |-> NoReceipt]

Journaled(label) == label \in DOMAIN journal.steps
StepOf(label) == journal.steps[label]
Put(f, x, y) == [z \in DOMAIN f \cup {x} |-> IF z = x THEN y ELSE f[z]]

Start ==
    /\ run = Off
    /\ run' = [k |-> 1, at |-> "next", receipt |-> NoReceipt]
    /\ UNCHANGED <<ledger, journal, wrong, broadcast, stood>>

Crash ==
    /\ Running /\ GoesWrong
    /\ Throw
    /\ UNCHANGED <<ledger, journal, broadcast, stood>>

At(at, do) == run.at = at /\ run.k \in DOMAIN Script /\ Current.do = do

ReadyAt == StepOf("proposePolicyChange").block.time + Delay

\* The proposal pending before the first step is somebody else's.
Overwrites(label) == label = "proposePolicyChange" /\ Now.activateAfter # 0

SignedTransaction ==
    Transaction(Current.label, Current.role, Current.kind, Current.who, PendingNonce(Current.role),
                IF Current.label \in DOMAIN journal.once THEN journal.once[Current.label] ELSE NotSigned)

NoBlock == [number |-> 0, id |-> 0, time |-> 0]

\* As if a transaction were handed to the node before the journal is saved, with a
\* death possible in between.
SendBeforeSave ==
    /\ At("next", "send") /\ ~Journaled(Current.label)
    /\ ~Overwrites(Current.label)
    /\ mempool' = mempool \cup {SignedTransaction}
    /\ broadcast' = broadcast \cup {SignedTransaction}
    /\ \/ /\ journal' = [journal EXCEPT !.steps =
                            Put(@, Current.label, [tx |-> SignedTransaction, block |-> NoBlock])]
          /\ UNCHANGED <<run, wrong>>
       \/ GoesWrong /\ Throw /\ UNCHANGED journal
    /\ UNCHANGED <<chain, building, blocks, clock, stood>>

\* The next nonce of the account is used, and the signed bytes saved before they
\* leave the process.
SignAndSave ==
    /\ At("next", "send") /\ ~Journaled(Current.label)
    /\ IF Overwrites(Current.label) THEN Throw /\ UNCHANGED journal
       ELSE /\ journal' = [journal EXCEPT !.steps =
                             Put(@, Current.label, [tx |-> SignedTransaction, block |-> NoBlock])]
            /\ UNCHANGED run
    /\ UNCHANGED <<ledger, wrong, broadcast, stood>>

GotReceipt(number, ok) ==
    run' = [run EXCEPT !.at = "receipt", !.receipt = [number |-> number, ok |-> ok]]

LookForReceipt ==
    /\ At("next", "send") /\ Journaled(Current.label)
    /\ LET tx == StepOf(Current.label).tx
       IN  \/ ~Mined(tx) /\ Goto("broadcast")
           \/ \E n \in DOMAIN chain : \E r \in Receipts(n) :
                 r.tx = tx /\ GotReceipt(n, r.ok)
    /\ UNCHANGED <<ledger, journal, wrong, broadcast, stood>>

\* A node takes a transaction unless its nonce is used up; one it knows is fine.
SendRawTransaction ==
    /\ At("broadcast", "send")
    /\ LET tx == StepOf(Current.label).tx
       IN  IF tx.nonce >= AccountNonce(tx.role) \/ Mined(tx)
           THEN /\ mempool' = mempool \cup {t \in {tx} : ~Mined(t)}
                /\ broadcast' = broadcast \cup {tx}
                /\ Goto("waiting")
           ELSE Throw /\ UNCHANGED <<mempool, broadcast>>
    /\ UNCHANGED <<chain, building, blocks, clock, journal, wrong, stood>>

\* Waiting follows the account's nonce: it may yield the receipt of what took it.
WaitForReceipt ==
    /\ At("waiting", "send")
    /\ LET tx == StepOf(Current.label).tx
       IN  \E n \in DOMAIN chain : \E r \in Receipts(n) :
              r.tx.role = tx.role /\ r.tx.nonce = tx.nonce /\ GotReceipt(n, r.ok)
    /\ UNCHANGED <<ledger, journal, wrong, broadcast, stood>>

TimeOut ==
    /\ At("waiting", "send") /\ StepOf(Current.label).tx \notin mempool
    /\ Throw
    /\ UNCHANGED <<ledger, journal, wrong, broadcast, stood>>

Checkpoint(number) ==
    [number |-> number, id |-> chain[number].id, time |-> chain[number].time]

\* The status is as expected, and the block is read by the receipt's number; a block
\* the journal already has must be the same.
FinishSend ==
    /\ At("receipt", "send")
    /\ LET step == StepOf(Current.label)
           number == run.receipt.number
       IN  IF /\ run.receipt.ok = Expected(Current.label)
              /\ number \in DOMAIN chain
              /\ step.block \in {NoBlock, Checkpoint(number)}
           THEN /\ journal' = [journal EXCEPT !.steps =
                                 Put(@, Current.label, [step EXCEPT !.block = Checkpoint(number)])]
                /\ NextStep
           ELSE Throw /\ UNCHANGED journal
    /\ UNCHANGED <<ledger, wrong, broadcast, stood>>

\* Read the policy and a block, sign, cache; a quote is simulated before that.
OnceSigned ==
    /\ At("next", "once")
    /\ LET signed == [revision |-> Now.revision, deadline |-> clock + Window,
                      number |-> Len(chain), id |-> Last(chain).id, time |-> clock]
       IN  CASE Current.label \in DOMAIN journal.once -> NextStep /\ UNCHANGED journal
             [] Current.label \notin DOMAIN journal.once
                  /\ Current.kind = "case" /\ ~Accepts(Now, Current.label, signed, clock) ->
                  Throw /\ UNCHANGED journal
             [] OTHER -> /\ journal' = [journal EXCEPT !.once = Put(@, Current.label, signed)]
                         /\ NextStep
    /\ UNCHANGED <<ledger, wrong, broadcast, stood>>

\* WAITING_TIMELOCK ends the run; the pending proposal must be the script's own.
Timelock ==
    /\ At("next", "timelock")
    /\ IF \/ ~Journaled("activatePolicyChange") /\ ~(Now.activateAfter = ReadyAt /\ Now.ours)
          \/ clock < ReadyAt
       THEN Throw ELSE NextStep
    /\ UNCHANGED <<ledger, journal, wrong, broadcast, stood>>

\* The operator runs it again when the timelock is over.
ComeBack ==
    /\ run = Off /\ Journaled("proposePolicyChange")
    /\ StepOf("proposePolicyChange").block # NoBlock /\ clock < ReadyAt
    /\ clock' = ReadyAt
    /\ UNCHANGED <<chain, building, blocks, mempool, journal, run, wrong, broadcast, stood>>

----------------------------------------------------------------------------
(* The verification of a complete evidence.                                *)

\* The transactions of the evidence, as places in the script.
Rows == {i \in DOMAIN Script : Script[i].do = "send"}
Row(i) == Script[i].label

Complete ==
    /\ run.at = "next" /\ run.k > Len(Script)
    /\ run' = [k |-> 1, at |-> "reading", receipt |-> NoReceipt]
    /\ UNCHANGED <<ledger, journal, wrong, broadcast, stood>>

\* receipt: the transaction is in the block of the evidence, with the status expected.
RowStands(label) ==
    LET step == StepOf(label)
        number == step.block.number
    IN  /\ number \in DOMAIN chain
        /\ [tx |-> step.tx, ok |-> Expected(label)] \in Receipts(number)
        /\ Checkpoint(number) = step.block

SnapshotStands(name) ==
    LET quote == journal.once[name]
    IN  quote.number \in DOMAIN chain /\ chain[quote.number].id = quote.id

World(number) == chain[number].world

Trigger(name) == IF name = "revision" THEN "activatePolicyChange" ELSE "revokeInstitutionA"

\* As if the grants' expiry were not looked at.
UnexpiredOrNot(name, before, quote, time) ==
    quote.deadline > time /\ Institutions \cap before.banned = {}

\* Neither a deadline nor a grant had run out, and nobody was banned.
StillInForce(name, before, quote, time) ==
    /\ quote.deadline > time
    /\ \A user \in Institutions : user \notin before.banned /\ before.grants[user].expires > time

\* Between quote and execution only the tested fact changed.
OnlyTested(name, quoted, before) ==
    /\ quoted.enabled /\ before.enabled
    /\ \A user \in Institutions : before.grants[user] = quoted.grants[user]
    /\ IF name = "revision"
       THEN before.revision = quoted.revision + 1 /\ Users \subseteq before.valid
       ELSE /\ before.revision = quoted.revision
            /\ "institutionA" \notin before.valid /\ "institutionB" \in before.valid

CaseStands(name) ==
    LET quote == journal.once[name]
        number == StepOf(name).block.number
        time == StepOf(name).block.time
        before == World(number - 1)
    IN  /\ SnapshotStands(name) /\ RowStands(name)
        /\ quote.number < number
        /\ Accepts(World(quote.number), name, quote, quote.time)
        /\ name \notin before.spent
        /\ ~Expected(name) =>
             /\ RowStands(Trigger(name))
             /\ StepOf(Trigger(name)).block.number \in (quote.number + 1)..(number - 1)
             /\ StillInForce(name, before, quote, time)
             /\ OnlyTested(name, World(quote.number), before)
             /\ \E user \in Institutions : ~Eligible(before, user, quote.revision, time)

\* Fees are collected, and the position left, under a disabled policy.
ExitStands(name) ==
    LET before == World(StepOf(name).block.number - 1)
    IN  RowStands(name) /\ ~before.enabled /\ "liquidityProvider" \notin before.valid

\* The evidence is read in this order, step by step: the plain rows, the cases, the
\* liquidity operations.
Pass(step) ==
    CASE step.kind = "execute" -> 1
      [] step.kind \in {"add", "collect", "exit"} -> 2
      [] OTHER -> 0

Reading(i) == Pass(Script[i]) * Len(Script) + i

Stands(step) ==
    CASE step.kind = "execute" -> CaseStands(step.label)
      [] step.kind \in {"collect", "exit"} -> ExitStands(step.label)
      [] OTHER -> RowStands(step.label)

VerifyNext ==
    /\ run.at = "reading"
    /\ \E i \in Rows :
          /\ Reading(i) >= run.k
          /\ \A j \in Rows : Reading(j) >= run.k => Reading(j) >= Reading(i)
          /\ run' = IF Stands(Script[i]) THEN [run EXCEPT !.k = Reading(i) + 1] ELSE Off
    /\ UNCHANGED <<ledger, journal, wrong, broadcast, stood>>

AllRead == run.at = "reading" /\ \A i \in Rows : Reading(i) < run.k

EvidenceStands ==
    /\ \A i \in Rows : RowStands(Row(i))
    /\ \A name \in {"revision", "execution", "revocation"} : SnapshotStands(name)

\* As if the checkpoints were not looked at a second time.
VerifiedOnce ==
    /\ AllRead
    /\ Goto("verified")
    /\ stood' = EvidenceStands
    /\ UNCHANGED <<ledger, journal, wrong, broadcast>>

StartRecheck ==
    /\ AllRead
    /\ run' = [run EXCEPT !.at = "recheck", !.k = 1]
    /\ stood' = EvidenceStands
    /\ UNCHANGED <<ledger, journal, wrong, broadcast>>

\* Every checkpoint seen is compared once more with the block of its number.
CheckpointStands(label) ==
    LET block == StepOf(label).block
    IN  block.number \in DOMAIN chain /\ chain[block.number].id = block.id

Recheck ==
    /\ run.at = "recheck"
    /\ \E i \in Rows :
          /\ i >= run.k
          /\ \A j \in Rows : j >= run.k => j >= i
          /\ run' = IF CheckpointStands(Row(i)) THEN [run EXCEPT !.k = i + 1] ELSE Off
    /\ UNCHANGED <<ledger, journal, wrong, broadcast, stood>>

Verified ==
    /\ run.at = "recheck" /\ \A i \in Rows : i < run.k
    /\ Goto("verified")
    /\ UNCHANGED <<ledger, journal, wrong, broadcast, stood>>

----------------------------------------------------------------------------

Genesis == [txs |-> <<>>, id |-> 1, time |-> 0, world |-> Deployed]

Init ==
    /\ chain = <<Genesis>> /\ building = Nothing /\ blocks = 1 /\ mempool = {} /\ clock = 0
    /\ journal = [steps |-> [label \in {} |-> 0], once |-> [key \in {} |-> 0]]
    /\ run = Off
    /\ wrong = 0
    /\ broadcast = {}
    /\ stood = FALSE

Build == Mine \/ UseElsewhere \/ Seal

Environment == Forget \/ Reorg \/ Pause \/ ComeBack

RunStep ==
    \/ SignAndSave \/ LookForReceipt \/ SendRawTransaction \/ WaitForReceipt \/ TimeOut
    \/ FinishSend \/ OnceSigned \/ Timelock
    \/ Complete \/ VerifyNext \/ StartRecheck \/ Recheck \/ Verified

\* Nobody sees a block before it is complete, so it is built in one go.
Next ==
    \/ Build
    \/ building = Nothing /\ (Environment \/ Start \/ Crash \/ RunStep)

Spec == Init /\ [][Next]_vars

-----------------------------------------------------------------------------
(* Properties. *)

\* However often the script is stopped and resumed, one transaction at most is ever
\* broadcast for each of its steps (lifecycle-v2.mjs:12, 23-26).
OneTransactionPerStep ==
    \A s, t \in broadcast : s.label = t.label => s = t

\* Evidence that is verified was still on the chain as a whole when all of it had been
\* read: it is read call by call and by block number, and what was replaced meanwhile
\* would have answered for another chain (evidence-v2.mjs:52-57, 119).
VerifiedAsAWhole == run.at = "verified" => stood

Refused == {"revision", "revocation"}

BlockOf(name) == StepOf(name).block.number
PlaceOf(name) ==
    LET txs == chain[BlockOf(name)].txs
    IN  CHOOSE i \in DOMAIN txs : txs[i].tx = StepOf(name).tx

\* The state that the i-th transaction of a block met there.
Met(number, i) ==
    LET met[j \in 1..i] ==
          IF j = 1 THEN World(number - 1)
          ELSE LET r == chain[number].txs[j - 1]
               IN  IF r.ok THEN After(met[j - 1], r.tx, chain[number].time) ELSE met[j - 1]
    IN  met[i]

\* A state, but for the one fact that a negative case tests.
Untested(name, met) ==
    IF name = "revision" THEN [met EXCEPT !.revision = journal.once[name].revision]
    ELSE [met EXCEPT !.valid = @ \cup {"institutionA"}]

\* In verified evidence a refused execution that is the first of its block was refused
\* for what it tests: the state it met does not accept the orders, and but for the
\* tested fact they would have settled, whatever happened between quote and execution
\* and whatever follows in that block (EVIDENCE_V2.md:11, evidence-v2.mjs:79-87).
RefusedForWhatIsTested ==
    run.at = "verified" /\ EvidenceStands =>
        \A name \in Refused :
            LET met == Met(BlockOf(name), PlaceOf(name))
                signed == journal.once[name]
                time == StepOf(name).block.time
            IN  PlaceOf(name) = 1 =>
                    /\ ~Accepts(met, name, signed, time)
                    /\ Accepts(Untested(name, met), name, signed, time)
=============================================================================

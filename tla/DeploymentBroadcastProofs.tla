---------------------- MODULE DeploymentBroadcastProofs ----------------------
(***************************************************************************)
(* The journal and the manifest of a broadcast deployment, for every        *)
(* reviewed plan, every invocation and any number of reorganised blocks,    *)
(* nonces taken by others, reverts, crashes and preconfirmations.           *)
(*                                                                         *)
(* What a run has compared with the chain stays true of it until a block is *)
(* reorganised or a nonce is taken, and a transaction it waits for is then  *)
(* the one at its nonce: so a row is only ever written for the plan's own   *)
(* transaction.                                                             *)
(***************************************************************************)
EXTENDS DeploymentBroadcast, TLAPS

\* The counters are numbers, and a run has seen nothing that did not happen.
WrongOK(w) ==
    /\ DOMAIN w = {"foreign", "reorgs", "reverts", "crashes", "orphans", "preconfirmed", "seen"}
    /\ w.foreign \in Nat /\ w.reorgs \in Nat
    /\ w.foreign = 0 /\ w.reorgs = 0 => ~w.seen

Listing(s) == \E S : s \in Seq(S)

\* The rows of a journal are the first transactions of the plan.
InOrder(rows) == Listing(rows) /\ \A i \in DOMAIN rows : rows[i].tx = i

\* What a row says is so: its transaction was mined with success in the row's block, or
\* the mixed broadcaster wrote it down before it had one.
RowTrue(c, name, row) ==
    \/ \E k \in DOMAIN c : c[k].tx = row.tx /\ c[k].status = "success" /\ c[k].block = row.block
    \/ PlanFile[name].script = "mixed" /\ row.block = Zero

RowsTrue(c, name, rows) == \A i \in DOMAIN rows : RowTrue(c, name, rows[i])

\* A transaction has the block at its nonce, or waits for it in the mempool.
Takes(c, mempool, tx, nonce) ==
    /\ nonce \in Nat
    /\ \/ nonce + 1 \in DOMAIN c /\ c[nonce + 1].tx = tx
       \/ \E j \in DOMAIN mempool : mempool[j] = tx /\ nonce + 1 = Len(c) + j

\* Where a run has compared its rows with the chain.
Compared == {"rewriting", "counting", "sending", "waiting", "recording", "filling", "publishing"}

JournalOK ==
    \/ journal \in {Absent, Torn}
    \/ /\ journal.kind = "journal" /\ InOrder(journal.rows)
       /\ wrong.foreign = 0 /\ wrong.reorgs = 0 => RowsTrue(chain, plan, journal.rows)

RunOK ==
    /\ DOMAIN run = {"pc", "rows"}
    /\ InOrder(run.rows)
    /\ run.pc \in Compared /\ ~wrong.seen => RowsTrue(chain, plan, run.rows)
    /\ run.pc = "waiting" /\ ~wrong.seen => Takes(chain, pending, NextTx, Tx(NextTx).nonce)
    /\ run.pc = "publishing" => Len(run.rows) = Count

ManifestOK ==
    \/ manifest \in {Absent, Torn}
    \/ /\ manifest.kind = "manifest"
       /\ manifest.reorgs \in Nat /\ manifest.reorgs <= wrong.reorgs
       /\ InOrder(manifest.rows) /\ Len(manifest.rows) = Count
       /\ ~manifest.seen /\ manifest.reorgs = wrong.reorgs => RowsTrue(chain, plan, manifest.rows)

\* The signers are those of one invocation for this plan.
SignerOK == signer = Unsigned \/ \E started \in Starts[plan] :
    signer = [clients |-> started.clients, forge |-> started.forge]

BroadcastInv ==
    /\ plan \in DOMAIN Reviewed
    /\ WrongOK(wrong)
    /\ Listing(chain) /\ Listing(pending)
    /\ JournalOK /\ RunOK /\ ManifestOK
    /\ SignerOK

-----------------------------------------------------------------------------
(* Sequences. *)

\* A sequence is numbered from one.
LEMMA Numbered ==
    ASSUME NEW s, Listing(s)
    PROVE  Len(s) \in Nat /\ DOMAIN s = 1..Len(s)
BY DEF Listing

\* An element is added behind all others.
LEMMA Added ==
    ASSUME NEW s, Listing(s), NEW e
    PROVE  /\ Listing(Append(s, e)) /\ Len(Append(s, e)) = Len(s) + 1
           /\ DOMAIN Append(s, e) = DOMAIN s \cup {Len(s) + 1}
           /\ \A i \in DOMAIN s : Append(s, e)[i] = s[i]
           /\ Append(s, e)[Len(s) + 1] = e
<1>1. PICK S : s \in Seq(S)
  BY DEF Listing
<1>2. s \in Seq(S \cup {e}) /\ e \in S \cup {e}
  BY <1>1
<1>3. Append(s, e) \in Seq(S \cup {e})
  BY <1>2
<1>4. /\ Len(Append(s, e)) = Len(s) + 1
      /\ Append(s, e)[Len(s) + 1] = e
      /\ \A i \in 1..Len(s) : Append(s, e)[i] = s[i]
  BY <1>2
<1>5. Listing(Append(s, e))
  BY <1>3 DEF Listing
<1>6. DOMAIN s = 1..Len(s) /\ DOMAIN Append(s, e) = 1..(Len(s) + 1) /\ Len(s) \in Nat
  BY <1>4, <1>5, Numbered
<1> QED BY <1>4, <1>5, <1>6

\* Without its first element a sequence is numbered one lower.
LEMMA Shifted ==
    ASSUME NEW s, Listing(s), s # <<>>
    PROVE  /\ Listing(Tail(s)) /\ 1 \in DOMAIN s /\ Head(s) = s[1]
           /\ \A j \in DOMAIN s : j # 1 => j - 1 \in DOMAIN Tail(s) /\ Tail(s)[j - 1] = s[j]
<1>1. PICK S : s \in Seq(S)
  BY DEF Listing
<1>2. /\ Tail(s) \in Seq(S) /\ Len(Tail(s)) = Len(s) - 1 /\ Head(s) = s[1]
      /\ \A i \in 1..(Len(s) - 1) : Tail(s)[i] = s[i + 1]
      /\ Len(s) \in Nat \ {0}
  BY <1>1
<1>3. Listing(Tail(s))
  BY <1>2 DEF Listing
<1>4. DOMAIN s = 1..Len(s) /\ DOMAIN Tail(s) = 1..(Len(s) - 1)
  BY <1>2, <1>3, Numbered
<1>5. \A j \in DOMAIN s : j # 1 => j - 1 \in 1..(Len(s) - 1) /\ (j - 1) + 1 = j
  BY <1>2, <1>4
<1> QED BY <1>2, <1>3, <1>4, <1>5

\* The front of a sequence is one.
LEMMA Fronts ==
    ASSUME NEW s, Listing(s), s # <<>>
    PROVE  Listing(Front(s))
<1>1. PICK S : s \in Seq(S)
  BY DEF Listing
<1>2. Len(s) \in Nat \ {0} /\ \A i \in 1..(Len(s) - 1) : s[i] \in S
  BY <1>1
<1>3. Front(s) \in Seq(S)
  BY <1>1, <1>2 DEF Front
<1> QED BY <1>3 DEF Listing

-----------------------------------------------------------------------------
(* A chain that grows. *)

\* A row that is true stays so.
LEMMA RowsStayTrue ==
    ASSUME NEW c, Listing(c), NEW b, NEW name, NEW rows, RowsTrue(c, name, rows)
    PROVE  RowsTrue(Append(c, b), name, rows)
BY Added DEF RowsTrue, RowTrue

\* The transaction that waits first gets the next block.
LEMMA TakesStill ==
    ASSUME NEW c, Listing(c), NEW mempool, Listing(mempool), mempool # <<>>,
           NEW b, b.tx = Head(mempool), NEW tx, NEW nonce, Takes(c, mempool, tx, nonce)
    PROVE  Takes(Append(c, b), Tail(mempool), tx, nonce)
<1>1. CASE nonce + 1 \in DOMAIN c /\ c[nonce + 1].tx = tx
  BY <1>1, Added DEF Takes
<1>2. ASSUME NEW j \in DOMAIN mempool, mempool[j] = tx, nonce + 1 = Len(c) + j
      PROVE  Takes(Append(c, b), Tail(mempool), tx, nonce)
  <2>1. j \in Nat /\ Len(c) \in Nat /\ nonce \in Nat
    BY Numbered DEF Takes
  <2>2. CASE j = 1
    BY <1>2, <2>1, <2>2, Added, Shifted DEF Takes
  <2>3. CASE j # 1
    <3>1. j - 1 \in DOMAIN Tail(mempool) /\ Tail(mempool)[j - 1] = tx
      BY <1>2, <2>3, Shifted
    <3>2. nonce + 1 = Len(Append(c, b)) + (j - 1)
      BY <1>2, <2>1, Added
    <3> QED BY <2>1, <3>1, <3>2 DEF Takes
  <2> QED BY <2>2, <2>3
<1> QED BY <1>1, <1>2 DEF Takes

-----------------------------------------------------------------------------
(* What keeps what. *)

\* Counters of other kinds do not matter.
LEMMA OtherCounters ==
    ASSUME WrongOK(wrong),
           \/ wrong' = wrong
           \/ wrong' = [wrong EXCEPT !.reverts = @ + 1]
           \/ wrong' = [wrong EXCEPT !.crashes = @ + 1]
           \/ wrong' = [wrong EXCEPT !.orphans = @ + 1]
           \/ wrong' = [wrong EXCEPT !.preconfirmed = @ + 1]
    PROVE  /\ WrongOK(wrong')
           /\ wrong'.foreign = wrong.foreign /\ wrong'.reorgs = wrong.reorgs
           /\ wrong'.seen = wrong.seen
BY DEF WrongOK

\* A step that leaves chain and counters alone leaves the journal right.
LEMMA JournalKept ==
    ASSUME JournalOK, UNCHANGED <<plan, chain, journal>>,
           wrong'.foreign = wrong.foreign, wrong'.reorgs = wrong.reorgs
    PROVE  JournalOK'
BY DEF JournalOK

\* So does what a manifest says, which asks of the chain and of the plan.
LEMMA ManifestKept ==
    ASSUME ManifestOK, UNCHANGED <<plan, chain, manifest>>, wrong'.reorgs = wrong.reorgs
    PROVE  ManifestOK'
BY DEF ManifestOK, Count, Plan

\* And the signer, who is replaced by nobody, if at all.
LEMMA SignerKept ==
    ASSUME SignerOK, UNCHANGED plan, signer' \in {signer, Unsigned}
    PROVE  SignerOK'
BY DEF SignerOK

\* A process that ended knows nothing.
LEMMA StopIsOK == ASSUME Stop PROVE RunOK'
<1>1. run' = Off /\ DOMAIN Off = {"pc", "rows"} /\ Off.rows = <<>> /\ Off.pc = "off"
  BY DEF Stop, Off
<1>2. InOrder(<<>>)
  <2>1. <<>> \in Seq({})
    OBVIOUS
  <2> QED BY <2>1 DEF InOrder, Listing
<1> QED BY <1>1, <1>2 DEF RunOK, Compared

\* A process that goes on to compare, count or send with the rows it has.
LEMMA GoesOn ==
    ASSUME RunOK, UNCHANGED <<plan, chain>>, wrong'.seen = wrong.seen,
           run.pc \in Compared, NEW pc, Goto(pc), pc # "waiting", pc # "publishing"
    PROVE  RunOK'
<1>1. /\ run'.pc = pc /\ run'.rows = run.rows /\ DOMAIN run' = {"pc", "rows"}
  BY DEF RunOK, Goto
<1> QED BY <1>1 DEF RunOK

-----------------------------------------------------------------------------
(* The chain moves. *)

\* Mining the transaction that waits first adds a block and is seen by nobody.
LEMMA MiningIsOK == ASSUME BroadcastInv, Mine PROVE BroadcastInv'
<1>1. PICK status \in {"success", "reverted"} :
        /\ pending # <<>> /\ MineBlock(Head(pending), status)
        /\ wrong' \in {wrong, [wrong EXCEPT !.reverts = @ + 1]}
        /\ UNCHANGED <<plan, files, run, signer>>
  BY DEF Mine
<1> DEFINE b == [tx |-> Head(pending), block |-> blocks + 1, status |-> status]
<1>2. /\ chain' = Append(chain, b) /\ pending' = Tail(pending) /\ b.tx = Head(pending)
      /\ UNCHANGED <<plan, journal, manifest, run, signer>>
  BY <1>1 DEF MineBlock, files
<1> HIDE DEF b
<1>3. /\ WrongOK(wrong') /\ wrong'.foreign = wrong.foreign
      /\ wrong'.reorgs = wrong.reorgs /\ wrong'.seen = wrong.seen
  BY <1>1, OtherCounters DEF BroadcastInv
<1>4. Listing(chain') /\ Listing(pending')
  BY <1>1, <1>2, Added, Shifted DEF BroadcastInv
<1>5. \A rows : RowsTrue(chain, plan, rows) => RowsTrue(chain', plan', rows)
  BY <1>2, RowsStayTrue DEF BroadcastInv
<1>6. \A tx, nonce : Takes(chain, pending, tx, nonce) => Takes(chain', pending', tx, nonce)
  BY <1>1, <1>2, TakesStill DEF BroadcastInv
<1>7. JournalOK'
  BY <1>2, <1>3, <1>5 DEF BroadcastInv, JournalOK
<1>8. ManifestOK'
  BY <1>2, <1>3, <1>5 DEF BroadcastInv, ManifestOK, Count, Plan
<1>9. RunOK'
  BY <1>2, <1>3, <1>5, <1>6 DEF BroadcastInv, RunOK, NextTx, Tx, Count, Plan
<1> QED BY <1>2, <1>3, <1>4, <1>7, <1>8, <1>9, SignerKept DEF BroadcastInv

\* When somebody else takes a nonce the run has seen it.
LEMMA UsingIsOK == ASSUME BroadcastInv, UseNonce PROVE BroadcastInv'
<1>1. /\ MineBlock(Foreign, "success") /\ UNCHANGED <<plan, journal, manifest, run, signer>>
      /\ wrong' = [wrong EXCEPT !.foreign = @ + 1, !.seen = TRUE]
  BY DEF UseNonce, files
<1> DEFINE b == [tx |-> Foreign, block |-> blocks + 1, status |-> "success"]
<1>2. /\ chain' = Append(chain, b)
      /\ pending' = IF pending = <<>> THEN <<>> ELSE Tail(pending)
  BY <1>1 DEF MineBlock
<1> HIDE DEF b
<1>3. /\ DOMAIN wrong' = DOMAIN wrong /\ wrong'.foreign = wrong.foreign + 1
      /\ wrong'.reorgs = wrong.reorgs
  BY <1>1 DEF BroadcastInv, WrongOK
<1>4. wrong'.seen
  BY <1>1 DEF BroadcastInv, WrongOK
<1>5. WrongOK(wrong') /\ wrong'.foreign # 0
  BY <1>3 DEF BroadcastInv, WrongOK
<1>6. Listing(chain')
  BY <1>2, Added DEF BroadcastInv
<1>7. Listing(pending')
  <2>1. CASE pending = <<>>
    BY <1>2, <2>1 DEF BroadcastInv
  <2>2. CASE pending # <<>>
    BY <1>2, <2>2, Shifted DEF BroadcastInv
  <2> QED BY <2>1, <2>2
<1>8. \A rows : RowsTrue(chain, plan, rows) => RowsTrue(chain', plan', rows)
  BY <1>1, <1>2, RowsStayTrue DEF BroadcastInv
<1>9. JournalOK'
  BY <1>1, <1>5 DEF BroadcastInv, JournalOK
<1>10. ManifestOK'
  BY <1>1, <1>3, <1>8 DEF BroadcastInv, ManifestOK, Count, Plan
<1>11. RunOK'
  BY <1>1, <1>4 DEF BroadcastInv, RunOK, Count, Plan
<1> QED BY <1>1, <1>5, <1>6, <1>7, <1>9, <1>10, <1>11, SignerKept DEF BroadcastInv

\* When a block goes, the run has seen it and an earlier manifest knows of fewer.
LEMMA ReorgIsOK == ASSUME BroadcastInv, Reorg PROVE BroadcastInv'
<1>1. PICK kept \in BOOLEAN :
        /\ Len(chain) > StartNonce
        /\ pending' = IF kept THEN << Last(chain).tx >> ELSE <<>>
        /\ chain' = Front(chain)
        /\ wrong' = [wrong EXCEPT !.reorgs = @ + 1, !.seen = TRUE]
        /\ UNCHANGED <<plan, journal, manifest, run, signer>>
  BY DEF Reorg, files
<1>2. chain # <<>>
  BY <1>1, BroadcastAssumption
<1>3. Listing(chain')
  BY <1>1, <1>2, Fronts DEF BroadcastInv
<1>4. Listing(pending')
  <2>1. << Last(chain).tx >> \in Seq({Last(chain).tx}) /\ <<>> \in Seq({})
    OBVIOUS
  <2> QED BY <1>1, <2>1 DEF Listing
<1>5. /\ DOMAIN wrong' = DOMAIN wrong /\ wrong'.foreign = wrong.foreign
      /\ wrong'.reorgs = wrong.reorgs + 1
  BY <1>1 DEF BroadcastInv, WrongOK
<1>6. wrong'.seen
  BY <1>1 DEF BroadcastInv, WrongOK
<1>7. WrongOK(wrong') /\ wrong'.reorgs # 0
  BY <1>5 DEF BroadcastInv, WrongOK
<1>8. JournalOK'
  BY <1>1, <1>7 DEF BroadcastInv, JournalOK
<1>9. ManifestOK'
  BY <1>1, <1>5 DEF BroadcastInv, ManifestOK, WrongOK, Count, Plan
<1>10. RunOK'
  BY <1>1, <1>6 DEF BroadcastInv, RunOK, Count, Plan
<1> QED BY <1>1, <1>3, <1>4, <1>7, <1>8, <1>9, <1>10, SignerKept DEF BroadcastInv

-----------------------------------------------------------------------------
(* A run moves. *)

\* The parts that a step of a run does not write.
LEMMA RestKept ==
    ASSUME BroadcastInv, UNCHANGED <<plan, chain>>, WrongOK(wrong'),
           wrong'.foreign = wrong.foreign, wrong'.reorgs = wrong.reorgs,
           Listing(pending'), signer' \in {signer, Unsigned}
    PROVE  /\ UNCHANGED journal => JournalOK'
           /\ UNCHANGED manifest => ManifestOK'
           /\ JournalOK' /\ ManifestOK' /\ RunOK' => BroadcastInv'
BY JournalKept, ManifestKept, SignerKept DEF BroadcastInv

\* Nothing but the run and the files has moved.
Within == UNCHANGED <<plan, ledger, wrong>> /\ signer' \in {signer, Unsigned}

\* Such a step keeps whatever the files it leaves alone say.
LEMMA WithinKeeps ==
    ASSUME BroadcastInv, Within
    PROVE  /\ UNCHANGED <<plan, chain>> /\ wrong'.seen = wrong.seen
           /\ UNCHANGED journal => JournalOK'
           /\ UNCHANGED manifest => ManifestOK'
           /\ JournalOK' /\ ManifestOK' /\ RunOK' => BroadcastInv'
<1>1. /\ UNCHANGED <<plan, chain, pending, wrong>> /\ signer' \in {signer, Unsigned}
      /\ Listing(pending') /\ WrongOK(wrong')
  BY DEF Within, ledger, BroadcastInv
<1> QED BY <1>1, RestKept

\* A run that starts has the signers of its invocation and has seen nothing yet.
LEMMA StartIsOK == ASSUME BroadcastInv, Start PROVE BroadcastInv'
<1>1. PICK started \in Starts[plan] :
        /\ signer' = [clients |-> started.clients, forge |-> started.forge]
        /\ run' \in {Off, [Off EXCEPT !.pc = "reading"]}
        /\ wrong' = [wrong EXCEPT !.seen = FALSE]
        /\ UNCHANGED <<plan, chain, pending, blocks, journal, manifest>>
  BY DEF Start, ledger, files
<1>2. /\ DOMAIN wrong' = DOMAIN wrong /\ wrong'.foreign = wrong.foreign
      /\ wrong'.reorgs = wrong.reorgs
  BY <1>1 DEF BroadcastInv, WrongOK
<1>3. ~wrong'.seen
  BY <1>1 DEF BroadcastInv, WrongOK
<1>4. WrongOK(wrong')
  BY <1>2, <1>3 DEF BroadcastInv, WrongOK
<1>5. JournalOK' /\ ManifestOK'
  BY <1>1, <1>2, JournalKept, ManifestKept DEF BroadcastInv
<1>6. SignerOK'
  BY <1>1 DEF SignerOK
<1>7. /\ run'.rows = <<>> /\ run'.pc \in {"off", "reading"}
      /\ DOMAIN run' = {"pc", "rows"}
  BY <1>1 DEF Off
<1>8. InOrder(<<>>)
  <2>1. <<>> \in Seq({})
    OBVIOUS
  <2> QED BY <2>1 DEF InOrder, Listing
<1>9. RunOK'
  BY <1>7, <1>8 DEF RunOK, Compared
<1> QED BY <1>1, <1>4, <1>5, <1>6, <1>9 DEF BroadcastInv

\* The rows a run begins with are those of the journal, not compared yet.
LEMMA ReadingIsOK == ASSUME BroadcastInv, ReadJournal PROVE BroadcastInv'
<1>1. Within /\ UNCHANGED <<journal, manifest>>
  BY DEF ReadJournal, Within, files
<1>2. CASE journal = Absent
  <2>1. run' = [run EXCEPT !.pc = "reconciling"]
    BY <1>2 DEF ReadJournal, Absent, Torn
  <2>2. run'.pc = "reconciling" /\ run'.rows = run.rows /\ DOMAIN run' = {"pc", "rows"}
    BY <2>1 DEF BroadcastInv, RunOK
  <2>3. RunOK'
    BY <2>2 DEF BroadcastInv, RunOK, Compared
  <2> QED BY <1>1, <2>3, WithinKeeps
<1>3. CASE journal = Torn
  <2>1. journal # Absent
    BY <1>3 DEF Torn, Absent
  <2>2. Stop
    BY <1>3, <2>1 DEF ReadJournal
  <2> QED BY <1>1, <2>2, StopIsOK, WithinKeeps
<1>4. CASE journal \notin {Absent, Torn}
  <2>1. run' = [run EXCEPT !.pc = "reconciling", !.rows = journal.rows] /\ InOrder(journal.rows)
    BY <1>4 DEF ReadJournal, BroadcastInv, JournalOK
  <2>2. run'.pc = "reconciling" /\ run'.rows = journal.rows /\ DOMAIN run' = {"pc", "rows"}
    BY <2>1 DEF BroadcastInv, RunOK
  <2>3. RunOK'
    BY <2>1, <2>2 DEF RunOK, Compared
  <2> QED BY <1>1, <2>3, WithinKeeps
<1> QED BY <1>2, <1>3, <1>4

\* The mixed broadcaster goes on only if all its rows stand.
LEMMA CheckingIsOK == ASSUME BroadcastInv, CheckRows PROVE BroadcastInv'
<1>1. Within /\ UNCHANGED <<journal, manifest>> /\ At("reconciling") /\ Mixed
  BY DEF CheckRows, Within, files
<1>2. CASE \A i \in DOMAIN run.rows : RowStands(run.rows[i])
  <2>1. Goto("counting")
    BY <1>2 DEF CheckRows
  <2>2. run'.pc = "counting" /\ run'.rows = run.rows /\ DOMAIN run' = {"pc", "rows"}
    BY <2>1 DEF BroadcastInv, RunOK, Goto
  <2>3. ASSUME NEW i \in DOMAIN run.rows PROVE RowTrue(chain, plan, run.rows[i])
    <3> DEFINE row == run.rows[i]
    <3>1. PICK receipt \in Receipts(row.tx) : receipt.status = "success" /\ receipt.block = row.block
      BY <1>2 DEF RowStands
    <3>2. \/ \E k \in DOMAIN chain : chain[k].tx = row.tx /\ receipt = AnswerOf(chain[k])
          \/ receipt.block = Zero
      BY <3>1 DEF Receipts, Range
    <3>3. PlanFile[plan].script = "mixed"
      BY <1>1 DEF Mixed, Plan
    <3> QED BY <3>1, <3>2, <3>3 DEF RowTrue, AnswerOf
  <2>4. RowsTrue(chain', plan', run'.rows)
    BY <1>1, <2>2, <2>3, WithinKeeps DEF RowsTrue
  <2>5. RunOK'
    BY <2>2, <2>4 DEF BroadcastInv, RunOK
  <2> QED BY <1>1, <2>5, WithinKeeps
<1>3. CASE ~\A i \in DOMAIN run.rows : RowStands(run.rows[i])
  <2>1. Stop
    BY <1>3 DEF CheckRows
  <2> QED BY <1>1, <2>1, StopIsOK, WithinKeeps
<1> QED BY <1>2, <1>3

\* The pilot's goes on with rows that have a block of the chain.
LEMMA ReconcilingIsOK == ASSUME BroadcastInv, ReconcileRows PROVE BroadcastInv'
<1>1. Within /\ UNCHANGED manifest
  BY DEF ReconcileRows, Within, ledger
<1> DEFINE Comparable == \A i \in DOMAIN run.rows : \E receipt \in Receipts(run.rows[i].tx) :
                            RowReconciles(run.rows[i], receipt)
<1>2. CASE Comparable
  <2> DEFINE rows == [i \in DOMAIN run.rows |-> Reconciled(run.rows[i])]
  <2>1. run' = [run EXCEPT !.rows = rows, !.pc = "rewriting"] /\ journal' = Torn
    BY <1>2 DEF ReconcileRows
  <2>2. DOMAIN rows = DOMAIN run.rows /\ \A i \in DOMAIN run.rows : rows[i] = Reconciled(run.rows[i])
    OBVIOUS
  <2>3. InOrder(run.rows) /\ Listing(run.rows)
    BY DEF BroadcastInv, RunOK, InOrder
  <2>4. Listing(rows)
    <3>1. Len(run.rows) \in Nat /\ DOMAIN run.rows = 1..Len(run.rows)
      BY <2>3, Numbered
    <3>2. \A i \in 1..Len(run.rows) : Reconciled(run.rows[i]) \in {rows[j] : j \in 1..Len(run.rows)}
      BY <3>1
    <3>3. rows \in Seq({rows[j] : j \in 1..Len(run.rows)})
      BY <3>1, <3>2
    <3> QED BY <3>3 DEF Listing
  <2> HIDE DEF rows
  <2>5. run'.pc = "rewriting" /\ run'.rows = rows /\ DOMAIN run' = {"pc", "rows"}
    BY <2>1 DEF BroadcastInv, RunOK
  <2>6. ASSUME NEW i \in DOMAIN rows PROVE rows[i].tx = i /\ RowTrue(chain, plan, rows[i])
    <3> DEFINE row == run.rows[i]
               receipt == CHOOSE receipt \in Receipts(row.tx) : RowReconciles(row, receipt)
    <3>1. i \in DOMAIN run.rows /\ row.tx = i
      BY <2>2, <2>3 DEF InOrder
    <3>2. receipt \in Receipts(row.tx) /\ RowReconciles(row, receipt)
      BY <1>2, <3>1
    <3>3. rows[i] = [row EXCEPT !.block = receipt.block]
      BY <2>2, <3>1 DEF Reconciled
    <3> HIDE DEF receipt
    <3>4. receipt.status = "success" /\ receipt.block # Zero
      BY <3>2 DEF RowReconciles, Canonical
    <3>5. PICK k \in DOMAIN chain : chain[k].tx = row.tx /\ receipt = AnswerOf(chain[k])
      BY <3>2, <3>4 DEF Receipts, Range
    <3> QED BY <3>1, <3>3, <3>4, <3>5 DEF RowTrue, AnswerOf
  <2>7. InOrder(run'.rows) /\ RowsTrue(chain', plan', run'.rows)
    BY <1>1, <2>4, <2>5, <2>6, WithinKeeps DEF InOrder, RowsTrue
  <2>8. RunOK' /\ JournalOK'
    BY <2>1, <2>5, <2>7 DEF RunOK, JournalOK
  <2> QED BY <1>1, <2>8, WithinKeeps
<1>3. CASE ~Comparable
  <2>1. Stop /\ UNCHANGED journal
    BY <1>3 DEF ReconcileRows
  <2> QED BY <1>1, <2>1, StopIsOK, WithinKeeps
<1> QED BY <1>2, <1>3

\* What is written to the journal are rows that the run compared.
LEMMA WritingIsOK == ASSUME BroadcastInv, RewriteJournal \/ FillJournal PROVE BroadcastInv'
<1>1. PICK pc \in {"counting", "sending"} :
        /\ Within /\ UNCHANGED manifest /\ journal' = Journal(run.rows)
        /\ Goto(pc) /\ run.pc \in Compared
  BY DEF RewriteJournal, FillJournal, Within, ledger, At, Compared
<1>2. journal'.kind = "journal" /\ journal'.rows = run.rows
  BY <1>1 DEF Journal
<1>3. InOrder(run.rows) /\ (~wrong.seen => RowsTrue(chain, plan, run.rows))
  BY <1>1 DEF BroadcastInv, RunOK
<1>4. UNCHANGED <<plan, chain, wrong>>
  BY <1>1 DEF Within, ledger
<1>5. wrong.foreign = 0 /\ wrong.reorgs = 0 => ~wrong.seen
  BY DEF BroadcastInv, WrongOK
<1>6. JournalOK'
  BY <1>2, <1>3, <1>4, <1>5 DEF JournalOK
<1>7. RunOK'
  BY <1>1, <1>4, GoesOn DEF BroadcastInv
<1> QED BY <1>1, <1>6, <1>7, WithinKeeps

\* The nonce is where the rows say, or the run ends.
LEMMA CountingIsOK == ASSUME BroadcastInv, CheckNonce PROVE BroadcastInv'
<1>1. Within /\ UNCHANGED <<journal, manifest>> /\ run.pc \in Compared
  BY DEF CheckNonce, Within, files, At, Compared
<1>2. Goto("sending") \/ Stop
  BY DEF CheckNonce
<1>3. RunOK'
  BY <1>1, <1>2, GoesOn, StopIsOK, WithinKeeps DEF BroadcastInv
<1> QED BY <1>1, <1>3, WithinKeeps

\* The journal is truncated before it is filled.
LEMMA OpeningIsOK == ASSUME BroadcastInv, OpenJournal PROVE BroadcastInv'
<1>1. Within /\ UNCHANGED manifest /\ journal' = Torn /\ run.pc \in Compared /\ Goto("filling")
  BY DEF OpenJournal, Within, ledger, At, Compared
<1>2. RunOK'
  BY <1>1, GoesOn, WithinKeeps DEF BroadcastInv
<1>3. JournalOK'
  BY <1>1 DEF JournalOK
<1> QED BY <1>1, <1>2, <1>3, WithinKeeps

-----------------------------------------------------------------------------
(* A transaction is sent and waited for. *)

\* What is sent waits at its nonce, last in the mempool.
LEMMA SendingIsOK == ASSUME BroadcastInv, Send PROVE BroadcastInv'
<1>1. /\ UNCHANGED <<plan, chain, blocks, journal, manifest, signer>>
      /\ At("sending") /\ Len(run.rows) < Count
  BY DEF Send, files
<1>2. CASE NextNonce # Tx(NextTx).nonce
  <2>1. Stop /\ UNCHANGED <<pending, wrong>>
    BY <1>2 DEF Send
  <2>2. Within /\ UNCHANGED <<journal, manifest>>
    BY <1>1, <2>1 DEF Within, ledger
  <2> QED BY <2>1, <2>2, StopIsOK, WithinKeeps
<1>3. CASE NextNonce = Tx(NextTx).nonce
  <2>1. /\ pending' = Append(pending, NextTx)
        /\ \/ run' = [run EXCEPT !.pc = "waiting"] /\ wrong' = wrong
           \/ run' = Off /\ wrong' = [wrong EXCEPT !.orphans = @ + 1]
    BY <1>3 DEF Send
  <2>2. /\ WrongOK(wrong') /\ wrong'.foreign = wrong.foreign
        /\ wrong'.reorgs = wrong.reorgs /\ wrong'.seen = wrong.seen
    BY <2>1, OtherCounters DEF BroadcastInv
  <2>3. /\ Listing(pending') /\ Len(pending) + 1 \in DOMAIN pending'
        /\ pending'[Len(pending) + 1] = NextTx
    BY <2>1, Added DEF BroadcastInv
  <2>4. JournalOK' /\ ManifestOK'
    BY <1>1, <2>2, JournalKept, ManifestKept DEF BroadcastInv
  <2>5. RunOK'
    <3>1. CASE run' = Off
      BY <3>1, StopIsOK DEF Stop
    <3>2. CASE run' = [run EXCEPT !.pc = "waiting"]
      <4>1. run'.pc = "waiting" /\ run'.rows = run.rows /\ DOMAIN run' = {"pc", "rows"}
        BY <3>2 DEF BroadcastInv, RunOK
      <4>2. Len(chain) \in Nat /\ Len(pending) \in Nat
        BY Numbered DEF BroadcastInv
      <4>3. Tx(NextTx).nonce \in Nat /\ Tx(NextTx).nonce + 1 = Len(chain) + (Len(pending) + 1)
        BY <1>3, <4>2 DEF NextNonce
      <4>4. Takes(chain, pending', NextTx, Tx(NextTx).nonce)
        BY <2>3, <4>3 DEF Takes
      <4>5. NextTx' = NextTx /\ Tx(NextTx)' = Tx(NextTx)
        BY <1>1, <4>1 DEF NextTx, Tx, Plan
      <4>6. Takes(chain, pending, NextTx, Tx(NextTx).nonce)'
        BY <1>1, <4>4, <4>5
      <4>7. run.pc \in Compared
        BY <1>1 DEF At, Compared
      <4> QED BY <1>1, <2>2, <4>1, <4>6, <4>7 DEF BroadcastInv, RunOK
    <3> QED BY <2>1, <3>1, <3>2
  <2> QED BY <1>1, <2>2, <2>3, <2>4, <2>5, SignerKept DEF BroadcastInv
<1> QED BY <1>2, <1>3

\* While nothing was seen to go wrong, the receipt waited for is that of the plan's own
\* transaction.
LEMMA AwaitedIsOwn ==
    ASSUME Listing(chain), NEW tx, Takes(chain, pending, tx, Tx(tx).nonce),
           NEW receipt \in AwaitedReceipts(tx), receipt.status = "success",
           Mixed \/ receipt.block # Zero
    PROVE  RowTrue(chain, plan, Row(tx, receipt))
<1>1. Row(tx, receipt).tx = tx /\ Row(tx, receipt).block = receipt.block
  BY DEF Row
<1>2. CASE receipt \in Receipts(tx)
  <2>1. \/ \E k \in DOMAIN chain : chain[k].tx = tx /\ receipt = AnswerOf(chain[k])
        \/ receipt.block = Zero
    BY <1>2 DEF Receipts, Range
  <2> QED BY <1>1, <2>1 DEF RowTrue, AnswerOf, Mixed, Plan
<1>3. CASE Tx(tx).nonce < Len(chain) /\ receipt = AnswerOf(chain[Tx(tx).nonce + 1])
  <2>1. Tx(tx).nonce + 1 \in DOMAIN chain /\ chain[Tx(tx).nonce + 1].tx = tx
    <3>1. Len(chain) \in Nat /\ Tx(tx).nonce \in Nat
      BY Numbered DEF Takes
    <3>2. \A j \in DOMAIN pending : Tx(tx).nonce + 1 = Len(chain) + j => FALSE
      <4>1. DOMAIN pending \subseteq Nat \ {0} \/ ~Listing(pending)
        BY Numbered
      <4> QED BY <1>3, <3>1, <4>1
    <3> QED BY <3>2 DEF Takes
  <2> QED BY <1>1, <1>3, <2>1 DEF RowTrue, AnswerOf
<1> QED BY <1>2, <1>3 DEF AwaitedReceipts

\* A row is written of what was waited for.
LEMMA AwaitingIsOK == ASSUME BroadcastInv, AwaitReceipt PROVE BroadcastInv'
<1>1. PICK receipt \in AwaitedReceipts(NextTx) :
        /\ wrong' \in {wrong, [wrong EXCEPT !.preconfirmed = @ + 1]}
        /\ IF Acceptable(receipt) /\ AtExpectedAddress(NextTx)
           THEN run' = [run EXCEPT !.rows = Append(@, Row(NextTx, receipt)), !.pc = "recording"]
           ELSE Stop
  BY DEF AwaitReceipt
<1>2. /\ UNCHANGED <<plan, chain, pending, journal, manifest, signer>>
      /\ run.pc = "waiting"
  BY DEF AwaitReceipt, ledger, files, At
<1>3. /\ WrongOK(wrong') /\ wrong'.foreign = wrong.foreign
      /\ wrong'.reorgs = wrong.reorgs /\ wrong'.seen = wrong.seen
  BY <1>1, OtherCounters DEF BroadcastInv
<1>4. JournalOK' /\ ManifestOK'
  BY <1>2, <1>3, JournalKept, ManifestKept DEF BroadcastInv
<1>5. RunOK'
  <2>1. CASE Stop
    BY <2>1, StopIsOK
  <2>2. CASE /\ run' = [run EXCEPT !.rows = Append(@, Row(NextTx, receipt)), !.pc = "recording"]
             /\ Acceptable(receipt)
    <3> DEFINE row == Row(NextTx, receipt)
    <3>1. /\ run'.rows = Append(run.rows, row) /\ run'.pc = "recording"
          /\ DOMAIN run' = {"pc", "rows"}
      BY <2>2 DEF BroadcastInv, RunOK
    <3>2. Listing(run.rows) /\ \A i \in DOMAIN run.rows : run.rows[i].tx = i
      BY DEF BroadcastInv, RunOK, InOrder
    <3>3. row.tx = Len(run.rows) + 1
      BY DEF Row, NextTx
    <3> HIDE DEF row
    <3>4. /\ Listing(run'.rows) /\ DOMAIN run'.rows = DOMAIN run.rows \cup {Len(run.rows) + 1}
          /\ \A i \in DOMAIN run.rows : run'.rows[i] = run.rows[i]
          /\ run'.rows[Len(run.rows) + 1] = row
      BY <3>1, <3>2, Added
    <3>5. InOrder(run'.rows)
      BY <3>2, <3>3, <3>4 DEF InOrder
    <3>6. ASSUME ~wrong'.seen PROVE RowsTrue(chain', plan', run'.rows)
      <4>1. ~wrong.seen
        BY <1>3, <3>6
      <4>2. RowsTrue(chain, plan, run.rows) /\ Takes(chain, pending, NextTx, Tx(NextTx).nonce)
        BY <1>2, <4>1 DEF BroadcastInv, RunOK, Compared
      <4>3. RowTrue(chain, plan, row)
        BY <2>2, <4>2, AwaitedIsOwn DEF BroadcastInv, Acceptable, row
      <4> QED BY <1>2, <3>4, <4>2, <4>3 DEF RowsTrue
    <3> QED BY <3>1, <3>5, <3>6 DEF RunOK
  <2> QED BY <1>1, <2>1, <2>2
<1> QED BY <1>2, <1>3, <1>4, <1>5, SignerKept DEF BroadcastInv

\* A run that is killed or gives up leaves chain and files as they are.
LEMMA EndingIsOK == ASSUME BroadcastInv, TimeOut \/ Crash PROVE BroadcastInv'
<1>1. /\ UNCHANGED <<plan, chain, pending, journal, manifest, signer>> /\ Stop
      /\ wrong' \in {[wrong EXCEPT !.orphans = @ + 1], [wrong EXCEPT !.crashes = @ + 1]}
  BY DEF TimeOut, Crash, ledger, files
<1>2. /\ WrongOK(wrong') /\ wrong'.foreign = wrong.foreign /\ wrong'.reorgs = wrong.reorgs
  BY <1>1, OtherCounters DEF BroadcastInv
<1> QED BY <1>1, <1>2, RestKept, StopIsOK DEF BroadcastInv

-----------------------------------------------------------------------------
(* The manifest. *)

\* It is opened by a run that has all rows.
LEMMA PublishingIsOK == ASSUME BroadcastInv, OpenManifest PROVE BroadcastInv'
<1>1. /\ Within /\ UNCHANGED journal /\ run.pc = "sending" /\ Len(run.rows) = Count
      /\ \/ manifest' = Torn /\ Goto("publishing")
         \/ Stop /\ UNCHANGED manifest
  BY DEF OpenManifest, Within, ledger, At
<1>2. CASE Stop /\ UNCHANGED manifest
  BY <1>1, <1>2, StopIsOK, WithinKeeps
<1>3. CASE manifest' = Torn /\ Goto("publishing")
  <2>1. run'.pc = "publishing" /\ run'.rows = run.rows /\ DOMAIN run' = {"pc", "rows"}
    BY <1>3 DEF Goto, BroadcastInv, RunOK
  <2>2. UNCHANGED <<plan, chain, wrong>>
    BY <1>1 DEF Within, ledger
  <2>3. Count' = Count
    BY <2>2 DEF Count, Plan
  <2>4. RunOK'
    BY <1>1, <2>1, <2>2, <2>3 DEF BroadcastInv, RunOK, Compared
  <2>5. ManifestOK'
    BY <1>3 DEF ManifestOK
  <2> QED BY <1>1, <2>4, <2>5, WithinKeeps
<1> QED BY <1>1, <1>2, <1>3

\* What is written to it are the rows the run compared.
LEMMA PublishedIsOK == ASSUME BroadcastInv, FillManifest PROVE BroadcastInv'
<1>1. /\ Within /\ UNCHANGED journal /\ Stop /\ run.pc = "publishing"
      /\ manifest' = [kind |-> "manifest", rows |-> run.rows, seen |-> wrong.seen,
                      reorgs |-> wrong.reorgs]
  BY DEF FillManifest, Within, ledger, At
<1>2. UNCHANGED <<plan, chain, wrong>> /\ Count' = Count
  BY <1>1 DEF Within, ledger, Count, Plan
<1>3. /\ manifest'.kind = "manifest" /\ manifest'.rows = run.rows
      /\ manifest'.reorgs = wrong.reorgs
  BY <1>1
<1>4. manifest'.seen = wrong.seen
  BY <1>1
<1>5. InOrder(run.rows) /\ Len(run.rows) = Count
  BY <1>1 DEF BroadcastInv, RunOK
<1>6. ~wrong.seen => RowsTrue(chain, plan, run.rows)
  BY <1>1 DEF BroadcastInv, RunOK, Compared
<1>7. wrong.reorgs \in Nat /\ wrong.reorgs <= wrong.reorgs
  BY DEF BroadcastInv, WrongOK
<1>8. ManifestOK'
  BY <1>2, <1>3, <1>4, <1>5, <1>6, <1>7 DEF ManifestOK
<1> QED BY <1>1, <1>8, StopIsOK, WithinKeeps

-----------------------------------------------------------------------------
(* The signer. *)

\* The two clients of one invocation: the same account, or a keystore left closed.
LEMMA SameAccount ==
    ASSUME NEW options, NEW at, NEW network, NEW rpc, NEW legacy
    PROVE  LET clients == CreateExecutionClients(options, at, network, rpc, legacy)
               forge == ForgeSignerForExternalProcess(options, at, network, rpc, legacy)
           IN  forge # NoSigner => \/ clients = forge
                                   \/ clients = NoSigner /\ forge.kind = "keystore"
<1> DEFINE clients == CreateExecutionClients(options, at, network, rpc, legacy)
           forge == ForgeSignerForExternalProcess(options, at, network, rpc, legacy)
<1>1. CASE ~OneSource(options, at.env)
  BY <1>1 DEF ForgeSignerForExternalProcess
<1>2. CASE OneSource(options, at.env) /\ Source(options) = "keystore"
  <2> DEFINE file == options.keystore
             password == IF options.passwordFile # NoValue THEN ReadPasswordFile(options.passwordFile)
                         ELSE PromptHidden(at.terminal)
             key == DecryptKeystoreV3(file, password)
             declared == AddressFromKeystore(file)
  <2>1. clients = Outcome("keystore", key)
    BY <1>2 DEF CreateExecutionClients, LoadKeystoreAccount
  <2>2. forge = NoSigner \/ forge = Outcome("keystore", declared)
    BY <1>2 DEF ForgeSignerForExternalProcess
  <2>3. key = Refused \/ (DeclaresItsKey(file) /\ key = file.crypto.key)
    BY DEF DecryptKeystoreV3
  <2>4. declared = Refused \/ (file.address # NoValue /\ declared = file.address.of)
    BY DEF AddressFromKeystore
  <2>5. Outcome("keystore", Refused) = NoSigner
    BY DEF Outcome
  <2>6. CASE key = Refused \/ declared = Refused
    <3>1. declared = Refused => forge = NoSigner
      BY <2>2, <2>5
    <3>2. key = Refused => clients = NoSigner
      BY <2>1, <2>5
    <3>3. forge = Outcome("keystore", declared) /\ declared # Refused => forge.kind = "keystore"
      BY DEF Outcome, SignedAs
    <3> QED BY <2>2, <2>6, <3>1, <3>2, <3>3
  <2>7. CASE key # Refused /\ declared # Refused
    BY <2>1, <2>2, <2>3, <2>4, <2>7 DEF DeclaresItsKey
  <2> QED BY <2>6, <2>7
<1>3. CASE OneSource(options, at.env) /\ Source(options) # "keystore"
  BY <1>3 DEF CreateExecutionClients, ForgeSignerForExternalProcess
<1> QED BY <1>1, <1>2, <1>3

\* So it is of every start.
LEMMA StartedAgree ==
    ASSUME NEW p, NEW invocation
    PROVE  LET s == Started(p, invocation)
           IN  s.forge # NoSigner => \/ s.clients = s.forge
                                     \/ s.clients = NoSigner /\ s.forge.kind = "keystore"
<1> DEFINE clients == CreateExecutionClients(invocation.options, invocation.at, Network(p),
                                             invocation.rpc, NoValue)
           forge == ForgeSignerForExternalProcess(invocation.options, invocation.at, Network(p),
                                                  invocation.rpc, NoValue)
<1>1. forge # NoSigner => clients = forge \/ (clients = NoSigner /\ forge.kind = "keystore")
  BY SameAccount
<1>2. Started(p, invocation).clients = clients /\ Started(p, invocation).forge = forge
  BY DEF Started, ConfigureSignerOptions
<1> QED BY <1>1, <1>2

-----------------------------------------------------------------------------
(* The plan. *)

\* Whose transactions they are, on which chain, and at which nonces.
Consecutive(txs, from, chainId, first) ==
    /\ Listing(txs)
    /\ \A i \in DOMAIN txs : /\ txs[i].from = from /\ txs[i].chainId = chainId
                             /\ txs[i].nonce = first + i - 1

\* A part that begins where the other ends goes on from it.
LEMMA Joined ==
    ASSUME NEW s, NEW t, NEW from, NEW chainId, NEW first \in Nat,
           Consecutive(s, from, chainId, first), Consecutive(t, from, chainId, first + Len(s))
    PROVE  Consecutive(s \o t, from, chainId, first)
<1>1. PICK S, T : s \in Seq(S) /\ t \in Seq(T)
  BY DEF Consecutive, Listing
<1>2. s \in Seq(S \cup T) /\ t \in Seq(S \cup T)
  BY <1>1
<1>3. /\ s \o t \in Seq(S \cup T) /\ Len(s) \in Nat /\ Len(t) \in Nat
      /\ Len(s \o t) = Len(s) + Len(t)
      /\ DOMAIN (s \o t) = 1..(Len(s) + Len(t))
      /\ \A i \in 1..(Len(s) + Len(t)) : (s \o t)[i] = IF i <= Len(s) THEN s[i] ELSE t[i - Len(s)]
  BY <1>2
<1>4. ASSUME NEW i \in DOMAIN (s \o t)
      PROVE  /\ (s \o t)[i].from = from /\ (s \o t)[i].chainId = chainId
             /\ (s \o t)[i].nonce = first + i - 1
  <2>1. CASE i <= Len(s)
    <3>1. i \in DOMAIN s /\ (s \o t)[i] = s[i]
      BY <1>2, <1>3, <2>1
    <3> QED BY <3>1 DEF Consecutive
  <2>2. CASE ~(i <= Len(s))
    <3>1. i - Len(s) \in DOMAIN t /\ (s \o t)[i] = t[i - Len(s)]
      BY <1>2, <1>3, <2>2
    <3>2. t[i - Len(s)].nonce = (first + Len(s)) + (i - Len(s)) - 1
      BY <3>1 DEF Consecutive
    <3>3. t[i - Len(s)].nonce = first + i - 1
      BY <1>3, <3>2
    <3> QED BY <3>1, <3>3 DEF Consecutive
  <2> QED BY <2>1, <2>2
<1> QED BY <1>3, <1>4 DEF Consecutive, Listing

\* What is defined on the first numbers is a sequence.
LEMMA Listed ==
    ASSUME NEW f, NEW n \in Nat, f = [i \in 1..n |-> f[i]]
    PROVE  Listing(f) /\ Len(f) = n
<1> DEFINE S == {f[i] : i \in 1..n}
<1>1. f \in [1..n -> S]
  OBVIOUS
<1> HIDE DEF S
<1>2. f \in Seq(S)
  BY <1>1
<1>3. Len(f) = n
  BY <1>1, <1>2
<1> QED BY <1>2, <1>3 DEF Listing

\* The creations are numbered from their first nonce.
LEMMA CreationsAre ==
    ASSUME NEW c, NEW names, Listing(names), NEW first \in Nat
    PROVE  /\ Consecutive(Creations(c, names, first), c.deployer, c.chainId, first)
           /\ Len(Creations(c, names, first)) = Len(names)
<1> DEFINE txs == Creations(c, names, first)
<1>1. Len(names) \in Nat
  BY Numbered
<1>2. /\ DOMAIN txs = 1..Len(names)
      /\ \A i \in 1..Len(names) : txs[i] = Transaction(c, names[i], first + i - 1, TRUE)
  BY DEF Creations
<1>3. txs = [i \in 1..Len(names) |-> txs[i]]
  BY DEF Creations
<1> HIDE DEF txs
<1>4. Listing(txs) /\ Len(txs) = Len(names)
  BY <1>1, <1>3, Listed
<1> QED BY <1>2, <1>4 DEF Consecutive, Transaction, txs

\* The protocol's creations and the calls behind them.
LEMMA DeploymentIs ==
    ASSUME NEW c, c.startNonce \in Nat
    PROVE  Consecutive(PrepareDeployment(c), c.deployer, c.chainId, c.startNonce)
<1> DEFINE firstCall == c.startNonce + Len(Deployed)
           calls == [i \in 1..Len(Called(c)) |->
                        Transaction(c, Called(c)[i], firstCall + i - 1, FALSE)]
<1>1. Listing(Deployed) /\ Listing(Called(c))
  <2> DEFINE Names == {"deploy hook", "bind execution hook", "bind liquidity hook",
                       "configure policy", "initialize pool", "transfer governance"}
             always == << "deploy hook", "bind execution hook", "bind liquidity hook",
                          "configure policy", "initialize pool" >>
             handover == IF c.admin # c.deployer THEN << "transfer governance" >> ELSE << >>
  <2>1. Deployed \in Seq({Deployed[i] : i \in 1..7})
    BY DEF Deployed
  <2>2. always \in Seq(Names) /\ handover \in Seq(Names)
    <3>1. always \in Seq(Names) /\ << "transfer governance" >> \in Seq(Names) /\ << >> \in Seq(Names)
      OBVIOUS
    <3>2. handover = << "transfer governance" >> \/ handover = << >>
      OBVIOUS
    <3> HIDE DEF handover
    <3> QED BY <3>1, <3>2
  <2>3. Called(c) = always \o handover
    BY DEF Called
  <2> HIDE DEF Names, always, handover
  <2>4. Called(c) \in Seq(Names)
    BY <2>2, <2>3
  <2> QED BY <2>1, <2>4 DEF Listing
<1>2. Len(Deployed) \in Nat /\ Len(Called(c)) \in Nat
  BY <1>1, Numbered
<1>3. /\ Consecutive(Creations(c, Deployed, c.startNonce), c.deployer, c.chainId, c.startNonce)
      /\ Len(Creations(c, Deployed, c.startNonce)) = Len(Deployed)
  BY <1>1, CreationsAre
<1>4. Consecutive(calls, c.deployer, c.chainId, firstCall)
  <2>1. calls = [i \in 1..Len(Called(c)) |-> calls[i]]
    OBVIOUS
  <2>2. \A i \in 1..Len(Called(c)) :
           calls[i] = Transaction(c, Called(c)[i], firstCall + i - 1, FALSE)
    OBVIOUS
  <2>3. DOMAIN calls = 1..Len(Called(c))
    OBVIOUS
  <2> HIDE DEF calls
  <2>4. Listing(calls)
    BY <1>2, <2>1, Listed
  <2> QED BY <2>2, <2>3, <2>4 DEF Consecutive, Transaction
<1> HIDE DEF calls, firstCall
<1>5. Consecutive(Creations(c, Deployed, c.startNonce) \o calls, c.deployer, c.chainId, c.startNonce)
  BY <1>3, <1>4, Joined DEF firstCall
<1> QED BY <1>5 DEF PrepareDeployment, calls, firstCall

\* A plan that a broadcaster accepts is its deployer's, for its chain, at consecutive
\* nonces: what the one nonce looked at before sending stands for
\* (prepare-deployment.mjs, prepare-base-sepolia.mjs, broadcast-deployment.mjs:35).
THEOREM PlansAreConsecutive ==
    ASSUME NEW name \in AcceptablePlans
    PROVE  LET p == PlanFile[name]
           IN  Consecutive(p.transactions, Deployer(p), Network(p).id,
                           IF p.script = "mixed" THEN p.config.startNonce
                           ELSE p.dependencies.startNonce)
<1> DEFINE p == PlanFile[name]
<1>1. PlanAcceptable(p)
  BY DEF AcceptablePlans
<1>2. CASE p.script = "mixed"
  <2>1. p.transactions = PrepareDeployment(p.config) /\ p.config.startNonce \in Nat
    BY <1>1, <1>2 DEF PlanAcceptable, Regenerated, ValidDeploymentConfig
  <2>2. Deployer(p) = p.config.deployer /\ Network(p).id = p.config.chainId
    BY <1>2 DEF Deployer, Network
  <2> QED BY <1>2, <2>1, <2>2, DeploymentIs
<1>3. CASE p.script # "mixed"
  <2> DEFINE c == PilotProtocolConfig(p.config, p.dependencies)
             first == p.dependencies.startNonce
             names == PilotAssets(p.config)
  <2>1. p.transactions = Creations(c, names, first) \o PrepareDeployment(c) /\ first \in Nat
    BY <1>1, <1>3 DEF PlanAcceptable, Regenerated, ValidPilotPlan, PreparePilotDeployment
  <2>2. Deployer(p) = p.config.roles.deployer /\ Network(p).id = 84532
    BY <1>3 DEF Deployer, Network
  <2>3. /\ c.deployer = p.config.roles.deployer /\ c.chainId = 84532
        /\ c.startNonce = first + Len(names)
    BY DEF PilotProtocolConfig
  <2>4. Listing(names)
    <3> DEFINE Names == {"PilotAsset A", "PilotAsset B", "PilotCNFIssuer"}
               assets == << "PilotAsset A", "PilotAsset B" >>
               issuer == IF p.config.policy.mode = "CNF_ONLY" THEN << "PilotCNFIssuer" >> ELSE << >>
    <3>1. assets \in Seq(Names) /\ issuer \in Seq(Names)
      <4>1. assets \in Seq(Names) /\ << "PilotCNFIssuer" >> \in Seq(Names) /\ << >> \in Seq(Names)
        OBVIOUS
      <4>2. issuer = << "PilotCNFIssuer" >> \/ issuer = << >>
        OBVIOUS
      <4> HIDE DEF issuer
      <4> QED BY <4>1, <4>2
    <3>2. names = assets \o issuer
      BY DEF PilotAssets
    <3> HIDE DEF Names, assets, issuer, names
    <3>3. names \in Seq(Names)
      BY <3>1, <3>2
    <3> QED BY <3>3 DEF Listing
  <2>5. Len(names) \in Nat
    BY <2>4, Numbered
  <2> HIDE DEF c, names
  <2>6. /\ Consecutive(Creations(c, names, first), c.deployer, c.chainId, first)
        /\ Len(Creations(c, names, first)) = Len(names)
    BY <2>1, <2>4, CreationsAre
  <2>7. Consecutive(PrepareDeployment(c), c.deployer, c.chainId, first + Len(names))
    BY <2>1, <2>3, <2>5, DeploymentIs
  <2>8. Consecutive(Creations(c, names, first) \o PrepareDeployment(c), c.deployer, c.chainId, first)
    BY <2>1, <2>6, <2>7, Joined
  <2> QED BY <1>3, <2>1, <2>2, <2>3, <2>8
<1> QED BY <1>2, <1>3

-----------------------------------------------------------------------------
(* Theorems. *)

\* At first there are no files and no run.
LEMMA BroadcastStart == ASSUME Init PROVE BroadcastInv
<1>1. /\ plan \in DOMAIN Reviewed /\ pending = <<>> /\ journal = Absent /\ manifest = Absent
      /\ run = Off /\ signer = Unsigned /\ wrong = NothingWrong
      /\ chain = [k \in 1..StartNonce |-> [tx |-> Foreign, block |-> 0, status |-> "success"]]
  BY DEF Init
<1>2. /\ DOMAIN wrong = {"foreign", "reorgs", "reverts", "crashes", "orphans", "preconfirmed", "seen"}
      /\ wrong.foreign = 0 /\ wrong.reorgs = 0
  BY <1>1 DEF NothingWrong
<1>3. ~wrong.seen
  BY <1>1 DEF NothingWrong
<1>4. WrongOK(wrong)
  BY <1>2, <1>3 DEF WrongOK
<1>5. Listing(chain)
  <2> DEFINE b == [tx |-> Foreign, block |-> 0, status |-> "success"]
  <2>1. chain = [k \in 1..StartNonce |-> b] /\ StartNonce \in Nat
    BY <1>1, BroadcastAssumption
  <2> HIDE DEF b
  <2>2. chain \in Seq({b})
    BY <2>1
  <2> QED BY <2>2 DEF Listing
<1>6. Listing(<<>>)
  <2>1. <<>> \in Seq({})
    OBVIOUS
  <2> QED BY <2>1 DEF Listing
<1>7. /\ run.pc = "off" /\ run.rows = <<>> /\ DOMAIN run = {"pc", "rows"}
  BY <1>1 DEF Off
<1>8. RunOK
  BY <1>6, <1>7 DEF RunOK, Compared, InOrder
<1> QED BY <1>1, <1>4, <1>5, <1>6, <1>8 DEF BroadcastInv, JournalOK, ManifestOK, SignerOK

\* The rows of the journal, the run and the manifest are the plan's transactions in
\* their order, and what a run compared or wrote of them is so until a block is
\* reorganised or a nonce taken (broadcast-deployment.mjs:33-54).
THEOREM BroadcastInvariant == Spec => []BroadcastInv
<1>1. Init => BroadcastInv
  BY BroadcastStart
<1>2. BroadcastInv /\ [Next]_vars => BroadcastInv'
  <2> SUFFICES ASSUME BroadcastInv, [Next]_vars PROVE BroadcastInv'
    OBVIOUS
  <2>1. CASE Start
    BY <2>1, StartIsOK
  <2>2. CASE Outside
    BY <2>2, MiningIsOK, UsingIsOK, ReorgIsOK DEF Outside
  <2>3. CASE ReadJournal \/ CheckRows \/ ReconcileRows \/ RewriteJournal \/ CheckNonce
    BY <2>3, ReadingIsOK, CheckingIsOK, ReconcilingIsOK, WritingIsOK, CountingIsOK
  <2>4. CASE Send \/ AwaitReceipt \/ TimeOut \/ Crash
    BY <2>4, SendingIsOK, AwaitingIsOK, EndingIsOK
  <2>5. CASE OpenJournal \/ FillJournal \/ OpenManifest \/ FillManifest
    BY <2>5, OpeningIsOK, WritingIsOK, PublishingIsOK, PublishedIsOK
  <2>6. CASE UNCHANGED vars
    <3>1. /\ UNCHANGED <<plan, chain, pending, journal, manifest, run, signer, wrong>>
      BY <2>6 DEF vars
    <3> QED BY <3>1 DEF BroadcastInv, JournalOK, RunOK, ManifestOK, SignerOK, NextTx, Tx, Count, Plan
  <2> QED BY <2>1, <2>2, <2>3, <2>4, <2>5, <2>6 DEF Next, Step
<1> QED BY <1>1, <1>2, PTL DEF Spec

\* The journal has no gap and, while no block was reorganised and no nonce taken, each of
\* its rows was mined with success in the block it names, or was named before it had one
\* (broadcast-deployment.mjs:43-47, broadcast-base-sepolia.mjs:22-29).
THEOREM JournalIsRight == Spec => []JournalIsTrue
<1>1. BroadcastInv => JournalIsTrue
  <2> SUFFICES ASSUME BroadcastInv, journal.kind = "journal"
               PROVE  /\ \A i \in DOMAIN journal.rows : journal.rows[i].tx = i
                      /\ wrong.reorgs = 0 /\ wrong.foreign = 0 =>
                           \A i \in DOMAIN journal.rows :
                              \/ RowStands(journal.rows[i])
                              \/ Mixed /\ journal.rows[i].block = Zero
    BY DEF JournalIsTrue
  <2>1. journal \notin {Absent, Torn}
    BY DEF Absent, Torn
  <2>2. /\ InOrder(journal.rows)
        /\ wrong.foreign = 0 /\ wrong.reorgs = 0 => RowsTrue(chain, plan, journal.rows)
    BY <2>1 DEF BroadcastInv, JournalOK
  <2>3. ASSUME NEW row, RowTrue(chain, plan, row)
        PROVE  RowStands(row) \/ (Mixed /\ row.block = Zero)
    <3>1. CASE Mixed /\ row.block = Zero
      BY <3>1
    <3>2. ASSUME NEW k \in DOMAIN chain, chain[k].tx = row.tx,
                 chain[k].status = "success", chain[k].block = row.block
          PROVE  RowStands(row)
      <4>1. AnswerOf(chain[k]) \in Receipts(row.tx)
        BY <3>2 DEF Receipts, Range
      <4> QED BY <3>2, <4>1 DEF RowStands, AnswerOf
    <3> QED BY <2>3, <3>1, <3>2 DEF RowTrue, Mixed, Plan
  <2> QED BY <2>2, <2>3 DEF InOrder, RowsTrue
<1> QED BY <1>1, BroadcastInvariant, PTL

\* A manifest lists a deployment that took place, unless the run that wrote it saw a block
\* reorganised or a nonce taken, or the block went afterwards
\* (broadcast-deployment.mjs:33-54).
THEOREM ManifestIsRight == Spec => []ManifestOnlyWhenDeployed
<1>1. BroadcastInv => ManifestOnlyWhenDeployed
  <2> SUFFICES ASSUME BroadcastInv, manifest.kind = "manifest", ~manifest.seen,
                      manifest.reorgs = wrong.reorgs, NEW i \in 1..Count
               PROVE  Succeeded(i) \/ (Mixed /\ manifest.rows[i].block = Zero)
    BY DEF ManifestOnlyWhenDeployed
  <2>1. manifest \notin {Absent, Torn}
    BY DEF Absent, Torn
  <2>2. /\ InOrder(manifest.rows) /\ Len(manifest.rows) = Count
        /\ RowsTrue(chain, plan, manifest.rows)
    BY <2>1 DEF BroadcastInv, ManifestOK
  <2>3. i \in DOMAIN manifest.rows /\ manifest.rows[i].tx = i
    BY <2>2, Numbered DEF InOrder
  <2> QED BY <2>2, <2>3 DEF RowsTrue, RowTrue, Succeeded, Mixed, Plan
<1> QED BY <1>1, BroadcastInvariant, PTL

\* Whatever source is selected, the two signers of one invocation are the same account if
\* both are accepted, and only a keystore that is not opened is accepted by one alone
\* (signer.ts:207-213, :297-320).
THEOREM SignersAreOne == Spec => []SignersAgree
<1>1. BroadcastInv => SignersAgree
  <2> SUFFICES ASSUME BroadcastInv, signer.forge # NoSigner
               PROVE  \/ signer.clients = signer.forge
                      \/ signer.clients = NoSigner /\ signer.forge.kind = "keystore"
    BY DEF SignersAgree
  <2>1. PICK started \in Starts[plan] : signer = [clients |-> started.clients, forge |-> started.forge]
    BY DEF BroadcastInv, SignerOK, Unsigned
  <2>2. PICK invocation \in Invocations : started = Started(PlanFile[plan], invocation)
    BY <2>1 DEF BroadcastInv, Starts, PlanFile
  <2> QED BY <2>1, <2>2, StartedAgree
<1> QED BY <1>1, BroadcastInvariant, PTL
=============================================================================

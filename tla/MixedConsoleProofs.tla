-------------------------- MODULE MixedConsoleProofs --------------------------
(***************************************************************************)
(* What the console tells of a block is so, and what it cancelled stays     *)
(* cancelled: for any manifests, files, blocks and forks, any number of      *)
(* pages, and lists of orders of any length.                                 *)
(*                                                                         *)
(* A request reads in several calls, pinned to a block number that a fork   *)
(* may give to another block.  What was read holds of the block that was    *)
(* seen as long as that block is on the chain, and once it is gone its hash *)
(* never comes back.  A transaction spends nonces with the contract that    *)
(* keeps them, and a block's spent nonces are those of the blocks before it. *)
(***************************************************************************)
EXTENDS MixedConsole, FiniteSetTheorems, TLAPS

-----------------------------------------------------------------------------
(* Sorting by hash. *)

\* Of two orders one is before the other, and then more orders are before the other.
LEMMA BeforeIsOrder ==
    ASSUME NEW orders, NEW n \in Nat, DOMAIN orders = 1..n,
           \A i \in 1..n : orders[i].hash \in Nat
    PROVE  /\ \A i \in 1..n : /\ IsFiniteSet(Before(orders, i))
                              /\ Cardinality(Before(orders, i)) \in 0..n - 1
           /\ \A i, j \in 1..n : Cardinality(Before(orders, i)) = Cardinality(Before(orders, j)) => i = j
<1>1. \A i \in 1..n : Before(orders, i) \subseteq (1..n) \ {i}
  BY DEF Before
<1>2. IsFiniteSet(1..n) /\ Cardinality(1..n) = n
  BY FS_Interval
<1>3. ASSUME NEW i \in 1..n
      PROVE  /\ IsFiniteSet(Before(orders, i))
             /\ Cardinality(Before(orders, i)) \in 0..n - 1
  <2>1. IsFiniteSet((1..n) \ {i}) /\ Cardinality((1..n) \ {i}) = n - 1
    BY <1>2, FS_RemoveElement
  <2>2. /\ IsFiniteSet(Before(orders, i))
        /\ Cardinality(Before(orders, i)) <= n - 1
    BY <1>1, <2>1, FS_Subset
  <2> QED BY <2>2, FS_CardinalityType
<1>4. ASSUME NEW i \in 1..n, NEW j \in 1..n, j \in Before(orders, i)
      PROVE  Cardinality(Before(orders, j)) < Cardinality(Before(orders, i))
  <2>1. Before(orders, j) \subseteq Before(orders, i) \ {j}
    BY <1>4 DEF Before
  <2> DEFINE I == Before(orders, i)
             J == Before(orders, j)
  <2>2. IsFiniteSet(I) /\ Cardinality(I) \in Nat /\ Cardinality(J) \in Nat
    BY <1>3
  <2>3. J \subseteq I \ {j} /\ j \in I
    BY <1>4, <2>1
  <2> HIDE DEF I, J
  <2>4. IsFiniteSet(I \ {j}) /\ Cardinality(I \ {j}) = Cardinality(I) - 1
    BY <2>2, <2>3, FS_RemoveElement
  <2>5. Cardinality(J) <= Cardinality(I \ {j})
    BY <2>3, <2>4, FS_Subset
  <2>6. Cardinality(J) < Cardinality(I)
    BY <2>2, <2>4, <2>5
  <2> QED BY <2>6 DEF I, J
<1>5. ASSUME NEW i \in 1..n, NEW j \in 1..n, i # j
      PROVE  i \in Before(orders, j) \/ j \in Before(orders, i)
  BY <1>5 DEF Before
<1>6. ASSUME NEW i \in 1..n, NEW j \in 1..n,
             Cardinality(Before(orders, i)) = Cardinality(Before(orders, j)), i # j
      PROVE  FALSE
  <2>1. /\ Cardinality(Before(orders, i)) \in 0..n - 1
        /\ Cardinality(Before(orders, j)) \in 0..n - 1
    BY <1>3
  <2> QED BY <1>4, <1>5, <1>6, <2>1
<1> QED BY <1>3, <1>6

\* Every place of the sorted orders is taken by one of them.
LEMMA SortedAreThere ==
    ASSUME NEW orders, NEW n \in Nat, DOMAIN orders = 1..n,
           \A i \in 1..n : orders[i].hash \in Nat
    PROVE  /\ DOMAIN SortedByHash(orders) = 1..n
           /\ \A k \in 1..n : \E i \in 1..n : SortedByHash(orders)[k] = orders[i]
<1>1. ASSUME NEW k \in 1..n
      PROVE  \E i \in 1..n : Cardinality(Before(orders, i)) = k - 1
  <2> SUFFICES ASSUME \A i \in 1..n : Cardinality(Before(orders, i)) # k - 1 PROVE FALSE
    OBVIOUS
  <2> DEFINE rank == [i \in 1..n |-> Cardinality(Before(orders, i))]
             others == (0..n - 1) \ {k - 1}
  <2>1. rank \in [1..n -> others]
    BY BeforeIsOrder
  <2>2. IsFiniteSet(1..n) /\ Cardinality(1..n) = n
    BY FS_Interval
  <2>3. IsFiniteSet(0..n - 1) /\ Cardinality(0..n - 1) = n
    <3>1. n - 1 \in Int /\ 0 \in Int /\ ~(0 > n - 1) /\ (n - 1) - 0 + 1 = n
      OBVIOUS
    <3> QED BY <3>1, FS_Interval
  <2>4. IsFiniteSet(others) /\ Cardinality(others) = n - 1
    <3>1. k - 1 \in 0..n - 1
      OBVIOUS
    <3> DEFINE ranks == 0..n - 1
    <3>2. IsFiniteSet(ranks) /\ Cardinality(ranks) = n /\ k - 1 \in ranks
      BY <2>3, <3>1
    <3> HIDE DEF ranks
    <3>3. IsFiniteSet(ranks \ {k - 1}) /\ Cardinality(ranks \ {k - 1}) = n - 1
      BY <3>2, FS_RemoveElement
    <3> QED BY <3>3 DEF ranks
  <2> HIDE DEF others, rank
  <2>5. \E i, j \in 1..n : i # j /\ rank[i] = rank[j]
    <3>1. Cardinality(others) < Cardinality(1..n)
      BY <2>2, <2>4
    <3> QED BY <2>1, <2>2, <2>4, <3>1, FS_PigeonHole
  <2> QED BY <2>5, BeforeIsOrder DEF rank
<1>2. ASSUME NEW k \in 1..n
      PROVE  \E i \in 1..n : SortedByHash(orders)[k] = orders[i]
  <2> DEFINE i == CHOOSE i \in DOMAIN orders : Cardinality(Before(orders, i)) = k - 1
  <2>1. i \in 1..n
    BY <1>1
  <2>2. SortedByHash(orders)[k] = orders[i]
    BY DEF SortedByHash
  <2> QED BY <2>1, <2>2
<1> QED BY <1>2 DEF SortedByHash

-----------------------------------------------------------------------------
(* The SDK's arithmetic is the contracts'. *)

\* A list of files, as it was read.
Listed(files) ==
    /\ files \in Seq({files[i] : i \in DOMAIN files})
    /\ \A i \in DOMAIN files : Parsed(files[i])

\* The rows put together by the SDK at the price of a block are the block's settlement.
LEMMA RowsAreSettled ==
    ASSUME NEW files, Listed(files), NEW b, NEW i,
           i \in DOMAIN QuoteRows(Orders(files), IsDirect(files), b.price,
                                  [j \in DOMAIN Settled(b, files) |-> Settled(b, files)[j].output])
    PROVE  LET row == QuoteRows(Orders(files), IsDirect(files), b.price,
                                [j \in DOMAIN Settled(b, files) |-> Settled(b, files)[j].output])[i]
           IN  /\ row.output = Settled(b, files)[i].output
               /\ row.matchedInput = Settled(b, files)[i].share.matchedInput
               /\ row.matchedOutput = Settled(b, files)[i].share.matchedOutput
<1> DEFINE orders == Orders(files)
           sorted == SortedByHash(orders)
           n == Len(files)
           out == [j \in DOMAIN Settled(b, files) |-> Settled(b, files)[j].output]
<1>1. /\ n \in Nat /\ DOMAIN orders = 1..n /\ DOMAIN files = 1..n
      /\ \A k \in 1..n : orders[k].hash \in Nat /\ orders[k].zeroForOne \in BOOLEAN
  BY DEF Listed, Parsed, Orders, Sides
<1> HIDE DEF orders, n
<1>2. DOMAIN sorted = 1..n /\ \A k \in 1..n : sorted[k].zeroForOne \in BOOLEAN
  BY <1>1, SortedAreThere
<1> DEFINE total == Totals(files)
           sdk == MatchingBudget(InputOf(sorted, TRUE, Len(sorted)),
                                 InputOf(sorted, FALSE, Len(sorted)), b.price)
           sol == Budget(total, b.price)
           theirs(k) == IF IsDirect(files)
                        THEN [matchedInput |-> 0, matchedOutput |-> 0, residual |-> sorted[k].amountIn]
                        ELSE AllocateMatch(sdk, sorted[k].zeroForOne,
                                           InputOf(sorted, sorted[k].zeroForOne, k - 1), sorted[k].amountIn)
           ours(k) == IF IsDirect(files)
                      THEN [matchedInput |-> 0, matchedOutput |-> 0, residual |-> sorted[k].amountIn]
                      ELSE Allocate(sol, sorted[k].zeroForOne,
                                    InputOf(sorted, sorted[k].zeroForOne, k - 1), sorted[k].amountIn)
<1>3. /\ InputOf(sorted, TRUE, Len(sorted)) = total[TRUE]
      /\ InputOf(sorted, FALSE, Len(sorted)) = total[FALSE]
  BY DEF Totals, Sides, orders
<1>4. sdk = MatchingBudget(total[TRUE], total[FALSE], b.price)
  BY <1>3
<1>5. \A k \in 1..n : theirs(k) = ours(k)
  <2> TAKE k \in 1..n
  <2>1. sorted[k].zeroForOne \in BOOLEAN
    BY <1>2
  <2> HIDE DEF sorted, sdk, total
  <2>2. AllocateMatch(sdk, sorted[k].zeroForOne,
                      InputOf(sorted, sorted[k].zeroForOne, k - 1), sorted[k].amountIn)
          = Allocate(sol, sorted[k].zeroForOne,
                     InputOf(sorted, sorted[k].zeroForOne, k - 1), sorted[k].amountIn)
    <3> DEFINE z == sorted[k].zeroForOne
               before == InputOf(sorted, sorted[k].zeroForOne, k - 1)
               amount == sorted[k].amountIn
               price == b.price
    <3>1. z \in BOOLEAN /\ sdk = MatchingBudget(total[TRUE], total[FALSE], price)
      BY <1>4, <2>1
    <3>2. /\ sdk.total0 = total[TRUE] /\ sdk.total1 = total[FALSE]
          /\ sol.total = total /\ sol.matched = Matched(total, price)
      BY <3>1 DEF MatchingBudget, Budget
    <3>3. sdk.matched0 = sol.matched[TRUE] /\ sdk.matched1 = sol.matched[FALSE]
      BY <3>1 DEF MatchingBudget, Budget, Matched, Numerator, MulDiv, Sides
    <3> HIDE DEF z, before, amount, price, sol
    <3>4. AllocateMatch(sdk, z, before, amount) = Allocate(sol, z, before, amount)
      <4>1. CASE z = TRUE
        <5>1. (~TRUE) = FALSE
          OBVIOUS
        <5>2. AllocateMatch(sdk, TRUE, before, amount)
                = LET first == (before * sdk.matched0) \div sdk.total0
                      after == ((before + amount) * sdk.matched0) \div sdk.total0
                  IN  [matchedInput |-> after - first,
                       matchedOutput |-> (after * sdk.matched1) \div sdk.matched0
                                           - (first * sdk.matched1) \div sdk.matched0,
                       residual |-> amount - (after - first)]
          BY DEF AllocateMatch
        <5>3. Allocate(sol, TRUE, before, amount)
                = LET first == (before * sol.matched[TRUE]) \div sol.total[TRUE]
                      after == ((before + amount) * sol.matched[TRUE]) \div sol.total[TRUE]
                  IN  [matchedInput |-> after - first,
                       matchedOutput |-> (after * sol.matched[FALSE]) \div sol.matched[TRUE]
                                           - (first * sol.matched[FALSE]) \div sol.matched[TRUE],
                       residual |-> amount - (after - first)]
          BY <5>1 DEF Allocate, InputShare, OutputShare, MulDiv
        <5>4. AllocateMatch(sdk, TRUE, before, amount) = Allocate(sol, TRUE, before, amount)
          BY <3>2, <3>3, <5>2, <5>3
        <5> QED BY <4>1, <5>4
      <4>2. CASE z = FALSE
        <5>1. (~FALSE) = TRUE
          OBVIOUS
        <5>2. AllocateMatch(sdk, FALSE, before, amount)
                = LET first == (before * sdk.matched1) \div sdk.total1
                      after == ((before + amount) * sdk.matched1) \div sdk.total1
                  IN  [matchedInput |-> after - first,
                       matchedOutput |-> (after * sdk.matched0) \div sdk.matched1
                                           - (first * sdk.matched0) \div sdk.matched1,
                       residual |-> amount - (after - first)]
          BY DEF AllocateMatch
        <5>3. Allocate(sol, FALSE, before, amount)
                = LET first == (before * sol.matched[FALSE]) \div sol.total[FALSE]
                      after == ((before + amount) * sol.matched[FALSE]) \div sol.total[FALSE]
                  IN  [matchedInput |-> after - first,
                       matchedOutput |-> (after * sol.matched[TRUE]) \div sol.matched[FALSE]
                                           - (first * sol.matched[TRUE]) \div sol.matched[FALSE],
                       residual |-> amount - (after - first)]
          BY <5>1 DEF Allocate, InputShare, OutputShare, MulDiv
        <5>4. AllocateMatch(sdk, FALSE, before, amount) = Allocate(sol, FALSE, before, amount)
          BY <3>2, <3>3, <5>2, <5>3
        <5> QED BY <4>2, <5>4
      <4> QED BY <3>1, <4>1, <4>2
    <3> QED BY <3>4 DEF z, before, amount, price
  <2> QED BY <2>2
<1>6. QuoteRows(orders, IsDirect(files), b.price, out)
        = [k \in DOMAIN sorted |->
             [hash |-> sorted[k].hash, matchedInput |-> theirs(k).matchedInput,
              matchedOutput |-> theirs(k).matchedOutput, residual |-> theirs(k).residual,
              output |-> out[k], ammOutput |-> out[k] - theirs(k).matchedOutput]]
  BY DEF QuoteRows
<1>7. Settled(b, files)
        = [k \in DOMAIN sorted |->
             [share |-> ours(k),
              output |-> ours(k).matchedOutput
                           + PoolOutput(b.price, sorted[k].zeroForOne, ours(k).residual)]]
  BY DEF Settled, orders
<1>8. i \in 1..n
  BY <1>2, <1>6 DEF orders
<1>9. out[i] = Settled(b, files)[i].output
  BY <1>2, <1>7, <1>8
<1>10. Settled(b, files)[i].share = ours(i) /\ theirs(i) = ours(i)
  <2> HIDE DEF theirs, ours, sorted
  <2>1. theirs(i) = ours(i)
    BY <1>5, <1>8
  <2>2. Settled(b, files)[i].share = ours(i)
    BY <1>2, <1>7, <1>8
  <2> QED BY <2>1, <2>2
<1> DEFINE row == QuoteRows(orders, IsDirect(files), b.price, out)[i]
<1>11. /\ row.matchedInput = theirs(i).matchedInput
       /\ row.matchedOutput = theirs(i).matchedOutput /\ row.output = out[i]
  <2> HIDE DEF theirs, out, sorted
  <2> QED BY <1>2, <1>6, <1>8
<1>12. /\ row.output = Settled(b, files)[i].output
       /\ row.matchedInput = Settled(b, files)[i].share.matchedInput
       /\ row.matchedOutput = Settled(b, files)[i].share.matchedOutput
  BY <1>9, <1>10, <1>11
<1> QED BY <1>12 DEF orders

-----------------------------------------------------------------------------
(* The inductive invariant. *)

\* chain is a sequence, of whatever blocks there are.
IsChain(c) == \E S : c \in Seq(S)

Proper(m, tx) ==
    \A u \in tx.uses :
        tx.contract = IF u[2] = Spaces.GRANT_ACTIVATION THEN HookGrants(m.contracts.hook)
                      ELSE m.contracts.hook

\* A chain of blocks: what was spent stays spent, and what a transaction spends was not
\* spent before it.
ChainOK(c, n) ==
    /\ IsChain(c) /\ Len(c) >= 1
    /\ \A i \in DOMAIN c :
          DOMAIN c[i] = BlockFields /\ c[i].time \in Nat /\ \E k \in 0..n : c[i].hash = <<i, k>>
    /\ \A i \in DOMAIN c : c[i].success => \A u \in c[i].tx.uses : <<c[i].tx.contract, u>> \in c[i].spent
    /\ \A i, j \in DOMAIN c : i < j =>
          /\ c[i].spent \subseteq c[j].spent
          /\ c[j].success => \A u \in c[j].tx.uses : <<c[j].tx.contract, u>> \notin c[i].spent

\* A request is pinned to the block of a number; it is intact while that block is the one
\* that was seen.
Pinned == {"nonce", "eligibility", "price", "spending", "simulation", "answered"}
AboutStatus == {"status", "nonce", "eligibility"}
AboutQuote == {"quote", "price", "spending", "simulation"}

Intact(c, s) == s.number \in DOMAIN c /\ c[s.number].hash = s.seen.hash

StatusRight(m, b, s) ==
    LET f == s.files[1]
    IN  /\ s.answer.state = "consumed-or-cancelled" <=> <<m.contracts.hook, Uses(f)>> \in b.spent
        /\ s.answer.state = "pending-authorization"
             <=> HookAccepts(m.contracts.hook, [b EXCEPT !.price = f.order.minSqrtPriceX96], f)

QuoteRight(m, b, s) ==
    LET settled == Settled(b, s.files)
        rows == s.answer.rows
    IN  /\ Settles(m.contracts.hook, b, s.files)
        /\ \A i \in DOMAIN rows :
             /\ rows[i].output = settled[i].output
             /\ rows[i].matchedInput = settled[i].share.matchedInput
             /\ rows[i].matchedOutput = settled[i].share.matchedOutput

\* What was read holds of the block.
ReadSoFar(m, b, s) ==
    /\ s.at \in {"nonce", "eligibility"} => s.seen.time = b.time
    /\ s.at = "eligibility" => (s.used <=> <<m.contracts.hook, Uses(s.files[1])>> \in b.spent)
    /\ s.at \in {"spending", "simulation"} => s.price = b.price
    /\ s.at = "answered" /\ s.answer.state # "quoted" => StatusRight(m, b, s)
    /\ s.at = "answered" /\ s.answer.state = "quoted" => QuoteRight(m, b, s)

IsPage(s) == DOMAIN s = {"at", "files", "number", "seen", "used", "price", "tx", "answer"}

\* Once the block that was seen is gone, the fork that took it has a later number than
\* every block that may ever be seen in its place.
PageOK(m, c, n, s) ==
    /\ IsPage(s)
    /\ s.at \in AboutStatus => \E f \in Files : s.files = <<f>> /\ OrderInBounds(f.order)
    /\ s.at \in AboutQuote => s.files \in Lists
    /\ s.at = "prepared" => Proper(m, s.tx)
    /\ s.at \in Pinned =>
          \E k \in 0..n : s.seen.hash = <<s.number, k>> /\ (Intact(c, s) \/ k < n)
    /\ s.at \in Pinned /\ Intact(c, s) => ReadSoFar(m, c[s.number], s)

ConsoleInv ==
    /\ forks \in Nat
    /\ serving => DeploymentMatches(manifest, World)
    /\ ChainOK(chain, forks)
    /\ \A tx \in sent : Proper(manifest, tx)
    /\ \A i \in DOMAIN chain : chain[i].success => Proper(manifest, chain[i].tx)
    /\ pages = [p \in Pages |-> pages[p]]
    /\ \A p \in Pages : PageOK(manifest, chain, forks, pages[p])
    /\ \A p \in Pages : pages[p].at # "idle" => serving

-----------------------------------------------------------------------------
(* The chain. *)

\* The blocks of a chain are numbered from the first.
LEMMA ChainIs ==
    ASSUME NEW c, IsChain(c), Len(c) >= 1
    PROVE  /\ Len(c) \in Nat /\ DOMAIN c = 1..Len(c)
           /\ Len(c) \in DOMAIN c /\ Last(c) = c[Len(c)]
BY DEF IsChain, Last

\* A block is added at the end.
LEMMA Added ==
    ASSUME NEW c, IsChain(c), NEW b
    PROVE  /\ IsChain(Append(c, b)) /\ Len(Append(c, b)) = Len(c) + 1
           /\ DOMAIN Append(c, b) = DOMAIN c \cup {Len(c) + 1}
           /\ \A i \in DOMAIN c : Append(c, b)[i] = c[i]
           /\ Append(c, b)[Len(c) + 1] = b
<1>1. PICK S : c \in Seq(S)
  BY DEF IsChain
<1>2. c \in Seq(S \cup {b}) /\ b \in S \cup {b}
  BY <1>1
<1>3. Append(c, b) \in Seq(S \cup {b})
  BY <1>2
<1>4. /\ Len(Append(c, b)) = Len(c) + 1
      /\ Append(c, b)[Len(c) + 1] = b
      /\ \A i \in 1..Len(c) : Append(c, b)[i] = c[i]
  BY <1>2
<1>5. /\ DOMAIN c = 1..Len(c) /\ Len(c) \in Nat
      /\ DOMAIN Append(c, b) = 1..(Len(c) + 1)
  BY <1>2, <1>3, <1>4
<1>6. IsChain(Append(c, b))
  BY <1>3 DEF IsChain
<1> QED BY <1>4, <1>5, <1>6

\* The last block is taken away.
LEMMA Shortened ==
    ASSUME NEW c, IsChain(c), Len(c) > 1
    PROVE  /\ IsChain(Front(c)) /\ Len(Front(c)) = Len(c) - 1
           /\ DOMAIN Front(c) = DOMAIN c \ {Len(c)}
           /\ \A i \in DOMAIN Front(c) : Front(c)[i] = c[i]
<1>1. PICK S : c \in Seq(S)
  BY DEF IsChain
<1>2. /\ Len(c) \in Nat /\ DOMAIN c = 1..Len(c)
      /\ \A i \in 1..Len(c) : c[i] \in S
  BY <1>1
<1>3. Front(c) = [i \in 1..Len(c) - 1 |-> c[i]]
  BY <1>1, <1>2 DEF Front
<1>4. Front(c) \in Seq(S) /\ Len(Front(c)) = Len(c) - 1
  BY <1>2, <1>3
<1>5. IsChain(Front(c))
  BY <1>4 DEF IsChain
<1>6. /\ DOMAIN Front(c) = 1..Len(c) - 1
      /\ \A i \in 1..Len(c) - 1 : Front(c)[i] = c[i]
  BY <1>3
<1>7. 1..Len(c) - 1 = (1..Len(c)) \ {Len(c)}
  BY <1>2
<1> QED BY <1>2, <1>4, <1>5, <1>6, <1>7

\* What a new block is: it keeps what was spent, and when a transaction succeeded in it,
\* what that spends was unspent before and is spent now.
Follows(b, last, hash) ==
    /\ DOMAIN b = BlockFields /\ b.time \in Nat /\ b.hash = hash
    /\ last.spent \subseteq b.spent
    /\ b.success => /\ b.tx \in sent
                    /\ \A u \in b.tx.uses : /\ <<b.tx.contract, u>> \notin last.spent
                                            /\ <<b.tx.contract, u>> \in b.spent

\* A mined block follows from the last one.
LEMMA MinedFollows ==
    ASSUME ConsoleInv, MineBlock
    PROVE  \E b : chain' = Append(chain, b) /\ Follows(b, chain[Len(chain)], <<Len(chain) + 1, forks>>)
<1> DEFINE last == chain[Len(chain)]
           hash == <<Len(chain) + 1, forks>>
<1>1. /\ Len(chain) \in DOMAIN chain /\ Latest = last
  BY ChainIs DEF ConsoleInv, ChainOK, Latest
<1>2. DOMAIN last = BlockFields /\ last.time \in Nat
  BY <1>1 DEF ConsoleInv, ChainOK
<1>3. PICK time \in Latest.time..MaxTime :
         LET b == [Latest EXCEPT !.hash = <<Len(chain) + 1, forks>>, !.time = time,
                                 !.tx = NoTx, !.success = FALSE]
         IN  \E next \in Changes(b) \cup {Included(b, tx) : tx \in {t \in sent : ~Mined(t)}} :
                chain' = Append(chain, next)
  BY DEF MineBlock
<1> HIDE DEF last, hash
<1> DEFINE b == [last EXCEPT !.hash = hash, !.time = time, !.tx = NoTx, !.success = FALSE]
<1>4. \E next \in Changes(b) \cup {Included(b, tx) : tx \in {t \in sent : ~Mined(t)}} :
         chain' = Append(chain, next)
  BY <1>1, <1>3 DEF hash
<1>5. time \in Nat
  BY <1>1, <1>2, <1>3, ConsoleAssumption
<1>6. /\ DOMAIN b = BlockFields /\ b.time = time /\ b.hash = hash
      /\ b.spent = last.spent /\ b.success = FALSE
  BY <1>2 DEF BlockFields
<1> HIDE DEF b
<1>7. PICK next \in Changes(b) \cup {Included(b, tx) : tx \in {t \in sent : ~Mined(t)}} :
         chain' = Append(chain, next)
  BY <1>4
<1>8. CASE next \in Changes(b)
  <2> DEFINE reviews == {[b EXCEPT !.eligible = SymDiff({x}, @)] :
                            x \in {HookGrants(Hook)} \X DOMAIN Genesis.funds}
             moves == {[b EXCEPT !.price = s] : s \in Prices}
             payments == {[b EXCEPT !.funds[u] = n] : u \in DOMAIN Genesis.funds, n \in Funds}
  <2>1. Changes(b) = reviews \cup moves \cup payments
    BY DEF Changes
  <2>2. \E f \in {"eligible", "price", "funds"} : \E v : next = [b EXCEPT ![f] = v]
    <3>1. CASE next \in reviews
      <4>1. PICK x \in {HookGrants(Hook)} \X DOMAIN Genesis.funds :
               next = [b EXCEPT !.eligible = SymDiff({x}, b.eligible)]
        BY <3>1
      <4> DEFINE v == SymDiff({x}, b.eligible)
      <4>2. next = [b EXCEPT !["eligible"] = v]
        BY <4>1
      <4> HIDE DEF v
      <4> QED BY <4>2
    <3>2. CASE next \in moves
      <4>1. PICK s \in Prices : next = [b EXCEPT !["price"] = s]
        BY <3>2
      <4> QED BY <4>1
    <3>3. CASE next \in payments
      <4>1. PICK u \in DOMAIN Genesis.funds, n \in Funds : next = [b EXCEPT !.funds[u] = n]
        BY <3>3
      <4>2. next = [b EXCEPT !["funds"] = [b.funds EXCEPT ![u] = n]]
        BY <4>1
      <4> QED BY <4>2
    <3> HIDE DEF reviews, moves, payments
    <3> QED BY <1>8, <2>1, <3>1, <3>2, <3>3
  <2>3. /\ DOMAIN next = DOMAIN b /\ next.time = b.time /\ next.hash = b.hash
        /\ next.spent = b.spent /\ next.success = b.success
    BY <1>6, <2>2 DEF BlockFields
  <2>4. Follows(next, last, hash)
    BY <1>5, <1>6, <2>3 DEF Follows
  <2> QED BY <1>7, <2>4 DEF last, hash
<1>9. CASE next \in {Included(b, tx) : tx \in {t \in sent : ~Mined(t)}}
  <2>1. PICK tx \in sent : next = Included(b, tx)
    BY <1>9
  <2> DEFINE ok == Succeeds(tx, b)
             spends == IF ok THEN b.spent \cup {<<tx.contract, u>> : u \in tx.uses} ELSE b.spent
  <2>2. next = [b EXCEPT !.tx = tx, !.success = ok, !.spent = spends]
    BY <2>1 DEF Included
  <2>3. ok => \A u \in tx.uses : <<tx.contract, u>> \notin b.spent
    BY DEF Succeeds
  <2>4. /\ b.spent \subseteq spends
        /\ ok => \A u \in tx.uses : <<tx.contract, u>> \in spends
    OBVIOUS
  <2> HIDE DEF ok, spends
  <2>5. /\ DOMAIN next = DOMAIN b /\ next.time = b.time /\ next.hash = b.hash
        /\ next.spent = spends /\ next.success = ok /\ next.tx = tx
    BY <1>6, <2>2 DEF BlockFields
  <2>6. Follows(next, last, hash)
    BY <1>5, <1>6, <2>1, <2>3, <2>4, <2>5 DEF Follows
  <2> QED BY <1>7, <2>6 DEF last, hash
<1> QED BY <1>7, <1>8, <1>9

\* A block that follows keeps the chain a chain.
LEMMA MiningKeepsChain ==
    ASSUME ConsoleInv, NEW b, Follows(b, chain[Len(chain)], <<Len(chain) + 1, forks>>)
    PROVE  ChainOK(Append(chain, b), forks)
<1> DEFINE n == Len(chain)
           c == Append(chain, b)
<1>1. /\ IsChain(c) /\ Len(c) = n + 1 /\ n \in Nat /\ n >= 1
      /\ DOMAIN chain = 1..n /\ DOMAIN c = 1..n \cup {n + 1}
      /\ \A i \in 1..n : c[i] = chain[i]
      /\ c[n + 1] = b
  BY Added, ChainIs DEF ConsoleInv, ChainOK
<1> HIDE DEF c, n
<1>2. /\ \A i \in 1..n :
            DOMAIN c[i] = BlockFields /\ c[i].time \in Nat /\ \E k \in 0..forks : c[i].hash = <<i, k>>
      /\ \A i \in 1..n : c[i].success => \A u \in c[i].tx.uses : <<c[i].tx.contract, u>> \in c[i].spent
      /\ \A i, j \in 1..n : i < j =>
            /\ c[i].spent \subseteq c[j].spent
            /\ c[j].success => \A u \in c[j].tx.uses : <<c[j].tx.contract, u>> \notin c[i].spent
  BY <1>1 DEF ConsoleInv, ChainOK
<1>3. forks \in 0..forks
  BY DEF ConsoleInv
<1>4. Follows(b, c[n], <<n + 1, forks>>)
  BY <1>1 DEF n
<1>5. /\ DOMAIN b = BlockFields /\ b.time \in Nat /\ \E k \in 0..forks : b.hash = <<n + 1, k>>
      /\ b.success => \A u \in b.tx.uses : <<b.tx.contract, u>> \in b.spent
  BY <1>3, <1>4 DEF Follows
<1>6. \A i \in 1..n : c[i].spent \subseteq c[n].spent
  <2> TAKE i \in 1..n
  <2>1. CASE i = n
    BY <2>1
  <2>2. CASE i # n
    BY <1>1, <1>2, <2>2
  <2> QED BY <2>1, <2>2
<1>7. \A i \in 1..n : /\ c[i].spent \subseteq b.spent
                      /\ b.success => \A u \in b.tx.uses : <<b.tx.contract, u>> \notin c[i].spent
  BY <1>4, <1>6 DEF Follows
<1>8. \A i \in DOMAIN c :
          DOMAIN c[i] = BlockFields /\ c[i].time \in Nat /\ \E k \in 0..forks : c[i].hash = <<i, k>>
  BY <1>1, <1>2, <1>5
<1>9. \A i \in DOMAIN c : c[i].success => \A u \in c[i].tx.uses : <<c[i].tx.contract, u>> \in c[i].spent
  BY <1>1, <1>2, <1>5
<1>10. ASSUME NEW i \in DOMAIN c, NEW j \in DOMAIN c, i < j
       PROVE  /\ c[i].spent \subseteq c[j].spent
              /\ c[j].success => \A u \in c[j].tx.uses : <<c[j].tx.contract, u>> \notin c[i].spent
  <2>1. i \in 1..n
    BY <1>1, <1>10
  <2>2. CASE j \in 1..n
    BY <1>2, <1>10, <2>1, <2>2
  <2>3. CASE j = n + 1
    BY <1>1, <1>7, <2>1, <2>3
  <2> QED BY <1>1, <2>2, <2>3
<1>11. IsChain(c) /\ Len(c) >= 1
  BY <1>1
<1>12. ChainOK(c, forks)
  BY <1>8, <1>9, <1>10, <1>11 DEF ChainOK
<1> QED BY <1>12 DEF c

\* A chain without its last block is a chain.
LEMMA ForkingKeepsChain ==
    ASSUME ConsoleInv, Len(chain) > 1
    PROVE  ChainOK(Front(chain), forks + 1)
<1> DEFINE c == Front(chain)
<1>1. /\ IsChain(c) /\ Len(c) = Len(chain) - 1 /\ Len(chain) \in Nat
      /\ DOMAIN c \subseteq DOMAIN chain
      /\ \A i \in DOMAIN c : c[i] = chain[i]
  <2>1. IsChain(chain) /\ Len(chain) \in Nat
    BY ChainIs DEF ConsoleInv, ChainOK
  <2> QED BY <2>1, Shortened
<1>2. 0..forks \subseteq 0..(forks + 1)
  BY DEF ConsoleInv
<1> HIDE DEF c
<1>3. Len(c) >= 1
  BY <1>1
<1>4. \A i \in DOMAIN c :
          DOMAIN c[i] = BlockFields /\ c[i].time \in Nat /\ \E k \in 0..forks + 1 : c[i].hash = <<i, k>>
  BY <1>1, <1>2 DEF ConsoleInv, ChainOK
<1>5. \A i \in DOMAIN c : c[i].success => \A u \in c[i].tx.uses : <<c[i].tx.contract, u>> \in c[i].spent
  BY <1>1 DEF ConsoleInv, ChainOK
<1>6. \A i, j \in DOMAIN c : i < j =>
          /\ c[i].spent \subseteq c[j].spent
          /\ c[j].success => \A u \in c[j].tx.uses : <<c[j].tx.contract, u>> \notin c[i].spent
  BY <1>1 DEF ConsoleInv, ChainOK
<1>7. ChainOK(c, forks + 1)
  BY <1>1, <1>3, <1>4, <1>5, <1>6 DEF ChainOK
<1> QED BY <1>7 DEF c

-----------------------------------------------------------------------------
(* Pages while the chain moves. *)

\* The chain grows: the new block's hash is of the latest fork, and a block that was
\* seen and is gone was of an earlier one.
LEMMA GrowingKeepsPage ==
    ASSUME NEW m, NEW c, NEW n \in Nat, NEW s, NEW d, PageOK(m, c, n, s),
           \A i \in DOMAIN c : i \in DOMAIN d /\ d[i] = c[i],
           \A i \in DOMAIN d \ DOMAIN c : d[i].hash = <<i, n>>
    PROVE  PageOK(m, d, n, s)
<1>1. ASSUME s.at \in Pinned
      PROVE  /\ \E k \in 0..n : s.seen.hash = <<s.number, k>> /\ (Intact(d, s) \/ k < n)
             /\ Intact(d, s) => ReadSoFar(m, d[s.number], s)
  <2>1. PICK k \in 0..n : s.seen.hash = <<s.number, k>> /\ (Intact(c, s) \/ k < n)
    BY <1>1 DEF PageOK
  <2>2. Intact(c, s) => Intact(d, s) /\ d[s.number] = c[s.number]
    BY DEF Intact
  <2>3. Intact(d, s) => Intact(c, s)
    <3> SUFFICES ASSUME Intact(d, s), ~Intact(c, s) PROVE FALSE
      OBVIOUS
    <3>1. s.number \in DOMAIN d /\ d[s.number].hash = s.seen.hash /\ k < n
      BY <2>1 DEF Intact
    <3>2. s.number \notin DOMAIN c
      BY <3>1 DEF Intact
    <3>3. <<s.number, k>> = <<s.number, n>>
      BY <2>1, <3>1, <3>2
    <3> QED BY <3>1, <3>3
  <2> QED BY <1>1, <2>1, <2>2, <2>3 DEF PageOK
<1> QED BY <1>1 DEF PageOK

\* A fork: whatever was seen is of an earlier fork than the next block.
LEMMA ForkingKeepsPage ==
    ASSUME NEW m, NEW c, NEW n \in Nat, NEW s, NEW d, PageOK(m, c, n, s),
           \A i \in DOMAIN d : i \in DOMAIN c /\ d[i] = c[i]
    PROVE  PageOK(m, d, n + 1, s)
<1>1. ASSUME s.at \in Pinned
      PROVE  /\ \E k \in 0..n + 1 : s.seen.hash = <<s.number, k>> /\ (Intact(d, s) \/ k < n + 1)
             /\ Intact(d, s) => ReadSoFar(m, d[s.number], s)
  <2>1. PICK k \in 0..n : s.seen.hash = <<s.number, k>>
    BY <1>1 DEF PageOK
  <2>2. k \in 0..n + 1 /\ k < n + 1
    OBVIOUS
  <2>3. Intact(d, s) => Intact(c, s) /\ d[s.number] = c[s.number]
    BY DEF Intact
  <2> QED BY <1>1, <2>1, <2>2, <2>3 DEF PageOK
<1> QED BY <1>1 DEF PageOK

\* A block is mined.
LEMMA MiningKeepsInv ==
    ASSUME ConsoleInv, MineBlock
    PROVE  ConsoleInv'
<1>1. UNCHANGED <<manifest, serving, forks, sent, pages>>
  BY DEF MineBlock
<1>2. PICK b : chain' = Append(chain, b) /\ Follows(b, chain[Len(chain)], <<Len(chain) + 1, forks>>)
  BY MinedFollows
<1>3. ChainOK(chain', forks)
  BY <1>2, MiningKeepsChain
<1>4. /\ DOMAIN chain' = DOMAIN chain \cup {Len(chain) + 1}
      /\ \A i \in DOMAIN chain : chain'[i] = chain[i]
      /\ chain'[Len(chain) + 1] = b
  BY <1>2, Added DEF ConsoleInv, ChainOK
<1>5. \A i \in DOMAIN chain' : chain'[i].success => Proper(manifest, chain'[i].tx)
  BY <1>2, <1>4 DEF ConsoleInv, Follows
<1>6. \A i \in DOMAIN chain' \ DOMAIN chain : chain'[i].hash = <<i, forks>>
  BY <1>2, <1>4 DEF Follows
<1>7. \A p \in Pages : PageOK(manifest, chain', forks, pages[p])
  <2> TAKE p \in Pages
  <2>1. PageOK(manifest, chain, forks, pages[p]) /\ forks \in Nat
    BY DEF ConsoleInv
  <2>2. \A i \in DOMAIN chain : i \in DOMAIN chain' /\ chain'[i] = chain[i]
    BY <1>4
  <2> QED BY <1>6, <2>1, <2>2, GrowingKeepsPage
<1> QED BY <1>1, <1>3, <1>5, <1>7 DEF ConsoleInv

\* The last block is taken away.
LEMMA ForkingKeepsInv ==
    ASSUME ConsoleInv, Fork
    PROVE  ConsoleInv'
<1>1. /\ UNCHANGED <<manifest, serving, sent, pages>> /\ forks' = forks + 1 /\ forks \in Nat
      /\ chain' = Front(chain) /\ Len(chain) > 1
  BY DEF Fork, ConsoleInv
<1>2. ChainOK(chain', forks')
  BY <1>1, ForkingKeepsChain
<1>3. \A i \in DOMAIN chain' : i \in DOMAIN chain /\ chain'[i] = chain[i]
  <2>1. IsChain(chain)
    BY DEF ConsoleInv, ChainOK
  <2> QED BY <1>1, <2>1, Shortened
<1>4. \A i \in DOMAIN chain' : chain'[i].success => Proper(manifest, chain'[i].tx)
  BY <1>3 DEF ConsoleInv
<1>5. \A p \in Pages : PageOK(manifest, chain', forks', pages[p])
  <2> TAKE p \in Pages
  <2>1. PageOK(manifest, chain, forks, pages[p])
    BY DEF ConsoleInv
  <2> QED BY <1>1, <1>3, <2>1, ForkingKeepsPage
<1> QED BY <1>1, <1>2, <1>4, <1>5 DEF ConsoleInv

-----------------------------------------------------------------------------
(* Pages that go on. *)

\* A page goes on, and the chain stands still.
LEMMA PageGoesOn ==
    ASSUME ConsoleInv, NEW p \in Pages, NEW s, pages' = [pages EXCEPT ![p] = s],
           UNCHANGED <<manifest, serving, chain, forks>>,
           \A tx \in sent' : Proper(manifest, tx),
           PageOK(manifest, chain, forks, s), s.at # "idle" => serving
    PROVE  ConsoleInv'
<1>1. pages' = [q \in Pages |-> IF q = p THEN s ELSE pages[q]]
  BY DEF ConsoleInv
<1>2. pages' = [q \in Pages |-> pages'[q]]
  BY <1>1
<1>3. \A q \in Pages : /\ PageOK(manifest, chain, forks, pages'[q])
                       /\ pages'[q].at # "idle" => serving
  BY <1>1 DEF ConsoleInv
<1> QED BY <1>2, <1>3 DEF ConsoleInv

\* A page goes back to the start.
LEMMA IdleIsOK ==
    ASSUME NEW m, NEW c, NEW n
    PROVE  PageOK(m, c, n, Idle) /\ Idle.at = "idle"
BY DEF PageOK, IsPage, Idle, AboutStatus, AboutQuote, Pinned

\* A request begins.
LEMMA AskingKeepsInv ==
    ASSUME ConsoleInv, NEW p \in Pages,
           \/ \E f \in Files : AskStatus(p, f)
           \/ \E files \in Lists : AskQuote(p, files)
    PROVE  ConsoleInv'
<1>0. \E at \in {"status", "quote"} : \E files :
         /\ Asks(p, at, files)
         /\ at = "status" => \E f \in Files : files = <<f>> /\ OrderInBounds(f.order)
         /\ at = "quote" => files \in Lists
  <2>1. CASE \E f \in Files : AskStatus(p, f)
    <3>1. PICK f \in Files : AskStatus(p, f)
      BY <2>1
    <3>2. DOMAIN <<f>> = 1..1 /\ <<f>>[1] = f
      OBVIOUS
    <3> DEFINE files == <<f>>
    <3>3. FilesAccepted(files, manifest) /\ Asks(p, "status", files)
      BY <3>1 DEF AskStatus
    <3>4. 1 \in DOMAIN files /\ files[1] = f
      BY <3>2
    <3> HIDE DEF files
    <3>5. OrderInBounds(files[1].order)
      BY <3>3, <3>4 DEF FilesAccepted
    <3>6. OrderInBounds(f.order) /\ Asks(p, "status", <<f>>)
      BY <3>3, <3>4, <3>5 DEF files
    <3> QED BY <3>6
  <2>2. CASE \E files \in Lists : AskQuote(p, files)
    BY <2>2 DEF AskQuote
  <2> QED BY <2>1, <2>2
<1>1a. PICK at \in {"status", "quote"} : \E files :
         /\ Asks(p, at, files)
         /\ at = "status" => \E f \in Files : files = <<f>> /\ OrderInBounds(f.order)
         /\ at = "quote" => files \in Lists
  BY <1>0
<1>1. PICK files :
         /\ Asks(p, at, files)
         /\ at = "status" => \E f \in Files : files = <<f>> /\ OrderInBounds(f.order)
         /\ at = "quote" => files \in Lists
  BY <1>1a
<1> DEFINE s == [Idle EXCEPT !.at = at, !.files = files]
<1>2. /\ pages' = [pages EXCEPT ![p] = s] /\ serving
      /\ UNCHANGED <<manifest, serving, chain, forks, sent>>
  BY <1>1 DEF Asks, Becomes, ChainUnchanged
<1>3. IsPage(s) /\ s.at = at /\ s.files = files
  BY DEF IsPage, Idle
<1> HIDE DEF s
<1>4. PageOK(manifest, chain, forks, s)
  BY <1>1, <1>3 DEF PageOK, AboutStatus, AboutQuote, Pinned
<1> QED BY <1>2, <1>4, PageGoesOn DEF ConsoleInv

\* The request is pinned to the latest block.
LEMMA PinningKeepsInv ==
    ASSUME ConsoleInv, NEW p \in Pages, GetBlock(p)
    PROVE  ConsoleInv'
<1> DEFINE at == IF pages[p].at = "status" THEN "nonce" ELSE "price"
           seen == [hash |-> Latest.hash, time |-> Latest.time]
           number == Len(chain)
           s == [pages[p] EXCEPT !.at = at, !.number = number, !.seen = seen]
<1>1. /\ pages' = [pages EXCEPT ![p] = s] /\ pages[p].at \in {"status", "quote"}
      /\ UNCHANGED <<manifest, serving, chain, forks, sent>>
  BY DEF GetBlock, Becomes, ChainUnchanged
<1>2. PageOK(manifest, chain, forks, pages[p]) /\ (pages[p].at # "idle" => serving)
  BY DEF ConsoleInv
<1>3. number \in DOMAIN chain /\ Latest = chain[number]
  BY ChainIs DEF ConsoleInv, ChainOK, Latest
<1>4. \E k \in 0..forks : Latest.hash = <<number, k>>
  BY <1>3 DEF ConsoleInv, ChainOK
<1>5. seen.hash = Latest.hash /\ seen.time = Latest.time
  OBVIOUS
<1> HIDE DEF seen, number
<1>6. at \in {"nonce", "price"} /\ (at = "nonce" <=> pages[p].at = "status")
  OBVIOUS
<1> HIDE DEF at
<1>7. /\ IsPage(s) /\ s.at = at /\ s.files = pages[p].files
      /\ s.number = number /\ s.seen = seen
  BY <1>2 DEF PageOK, IsPage
<1> HIDE DEF s
<1>8. Intact(chain, s) /\ s.seen.time = chain[s.number].time
  BY <1>3, <1>5, <1>7 DEF Intact
<1>9. PageOK(manifest, chain, forks, s)
  <2>1. s.at \in AboutStatus => \E f \in Files : s.files = <<f>> /\ OrderInBounds(f.order)
    BY <1>2, <1>6, <1>7 DEF PageOK, AboutStatus
  <2>2. s.at \in AboutQuote => s.files \in Lists
    BY <1>1, <1>2, <1>6, <1>7 DEF PageOK, AboutQuote
  <2>3. \E k \in 0..forks : s.seen.hash = <<s.number, k>> /\ (Intact(chain, s) \/ k < forks)
    BY <1>4, <1>5, <1>7, <1>8
  <2>4. ReadSoFar(manifest, chain[s.number], s)
    BY <1>6, <1>7, <1>8 DEF ReadSoFar
  <2>5. s.at # "prepared"
    BY <1>6, <1>7
  <2> QED BY <1>7, <2>1, <2>2, <2>3, <2>4, <2>5 DEF PageOK
<1> QED BY <1>1, <1>2, <1>9, PageGoesOn DEF ConsoleInv

\* A read that is pinned looks at the block that was seen, or at one that will not count.
LEMMA ReadingIs ==
    ASSUME ConsoleInv, NEW p \in Pages, NEW at \in Pinned, Reads(p, at)
    PROVE  /\ IsPage(pages[p]) /\ pages[p].at = at /\ serving
           /\ PageOK(manifest, chain, forks, pages[p])
           /\ \E k \in 0..forks : /\ pages[p].seen.hash = <<pages[p].number, k>>
                                  /\ Intact(chain, pages[p]) \/ k < forks
           /\ Intact(chain, pages[p]) => ReadSoFar(manifest, chain[pages[p].number], pages[p])
           /\ DOMAIN chain[pages[p].number] = BlockFields
           /\ chain[pages[p].number].time \in Nat
<1>1. pages[p].at = at /\ pages[p].number \in DOMAIN chain /\ at # "idle"
  BY DEF Reads, Pinned
<1>2. PageOK(manifest, chain, forks, pages[p])
  BY DEF ConsoleInv
<1>3. serving
  BY <1>1 DEF ConsoleInv
<1> QED BY <1>1, <1>2, <1>3 DEF PageOK, ConsoleInv, ChainOK

\* A later state of a pinned request.
LEMMA ReadOn ==
    ASSUME ConsoleInv, NEW p \in Pages, NEW at \in Pinned, Reads(p, at), NEW s,
           pages' = [pages EXCEPT ![p] = s], UNCHANGED <<manifest, serving, chain, forks, sent>>,
           IsPage(s), s.at \in Pinned, s.number = pages[p].number, s.seen = pages[p].seen,
           s.at \in AboutStatus => at \in AboutStatus /\ s.files = pages[p].files,
           s.at \in AboutQuote => at \in AboutQuote /\ s.files = pages[p].files,
           Intact(chain, pages[p]) => ReadSoFar(manifest, chain[pages[p].number], s)
    PROVE  ConsoleInv'
<1>1. /\ PageOK(manifest, chain, forks, pages[p]) /\ pages[p].at = at /\ serving
      /\ \E k \in 0..forks : /\ pages[p].seen.hash = <<pages[p].number, k>>
                             /\ Intact(chain, pages[p]) \/ k < forks
  BY ReadingIs
<1>2. Intact(chain, s) <=> Intact(chain, pages[p])
  BY DEF Intact
<1>3. s.at # "prepared"
  BY DEF Pinned
<1>4. /\ s.at \in AboutStatus => \E f \in Files : s.files = <<f>> /\ OrderInBounds(f.order)
      /\ s.at \in AboutQuote => s.files \in Lists
  BY <1>1 DEF PageOK
<1>5. \E k \in 0..forks : s.seen.hash = <<s.number, k>> /\ (Intact(chain, s) \/ k < forks)
  BY <1>1, <1>2
<1>6. PageOK(manifest, chain, forks, s)
  BY <1>2, <1>3, <1>4, <1>5 DEF PageOK
<1> QED BY <1>1, <1>6, PageGoesOn DEF ConsoleInv

\* The nonce is looked up with the hook of the manifest.
LEMMA NonceKeepsInv ==
    ASSUME ConsoleInv, NEW p \in Pages, ReadNonce(p)
    PROVE  ConsoleInv'
<1> DEFINE used == <<manifest.contracts.hook, Uses(pages[p].files[1])>> \in AtNumber(p).spent
           s == [pages[p] EXCEPT !.at = "eligibility", !.used = used]
<1>1. /\ pages' = [pages EXCEPT ![p] = s] /\ Reads(p, "nonce")
      /\ UNCHANGED <<manifest, serving, chain, forks, sent>>
  BY DEF ReadNonce, Becomes, ChainUnchanged
<1>2. "nonce" \in Pinned /\ "nonce" \in AboutStatus
  BY DEF Pinned, AboutStatus
<1>3. /\ IsPage(pages[p]) /\ pages[p].at = "nonce"
      /\ Intact(chain, pages[p]) => ReadSoFar(manifest, chain[pages[p].number], pages[p])
  BY <1>1, <1>2, ReadingIs
<1> HIDE DEF used
<1>4. /\ IsPage(s) /\ s.at = "eligibility" /\ s.used = used
      /\ s.files = pages[p].files /\ s.number = pages[p].number /\ s.seen = pages[p].seen
  BY <1>3 DEF IsPage
<1> HIDE DEF s
<1>5. s.used <=> <<manifest.contracts.hook, Uses(s.files[1])>> \in chain[pages[p].number].spent
  BY <1>4 DEF used, AtNumber
<1>6. Intact(chain, pages[p]) => ReadSoFar(manifest, chain[pages[p].number], s)
  BY <1>3, <1>4, <1>5 DEF ReadSoFar
<1>7. s.at \in Pinned /\ s.at \notin AboutQuote
  BY <1>4 DEF Pinned, AboutQuote
<1> QED BY <1>1, <1>2, <1>4, <1>6, <1>7, ReadOn

\* The grant manager of a manifest that matches is the one its hook asks.
LEMMA GrantsMatch ==
    ASSUME NEW d, DeploymentMatches(d, World)
    PROVE  HookGrants(d.contracts.hook) = d.contracts.grantManager
<1>1. BoundAsNamed(d, World)
  BY DEF DeploymentMatches
<1> DEFINE c == <<"hook", "eligibility">>
<1>2. c \in DOMAIN Bindings(d) /\ Bindings(d)[c] = d.contracts.grantManager
  BY DEF Bindings
<1>3. World.says[d.contracts[c[1]]][c[2]] = Bindings(d)[c]
  BY <1>1, <1>2 DEF BoundAsNamed
<1>4. c[1] = "hook" /\ c[2] = "eligibility"
  OBVIOUS
<1>5. World.says[d.contracts["hook"]]["eligibility"] = d.contracts.grantManager
  BY <1>2, <1>3, <1>4
<1> QED BY <1>5 DEF HookGrants

\* What the SDK makes of its three reads is what the hook makes of the order.
LEMMA StatusIsRight ==
    ASSUME NEW m, NEW f \in Files, OrderInBounds(f.order),
           HookGrants(m.contracts.hook) = m.contracts.grantManager,
           NEW b, DOMAIN b = BlockFields, b.time \in Nat, NEW s, s.files = <<f>>,
           s.answer = [state |-> StatusOf(<<m.contracts.hook, Uses(f)>> \in b.spent, b.time,
                                          f.order.deadline,
                                          <<m.contracts.grantManager, f.order.user>> \in b.eligible)]
    PROVE  StatusRight(m, b, s) /\ s.answer.state # "quoted"
<1> DEFINE used == <<m.contracts.hook, Uses(f)>> \in b.spent
           eligible == <<m.contracts.grantManager, f.order.user>> \in b.eligible
           late == b.time > f.order.deadline
           at == [b EXCEPT !.price = f.order.minSqrtPriceX96]
<1>1. s.files[1] = f
  OBVIOUS
<1>2. /\ f.order.minSqrtPriceX96 \in Nat /\ f.order.maxSqrtPriceX96 \in Nat
      /\ f.order.deadline \in Nat
  BY ConsoleAssumption DEF Parsed
<1>3. /\ at.price = f.order.minSqrtPriceX96 /\ at.time = b.time
      /\ at.eligible = b.eligible /\ at.spent = b.spent
  BY DEF BlockFields
<1> HIDE DEF at
<1>4. HookAccepts(m.contracts.hook, at, f) <=> ~used /\ ~late /\ eligible
  BY <1>2, <1>3 DEF HookAccepts, OrderInBounds
<1>5. s.answer.state = IF used THEN "consumed-or-cancelled" ELSE IF late THEN "expired"
                       ELSE IF ~eligible THEN "ineligible" ELSE "pending-authorization"
  BY DEF StatusOf
<1> HIDE DEF late, eligible
<1>6. /\ s.answer.state = "consumed-or-cancelled" <=> used
      /\ s.answer.state = "pending-authorization" <=> ~used /\ ~late /\ eligible
      /\ s.answer.state # "quoted"
  <2> HIDE DEF used
  <2>1. CASE used
    BY <1>5, <2>1
  <2>2. CASE ~used /\ late
    BY <1>5, <2>2
  <2>3. CASE ~used /\ ~late /\ ~eligible
    BY <1>5, <2>3
  <2>4. CASE ~used /\ ~late /\ eligible
    BY <1>5, <2>4
  <2> QED BY <2>1, <2>2, <2>3, <2>4
<1>7. StatusRight(m, b, s)
  BY <1>1, <1>4, <1>6 DEF StatusRight, at
<1> QED BY <1>6, <1>7

\* The status is answered.
LEMMA StatusKeepsInv ==
    ASSUME ConsoleInv, NEW p \in Pages, ReadMixedOrderStatus(p)
    PROVE  ConsoleInv'
<1> DEFINE o == pages[p].files[1].order
           eligible == <<manifest.contracts.grantManager, o.user>> \in AtNumber(p).eligible
           answer == [state |-> StatusOf(pages[p].used, pages[p].seen.time, o.deadline, eligible)]
           s == [pages[p] EXCEPT !.at = "answered", !.used = FALSE, !.answer = answer]
<1>1. /\ pages' = [pages EXCEPT ![p] = s] /\ Reads(p, "eligibility")
      /\ UNCHANGED <<manifest, serving, chain, forks, sent>>
  BY DEF ReadMixedOrderStatus, Becomes, ChainUnchanged
<1>2. "eligibility" \in Pinned /\ "eligibility" \in AboutStatus
  BY DEF Pinned, AboutStatus
<1>3. /\ IsPage(pages[p]) /\ pages[p].at = "eligibility" /\ serving
      /\ PageOK(manifest, chain, forks, pages[p])
      /\ Intact(chain, pages[p]) => ReadSoFar(manifest, chain[pages[p].number], pages[p])
      /\ DOMAIN chain[pages[p].number] = BlockFields
      /\ chain[pages[p].number].time \in Nat
  BY <1>1, <1>2, ReadingIs
<1>4. PICK f \in Files : pages[p].files = <<f>> /\ OrderInBounds(f.order)
  BY <1>2, <1>3 DEF PageOK
<1>5. pages[p].files[1] = f
  BY <1>4
<1> HIDE DEF answer
<1>6. /\ IsPage(s) /\ s.at = "answered" /\ s.answer = answer
      /\ s.files = pages[p].files /\ s.number = pages[p].number /\ s.seen = pages[p].seen
  BY <1>3 DEF IsPage
<1> HIDE DEF s
<1>7. ASSUME Intact(chain, pages[p]) PROVE ReadSoFar(manifest, chain[pages[p].number], s)
  <2> DEFINE b == chain[pages[p].number]
  <2>1. /\ pages[p].seen.time = b.time
        /\ pages[p].used <=> <<manifest.contracts.hook, Uses(f)>> \in b.spent
    BY <1>3, <1>5, <1>7 DEF ReadSoFar
  <2>2. HookGrants(manifest.contracts.hook) = manifest.contracts.grantManager
    BY <1>3, GrantsMatch DEF ConsoleInv
  <2>3. answer = [state |-> StatusOf(<<manifest.contracts.hook, Uses(f)>> \in b.spent, b.time,
                                     f.order.deadline,
                                     <<manifest.contracts.grantManager, f.order.user>> \in b.eligible)]
    BY <1>5, <2>1 DEF answer, AtNumber, StatusOf
  <2>4. DOMAIN b = BlockFields /\ b.time \in Nat /\ s.files = <<f>>
    BY <1>3, <1>4, <1>6
  <2> HIDE DEF b
  <2>5. StatusRight(manifest, b, s) /\ s.answer.state # "quoted"
    BY <1>4, <1>6, <2>2, <2>3, <2>4, StatusIsRight
  <2> QED BY <1>6, <2>5 DEF ReadSoFar, b
<1>8. s.at \in Pinned /\ s.at \notin AboutQuote /\ s.at \notin AboutStatus
  BY <1>6 DEF Pinned, AboutQuote, AboutStatus
<1> QED BY <1>1, <1>2, <1>6, <1>7, <1>8, ReadOn

\* The price is read, and the spending looked at.
LEMMA PricingKeepsInv ==
    ASSUME ConsoleInv, NEW p \in Pages, ReadPrice(p) \/ SpendRequirements(p)
    PROVE  ConsoleInv'
<1>1. CASE ReadPrice(p)
  <2> DEFINE price == AtNumber(p).price
             s == [pages[p] EXCEPT !.at = "spending", !.price = price]
  <2>1. /\ pages' = [pages EXCEPT ![p] = s] /\ Reads(p, "price")
        /\ UNCHANGED <<manifest, serving, chain, forks, sent>>
    BY <1>1 DEF ReadPrice, Becomes, ChainUnchanged
  <2>2. "price" \in Pinned /\ "price" \in AboutQuote
    BY DEF Pinned, AboutQuote
  <2>3. IsPage(pages[p])
    BY <2>1, <2>2, ReadingIs
  <2> HIDE DEF price
  <2>4. /\ IsPage(s) /\ s.at = "spending" /\ s.price = price
        /\ s.files = pages[p].files /\ s.number = pages[p].number /\ s.seen = pages[p].seen
    BY <2>3 DEF IsPage
  <2> HIDE DEF s
  <2>5. ReadSoFar(manifest, chain[pages[p].number], s)
    BY <2>4 DEF ReadSoFar, price, AtNumber
  <2>6. s.at \in Pinned /\ s.at \notin AboutStatus
    BY <2>4 DEF Pinned, AboutStatus
  <2> QED BY <2>1, <2>2, <2>4, <2>5, <2>6, ReadOn
<1>2. CASE SpendRequirements(p) /\ Spendable(AtNumber(p), pages[p].files)
  <2> DEFINE s == [pages[p] EXCEPT !.at = "simulation"]
  <2>1. /\ pages' = [pages EXCEPT ![p] = s] /\ Reads(p, "spending")
        /\ UNCHANGED <<manifest, serving, chain, forks, sent>>
    BY <1>2 DEF SpendRequirements, Becomes, ChainUnchanged
  <2>2. "spending" \in Pinned /\ "spending" \in AboutQuote
    BY DEF Pinned, AboutQuote
  <2>3. /\ IsPage(pages[p]) /\ pages[p].at = "spending"
        /\ Intact(chain, pages[p]) => ReadSoFar(manifest, chain[pages[p].number], pages[p])
    BY <2>1, <2>2, ReadingIs
  <2>4. /\ IsPage(s) /\ s.at = "simulation" /\ s.price = pages[p].price
        /\ s.files = pages[p].files /\ s.number = pages[p].number /\ s.seen = pages[p].seen
    BY <2>3 DEF IsPage
  <2> HIDE DEF s
  <2>5. Intact(chain, pages[p]) => ReadSoFar(manifest, chain[pages[p].number], s)
    BY <2>3, <2>4 DEF ReadSoFar
  <2>6. s.at \in Pinned /\ s.at \notin AboutStatus
    BY <2>4 DEF Pinned, AboutStatus
  <2> QED BY <2>1, <2>2, <2>4, <2>5, <2>6, ReadOn
<1>3. CASE SpendRequirements(p) /\ ~Spendable(AtNumber(p), pages[p].files)
  <2>1. /\ pages' = [pages EXCEPT ![p] = Idle]
        /\ UNCHANGED <<manifest, serving, chain, forks, sent>>
    BY <1>3 DEF SpendRequirements, Becomes, ChainUnchanged
  <2> QED BY <2>1, IdleIsOK, PageGoesOn DEF ConsoleInv
<1> QED BY <1>1, <1>2, <1>3

\* The quote is answered: rows of the price and the outputs of one block.
LEMMA QuoteKeepsInv ==
    ASSUME ConsoleInv, NEW p \in Pages, QuoteMixedOrders(p)
    PROVE  ConsoleInv'
<1> DEFINE files == pages[p].files
           b == chain[pages[p].number]
           settled == Settled(AtNumber(p), files)
           rows == QuoteRows(Orders(files), IsDirect(files), pages[p].price,
                             [i \in DOMAIN settled |-> settled[i].output])
           answer == [state |-> "quoted", price |-> pages[p].price, rows |-> rows]
           s == [pages[p] EXCEPT !.at = "answered", !.price = 0, !.answer = answer]
<1>1. /\ pages' = [pages EXCEPT ![p] = s] /\ Reads(p, "simulation")
      /\ Settles(manifest.contracts.hook, AtNumber(p), files)
      /\ UNCHANGED <<manifest, serving, chain, forks, sent>>
  BY DEF QuoteMixedOrders, Becomes, ChainUnchanged, Hook
<1>2. "simulation" \in Pinned /\ "simulation" \in AboutQuote
  BY DEF Pinned, AboutQuote
<1>3. /\ IsPage(pages[p]) /\ pages[p].at = "simulation"
      /\ PageOK(manifest, chain, forks, pages[p])
      /\ Intact(chain, pages[p]) => ReadSoFar(manifest, chain[pages[p].number], pages[p])
  BY <1>1, <1>2, ReadingIs
<1>4. answer.state = "quoted" /\ answer.rows = rows
  OBVIOUS
<1> HIDE DEF answer
<1>5. /\ IsPage(s) /\ s.at = "answered" /\ s.answer = answer
      /\ s.files = files /\ s.number = pages[p].number /\ s.seen = pages[p].seen
  BY <1>3 DEF IsPage
<1> HIDE DEF s
<1>6. files \in Lists
  BY <1>2, <1>3 DEF PageOK
<1>7. Listed(files)
  BY <1>6, ConsoleAssumption DEF Listed
<1>8. ASSUME Intact(chain, pages[p]) PROVE ReadSoFar(manifest, b, s)
  <2>1. pages[p].price = b.price
    BY <1>3, <1>8 DEF ReadSoFar
  <2>2. rows = QuoteRows(Orders(files), IsDirect(files), b.price,
                         [j \in DOMAIN Settled(b, files) |-> Settled(b, files)[j].output])
    BY <2>1 DEF AtNumber
  <2> HIDE DEF rows, b, files, settled
  <2>3. \A i \in DOMAIN rows :
           /\ rows[i].output = Settled(b, files)[i].output
           /\ rows[i].matchedInput = Settled(b, files)[i].share.matchedInput
           /\ rows[i].matchedOutput = Settled(b, files)[i].share.matchedOutput
    BY <1>7, <2>2, RowsAreSettled
  <2>4. Settles(manifest.contracts.hook, b, files)
    BY <1>1 DEF b, AtNumber
  <2>5. QuoteRight(manifest, b, s)
    BY <1>4, <1>5, <2>3, <2>4 DEF QuoteRight
  <2> QED BY <1>4, <1>5, <2>5 DEF ReadSoFar
<1>9. s.at \in Pinned /\ s.at \notin AboutQuote /\ s.at \notin AboutStatus
  BY <1>5 DEF Pinned, AboutQuote, AboutStatus
<1> QED BY <1>1, <1>2, <1>5, <1>8, <1>9, ReadOn

-----------------------------------------------------------------------------
(* Transactions. *)

\* Every transaction the console prepares goes to the contract that keeps its nonces.
LEMMA PreparingKeepsInv ==
    ASSUME ConsoleInv, NEW p \in Pages, NEW tx, Prepared(p, tx), serving => Proper(manifest, tx)
    PROVE  ConsoleInv'
<1> DEFINE s == [Idle EXCEPT !.at = "prepared", !.tx = tx]
<1>1. /\ pages' = [pages EXCEPT ![p] = s] /\ serving
      /\ UNCHANGED <<manifest, serving, chain, forks, sent>>
  BY DEF Prepared, Becomes, ChainUnchanged
<1>2. IsPage(s) /\ s.at = "prepared" /\ s.tx = tx
  BY DEF IsPage, Idle
<1> HIDE DEF s
<1>3. PageOK(manifest, chain, forks, s)
  BY <1>1, <1>2 DEF PageOK, AboutStatus, AboutQuote, Pinned
<1> QED BY <1>1, <1>3, PageGoesOn DEF ConsoleInv

\* An execution spends nonces of the hook's two namespaces of orders.
LEMMA ExecutionIsProper == ASSUME NEW files PROVE Proper(manifest, Execution(files))
<1>1. \A u \in Execution(files).uses : u[2] # Spaces.GRANT_ACTIVATION
  <2> TAKE u \in Execution(files).uses
  <2>1. PICK i \in DOMAIN files : u = Uses(files[i])
    BY DEF Execution
  <2>2. u[2] = OrderSpace(files[i].kind)
    BY <2>1 DEF Uses
  <2> QED BY <2>2 DEF OrderSpace, Spaces
<1>2. Execution(files).contract = manifest.contracts.hook
  BY DEF Execution, Hook
<1> QED BY <1>1, <1>2 DEF Proper

\* An activation goes to the grant manager, an authorization of liquidity to the hook.
LEMMA AuthorizationIsProper == ASSUME NEW a PROVE Proper(manifest, Authorized(a))
<1>1. \A u \in Authorized(a).uses : u[2] = a.space
  BY DEF Authorized
<1>2. Authorized(a).contract = IF a.space = Spaces.GRANT_ACTIVATION
                               THEN HookGrants(manifest.contracts.hook) ELSE manifest.contracts.hook
  BY DEF Authorized, Hook
<1> QED BY <1>1, <1>2 DEF Proper

\* A cancellation goes to the contract that keeps the nonce.
LEMMA CancellationIsProper ==
    ASSUME ConsoleInv, serving, NEW u PROVE Proper(manifest, Cancellation(u))
<1>1. HookGrants(manifest.contracts.hook) = manifest.contracts.grantManager
  BY GrantsMatch DEF ConsoleInv
<1>2. Cancellation(u).uses = {u} /\ Cancellation(u).contract = CancelTarget(manifest, u[2])
  BY DEF Cancellation
<1> QED BY <1>1, <1>2 DEF Proper, CancelTarget

\* A transaction is sent as it was prepared; other pages go back to the start.
LEMMA SendingKeepsInv ==
    ASSUME ConsoleInv, NEW p \in Pages, SendingPage(p)
    PROVE  ConsoleInv'
<1>1. CASE \E files \in Lists : PrepareExecution(p, files)
  BY <1>1, ExecutionIsProper, PreparingKeepsInv DEF PrepareExecution
<1>2. CASE \E a \in Authorizations : PrepareAuthorization(p, a)
  BY <1>2, AuthorizationIsProper, PreparingKeepsInv DEF PrepareAuthorization
<1>3. CASE \E u \in Cancellable : PrepareCancel(p, u)
  <2>1. PICK u \in Cancellable : Prepared(p, Cancellation(u))
    BY <1>3 DEF PrepareCancel
  <2>2. serving => Proper(manifest, Cancellation(u))
    BY CancellationIsProper
  <2> QED BY <2>1, <2>2, PreparingKeepsInv
<1>4. CASE SendTransaction(p)
  <2> DEFINE s == [Idle EXCEPT !.at = "receipt"]
  <2>1. /\ pages[p].at = "prepared" /\ sent' = sent \cup {pages[p].tx}
        /\ pages' = [pages EXCEPT ![p] = s]
        /\ UNCHANGED <<manifest, serving, chain, forks>>
    BY <1>4 DEF SendTransaction, Becomes
  <2>2. Proper(manifest, pages[p].tx) /\ serving
    BY <2>1 DEF ConsoleInv, PageOK
  <2>3. \A tx \in sent' : Proper(manifest, tx)
    BY <2>1, <2>2 DEF ConsoleInv
  <2>4. IsPage(s) /\ s.at = "receipt"
    BY DEF IsPage, Idle
  <2> HIDE DEF s
  <2>5. PageOK(manifest, chain, forks, s)
    BY <2>4 DEF PageOK, AboutStatus, AboutQuote, Pinned
  <2> QED BY <2>1, <2>2, <2>3, <2>5, PageGoesOn
<1>5. CASE ShowReceipt(p) \/ Stop(p)
  <2>1. /\ pages' = [pages EXCEPT ![p] = Idle]
        /\ UNCHANGED <<manifest, serving, chain, forks, sent>>
    BY <1>5 DEF ShowReceipt, Stop, Becomes, ChainUnchanged
  <2> QED BY <2>1, IdleIsOK, PageGoesOn DEF ConsoleInv
<1> QED BY <1>1, <1>2, <1>3, <1>4, <1>5 DEF SendingPage

-----------------------------------------------------------------------------
(* Theorems. *)

\* At first there is one block and nobody has asked anything.
LEMMA ConsoleStart == ASSUME Init PROVE ConsoleInv
<1>1. /\ chain = <<Genesis>> /\ forks = 0 /\ sent = {} /\ serving = FALSE
      /\ pages = [p \in Pages |-> Idle]
  BY DEF Init
<1>2. /\ chain \in Seq({Genesis}) /\ Len(chain) = 1 /\ DOMAIN chain = {1} /\ chain[1] = Genesis
  BY <1>1
<1>3. DOMAIN Genesis = BlockFields /\ Genesis.hash = <<1, 0>> /\ Genesis.time \in Nat
  BY ConsoleAssumption
<1>4. ~Genesis.success
  BY ConsoleAssumption
<1>5. ChainOK(chain, forks)
  <2>1. IsChain(chain) /\ Len(chain) >= 1
    BY <1>2 DEF IsChain
  <2>2. 0 \in 0..forks
    BY <1>1
  <2>3. \A i \in DOMAIN chain : i = 1 /\ chain[i] = Genesis
    BY <1>2
  <2>4. \A i \in DOMAIN chain : /\ DOMAIN chain[i] = BlockFields /\ chain[i].time \in Nat
                               /\ \E k \in 0..forks : chain[i].hash = <<i, k>>
    BY <1>3, <2>2, <2>3
  <2>5. \A i \in DOMAIN chain : ~chain[i].success
    BY <1>4, <2>3
  <2>6. \A i, j \in DOMAIN chain : ~(i < j)
    BY <2>3
  <2> QED BY <2>1, <2>4, <2>5, <2>6 DEF ChainOK
<1>6. \A p \in Pages : pages[p] = Idle
  BY <1>1
<1> QED BY <1>1, <1>2, <1>4, <1>5, <1>6, IdleIsOK DEF ConsoleInv

\* What was read of a block is so, and every nonce is kept by one contract (client.ts:84-148).
THEOREM ConsoleInvariant == Spec => []ConsoleInv
<1>1. Init => ConsoleInv
  BY ConsoleStart
<1>2. ConsoleInv /\ [Next]_vars => ConsoleInv'
  <2> SUFFICES ASSUME ConsoleInv, [Next]_vars PROVE ConsoleInv'
    OBVIOUS
  <2>1. CASE MineBlock
    BY <2>1, MiningKeepsInv
  <2>2. CASE Fork
    BY <2>2, ForkingKeepsInv
  <2>3. CASE StartMixedConsole
    BY <2>3 DEF StartMixedConsole, ConsoleInv
  <2>4. ASSUME NEW p \in Pages, StatusPage(p) \/ QuotePage(p) \/ SendingPage(p)
        PROVE  ConsoleInv'
    <3>1. CASE \/ \E f \in Files : AskStatus(p, f)
               \/ \E files \in Lists : AskQuote(p, files)
      BY <3>1, AskingKeepsInv
    <3>2. CASE GetBlock(p)
      BY <3>2, PinningKeepsInv
    <3>3. CASE ReadNonce(p)
      BY <3>3, NonceKeepsInv
    <3>4. CASE ReadMixedOrderStatus(p)
      BY <3>4, StatusKeepsInv
    <3>5. CASE ReadPrice(p) \/ SpendRequirements(p)
      BY <3>5, PricingKeepsInv
    <3>6. CASE QuoteMixedOrders(p)
      BY <3>6, QuoteKeepsInv
    <3>7. CASE SendingPage(p)
      BY <3>7, SendingKeepsInv
    <3> QED BY <2>4, <3>1, <3>2, <3>3, <3>4, <3>5, <3>6, <3>7 DEF StatusPage, QuotePage
  <2>5. CASE UNCHANGED vars
    BY <2>5 DEF vars, ConsoleInv
  <2> QED BY <2>1, <2>2, <2>3, <2>4, <2>5 DEF Next
<1> QED BY <1>1, <1>2, PTL DEF Spec

\* The block of an answered page is the one it saw.
LEMMA AnsweredIsIntact ==
    ASSUME ConsoleInv, NEW p \in Answered
    PROVE  /\ pages[p].at = "answered"
           /\ ReadSoFar(manifest, Snapshot(p), pages[p])
<1>1. /\ p \in Pages /\ pages[p].at = "answered" /\ Intact(chain, pages[p])
  BY DEF Answered, Intact
<1>2. PageOK(manifest, chain, forks, pages[p]) /\ "answered" \in Pinned
  BY <1>1 DEF ConsoleInv, Pinned
<1> QED BY <1>1, <1>2 DEF PageOK, Snapshot

\* A status says what the hook itself makes of the order in the block of the snapshot
\* (client.ts:141-148).
THEOREM StatusesAreRight == Spec => []StatusIsTheHooks
<1>1. ConsoleInv => StatusIsTheHooks
  <2> SUFFICES ASSUME ConsoleInv, NEW p \in Answered, pages[p].answer.state # "quoted"
               PROVE  LET b == Snapshot(p)
                          f == pages[p].files[1]
                      IN  /\ pages[p].answer.state = "consumed-or-cancelled" <=> <<Hook, Uses(f)>> \in b.spent
                          /\ pages[p].answer.state = "pending-authorization"
                               <=> HookAccepts(Hook, [b EXCEPT !.price = f.order.minSqrtPriceX96], f)
    BY DEF StatusIsTheHooks
  <2>1. StatusRight(manifest, Snapshot(p), pages[p])
    BY AnsweredIsIntact DEF ReadSoFar
  <2> QED BY <2>1 DEF StatusRight, Hook
<1> QED BY <1>1, ConsoleInvariant, PTL

\* A quote's rows are the settlement of the snapshot's block, row by row
\* (client.ts:84-102, model.ts:7-27).
THEOREM QuotesAreRight == Spec => []QuoteIsTheSettlement
<1>1. ConsoleInv => QuoteIsTheSettlement
  <2> SUFFICES ASSUME ConsoleInv, NEW p \in Answered, pages[p].answer.state = "quoted"
               PROVE  LET settled == Settled(Snapshot(p), pages[p].files)
                          rows == pages[p].answer.rows
                      IN  /\ Settles(Hook, Snapshot(p), pages[p].files)
                          /\ \A i \in DOMAIN rows :
                               /\ rows[i].output = settled[i].output
                               /\ rows[i].matchedInput = settled[i].share.matchedInput
                               /\ rows[i].matchedOutput = settled[i].share.matchedOutput
    BY DEF QuoteIsTheSettlement
  <2>1. QuoteRight(manifest, Snapshot(p), pages[p])
    BY AnsweredIsIntact DEF ReadSoFar
  <2> QED BY <2>1 DEF QuoteRight, Hook
<1> QED BY <1>1, ConsoleInvariant, PTL

\* After a cancellation has succeeded no transaction that uses what it cancelled does
\* (mixedConsole.ts:87-92, client.ts:133-138).
THEOREM CancelledIsDead == Spec => []CancelledStaysDead
<1>1. ConsoleInv => CancelledStaysDead
  <2> SUFFICES ASSUME ConsoleInv, NEW i \in DOMAIN chain, NEW j \in DOMAIN chain, i < j,
                      chain[i].success, chain[j].success,
                      NEW u \in chain[i].tx.uses, u \in chain[j].tx.uses
               PROVE  FALSE
    BY DEF CancelledStaysDead
  <2>1. chain[i].tx.contract = chain[j].tx.contract
    BY DEF ConsoleInv, Proper
  <2>2. <<chain[i].tx.contract, u>> \in chain[i].spent
    BY DEF ConsoleInv, ChainOK
  <2>3. <<chain[j].tx.contract, u>> \notin chain[i].spent
    BY DEF ConsoleInv, ChainOK
  <2> QED BY <2>1, <2>2, <2>3
<1> QED BY <1>1, ConsoleInvariant, PTL
=====

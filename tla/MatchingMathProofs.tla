-------------------------- MODULE MatchingMathProofs --------------------------
(***************************************************************************)
(* The arithmetic of MatchingMath for every unit Q192 and every price, and  *)
(* the allocation loop of MatchingBatch for every batch.                    *)
(***************************************************************************)
EXTENDS MatchingBatch, TLAPS

-----------------------------------------------------------------------------
(* Division rounding down. *)

\* The quotient is the number q with d*q <= a < d*(q+1).
LEMMA DivBounds ==
    ASSUME NEW a \in Nat, NEW d \in Nat \ {0}
    PROVE  /\ a \div d \in Nat
           /\ d * (a \div d) <= a
           /\ a < d * (a \div d) + d
OBVIOUS

\* A product of naturals is one, for terms the arithmetic cannot see through.
LEMMA ProductInNat == \A a, b \in Nat : a * b \in Nat
OBVIOUS

\* A quotient is at most what its divisor times it does not exceed.
LEMMA QuotientBound ==
    ASSUME NEW q \in Nat, NEW r \in Nat, NEW d \in Nat \ {0}, d * q < d * r + d
    PROVE  q <= r
<1> SUFFICES ASSUME q >= r + 1 PROVE FALSE OBVIOUS
<1>1. d * q >= d * (r + 1) OBVIOUS
<1>2. QED BY <1>1

\* A multiple of the divisor divides exactly.
LEMMA DivExact ==
    ASSUME NEW b \in Nat, NEW d \in Nat \ {0}
    PROVE  (d * b) \div d = b
<1> DEFINE q == (d * b) \div d
<1>1. d * b \in Nat /\ q \in Nat /\ d * q <= d * b /\ d * b < d * q + d
  BY DivBounds
<1> HIDE DEF q
<1>2. q <= b BY <1>1, QuotientBound
<1>3. b <= q BY <1>1, QuotientBound
<1>4. q = b BY <1>1, <1>2, <1>3
<1>5. QED BY <1>4 DEF q

\* What a larger dividend adds to the quotient is bounded by any e with d*e at
\* least the difference.
LEMMA DivStep ==
    ASSUME NEW a \in Nat, NEW b \in Nat, NEW d \in Nat \ {0}, NEW e \in Nat,
           a <= b, b <= a + d * e
    PROVE  (b \div d) - (a \div d) \in 0..e
<1> DEFINE q == a \div d
           r == b \div d
<1>1. q \in Nat /\ d * q <= a /\ a < d * q + d
  BY DivBounds
<1>2. r \in Nat /\ d * r <= b /\ b < d * r + d
  BY DivBounds
<1> HIDE DEF q, r
<1>3. q <= r BY <1>1, <1>2, QuotientBound
<1>4. d * r < d * (q + e) + d
  <2>1. d * (q + e) = d * q + d * e BY <1>1
  <2>2. d * e \in Nat /\ d * q \in Nat /\ d * r \in Nat BY <1>1, <1>2
  <2>3. QED BY <1>1, <1>2, <2>1, <2>2
<1>5. r <= q + e BY <1>1, <1>2, <1>4, QuotientBound
<1>6. r - q \in 0..e BY <1>1, <1>2, <1>3, <1>5
<1>7. QED BY <1>6 DEF q, r

\* mulDiv of a step: never negative, and no more than the step when the factor is
\* at most the divisor.
LEMMA MulDivStep ==
    ASSUME NEW x \in Nat, NEW a \in Nat, NEW m \in Nat, NEW t \in Nat \ {0}
    PROVE  /\ MulDiv(x, m, t) \in Nat
           /\ MulDiv(x + a, m, t) - MulDiv(x, m, t) \in Nat
           /\ m <= t => MulDiv(x + a, m, t) - MulDiv(x, m, t) \in 0..a
<1>1. x * m \in Nat /\ (x + a) * m \in Nat /\ a * m \in Nat OBVIOUS
<1>2. (x + a) * m = x * m + a * m OBVIOUS
<1>3. a * m <= t * (a * m) BY <1>1
<1>4. ((x + a) * m) \div t - (x * m) \div t \in 0..(a * m)
  BY <1>1, <1>2, <1>3, DivStep
<1>5. ASSUME m <= t PROVE ((x + a) * m) \div t - (x * m) \div t \in 0..a
  <2>1. a * m <= t * a BY <1>5
  <2>2. QED BY <1>1, <1>2, <2>1, DivStep
<1>6. (x * m) \div t \in Nat BY <1>1, DivBounds
<1>7. QED BY <1>1, <1>4, <1>5, <1>6 DEF MulDiv

\* The whole divisor stands for the whole factor: nothing is lost at the end.
LEMMA MulDivWhole ==
    ASSUME NEW m \in Nat, NEW t \in Nat \ {0}
    PROVE  MulDiv(t, m, t) = m
BY DivExact DEF MulDiv

-----------------------------------------------------------------------------
(* Budgets. *)

\* The match stays within both totals, whatever the price.
LEMMA MatchedWithinTotals ==
    ASSUME NEW total \in [Sides -> Nat \ {0}], NEW s \in Nat \ {0}
    PROVE  /\ Matched(total, s) \in [Sides -> Nat]
           /\ \A z \in Sides : Matched(total, s)[z] <= total[z]
<1> DEFINE n == Numerator(s)
           t0 == total[TRUE]
           t1 == total[FALSE]
           converted == MulDiv(t1, Q192, n)
           m0 == IF t0 < converted THEN t0 ELSE converted
           m1 == MulDiv(m0, n, Q192)
<1>1. n \in Nat \ {0} /\ Q192 \in Nat \ {0} /\ t0 \in Nat /\ t1 \in Nat
  <2>1. s * s >= s /\ s * s \in Nat OBVIOUS
  <2>2. n \in Nat \ {0} BY <2>1 DEF Numerator
  <2>3. t0 \in Nat /\ t1 \in Nat BY DEF Sides
  <2>4. QED BY <2>2, <2>3, MathAssumption
<1> HIDE DEF n, t0, t1
<1>2. converted \in Nat /\ n * converted <= t1 * Q192
  BY <1>1, DivBounds DEF MulDiv
<1> HIDE DEF converted
<1>3. m0 \in Nat /\ m0 <= t0 /\ m0 <= converted BY <1>1, <1>2
<1> HIDE DEF m0
<1>4. m0 * n <= n * converted BY <1>1, <1>2, <1>3
<1>5. m0 * n \in Nat /\ m0 * n <= t1 * Q192 BY <1>1, <1>2, <1>3, <1>4
<1>6. m1 \in Nat /\ Q192 * m1 <= m0 * n
  BY <1>1, <1>5, DivBounds DEF MulDiv
<1> HIDE DEF m1
<1>7. Q192 * m1 < Q192 * t1 + Q192 BY <1>1, <1>5, <1>6
<1>8. m1 <= t1 BY <1>1, <1>6, <1>7, QuotientBound
<1>9. Matched(total, s) = [z \in Sides |-> IF z THEN m0 ELSE m1]
  BY DEF Matched, n, converted, m0, m1, t0, t1
<1>10. QED BY <1>3, <1>6, <1>8, <1>9 DEF t0, t1, Sides

\* The other side of a side.
LEMMA OtherSide ==
    ASSUME NEW z \in Sides
    PROVE  (~z) \in Sides /\ (~~z) = z
<1>1. (~z) \in BOOLEAN BY Zenon
<1>2. Sides = BOOLEAN BY DEF Sides
<1>3. (~z) \in Sides BY Zenon, <1>1, <1>2
<1>4. (~~z) = z BY Zenon, <1>2
<1>5. QED BY <1>3, <1>4

-----------------------------------------------------------------------------
(* The inductive invariant of the two loops. *)

\* `running' are the running totals of the first loop, and the second loop, while
\* it lasts, has drawn exactly the shares of what it has passed.
RunningTotals ==
    /\ running[1] = [z \in Sides |-> 0]
    /\ status = "summing" => totals = running[next]
    /\ status \in {"allocating", "done"} => totals = running[Len(orders) + 1]
    /\ \A i \in 1..Len(orders) :
          i < next \/ status \in {"allocating", "done"} =>
             running[i + 1] = [running[i] EXCEPT ![orders[i].zeroForOne] = @ + orders[i].amountIn]

SharesDrawn ==
    status \in {"allocating", "done"} =>
        /\ price # 0 /\ budget = Budget(totals, price)
        /\ budget.total \in [Sides -> Nat \ {0}]
        /\ budget.matched \in [Sides -> Nat \ {0}]
        /\ \A z \in Sides : budget.matched[z] <= budget.total[z]
        /\ before = running[next]
        /\ \A z \in Sides : /\ sumIn[z] = InputShare(budget, z, before[z])
                             /\ sumOut[z] = OutputShare(budget, z, before[z])

BatchInv ==
    /\ orders \in Seq(Order)
    /\ price \in Nat
    /\ status \in {"summing", "allocating", "done", "reverted"}
    /\ next \in 1..(Len(orders) + 1)
    /\ status = "done" => next = Len(orders) + 1
    /\ status = "summing" => before = running[1] /\ sumIn = running[1] /\ sumOut = running[1]
    /\ totals \in [Sides -> Nat]
    /\ running \in [1..(Len(orders) + 1) -> [Sides -> Nat]]
    /\ before \in [Sides -> Nat]
    /\ sumIn \in [Sides -> Nat]
    /\ sumOut \in [Sides -> Nat]
    /\ RunningTotals
    /\ SharesDrawn

\* The books are empty when the first loop starts.
LEMMA BatchInitInv == Init => BatchInv
BY BatchAssumption DEF Init, BatchInv, RunningTotals, SharesDrawn, Sides

\* The first loop extends the running totals by the order it is at.
LEMMA SumNextInv == BatchInv /\ SumNext => BatchInv'
<1> SUFFICES ASSUME BatchInv, SumNext PROVE BatchInv' OBVIOUS
<1> DEFINE o == orders[next]
<1>1. o \in Order /\ o.zeroForOne \in Sides /\ o.amountIn \in Nat
  <2>1. o \in Order BY DEF BatchInv, SumNext
  <2>2. QED BY <2>1 DEF Order
<1>2. totals' \in [Sides -> Nat]
      /\ totals' = [running[next] EXCEPT ![o.zeroForOne] = @ + o.amountIn]
  <2>1. totals = running[next] /\ totals \in [Sides -> Nat]
    BY DEF BatchInv, SumNext, RunningTotals
  <2>2. totals' = [totals EXCEPT ![o.zeroForOne] = @ + o.amountIn]
    BY DEF SumNext
  <2>3. totals[o.zeroForOne] + o.amountIn \in Nat BY <1>1, <2>1
  <2>4. QED BY <1>1, <2>1, <2>2, <2>3
<1>3. running' = [running EXCEPT ![next + 1] = totals'] /\ next' = next + 1
      /\ next \in 1..Len(orders) /\ orders' = orders /\ status' = "summing"
      /\ UNCHANGED <<price, budget, before, sumIn, sumOut>>
  BY DEF SumNext, BatchInv
<1>4. /\ running' \in [1..(Len(orders) + 1) -> [Sides -> Nat]]
      /\ running'[next'] = totals'
      /\ \A i \in 1..next : running'[i] = running[i]
  BY <1>2, <1>3 DEF BatchInv
<1>5. ASSUME NEW i \in 1..Len(orders), i < next'
      PROVE  running'[i + 1] =
                [running'[i] EXCEPT ![orders[i].zeroForOne] = @ + orders[i].amountIn]
  <2>1. CASE i = next
    <3>1. running'[i + 1] = totals' BY <1>3, <1>4, <2>1
    <3>2. running'[i] = running[next] BY <1>3, <1>4, <2>1
    <3>3. QED BY <1>2, <2>1, <3>1, <3>2
  <2>2. CASE i < next
    <3>1. i \in 1..next /\ i + 1 \in 1..next BY <1>3, <2>2
    <3>2. QED BY <1>4, <2>2, <3>1 DEF BatchInv, RunningTotals
  <2>3. QED BY <1>3, <1>5, <2>1, <2>2
<1>6. RunningTotals'
  <2>1. running'[1] = [z \in Sides |-> 0] BY <1>3, <1>4 DEF BatchInv, RunningTotals
  <2>2. \A i \in 1..Len(orders') : i < next' =>
           running'[i + 1] =
             [running'[i] EXCEPT ![orders'[i].zeroForOne] = @ + orders'[i].amountIn]
    BY <1>3, <1>5
  <2>3. QED BY <1>3, <1>4, <2>1, <2>2 DEF RunningTotals
<1>7. SharesDrawn' BY <1>3 DEF SharesDrawn
<1>8. QED BY <1>2, <1>3, <1>4, <1>6, <1>7 DEF BatchInv, SumNext

\* A budget that is defined is within the totals, and the second loop starts
\* with nothing drawn.
LEMMA ComputeBudgetInv == BatchInv /\ ComputeBudget => BatchInv'
<1> SUFFICES ASSUME BatchInv, ComputeBudget PROVE BatchInv' OBVIOUS
<1>1. totals \in [Sides -> Nat \ {0}] /\ price \in Nat \ {0}
  BY MathAssumption DEF BatchInv, ComputeBudget, BudgetDefined, PriceSupported
<1>2. /\ Matched(totals, price) \in [Sides -> Nat]
      /\ \A z \in Sides : Matched(totals, price)[z] <= totals[z]
  BY <1>1, MatchedWithinTotals
<1>3. /\ budget'.total = totals
      /\ budget'.matched = Matched(totals, price)
      /\ \A z \in Sides : Matched(totals, price)[z] # 0
  BY DEF ComputeBudget, Budget, BudgetDefined
<1>4. /\ budget'.total \in [Sides -> Nat \ {0}]
      /\ budget'.matched \in [Sides -> Nat \ {0}]
      /\ \A z \in Sides : budget'.matched[z] <= budget'.total[z]
  BY <1>1, <1>2, <1>3
<1>5. /\ before = [z \in Sides |-> 0] /\ sumIn = before /\ sumOut = before
      /\ UNCHANGED <<orders, price, totals, running, before, sumIn, sumOut>>
      /\ next' = 1 /\ status' = "allocating" /\ status = "summing" /\ next = Len(orders) + 1
  BY DEF BatchInv, ComputeBudget, FirstOrder, RunningTotals
<1>6. ASSUME NEW z \in Sides
      PROVE  InputShare(budget', z, 0) = 0 /\ OutputShare(budget', z, 0) = 0
  <2>1. budget'.total[z] \in Nat \ {0} /\ budget'.matched[z] \in Nat \ {0}
        /\ budget'.matched[~z] \in Nat
    BY <1>4 DEF Sides
  <2>2. ASSUME NEW m \in Nat, NEW t \in Nat \ {0} PROVE MulDiv(0, m, t) = 0
    <3>1. 0 * m = t * 0 OBVIOUS
    <3>2. QED BY <3>1, DivExact DEF MulDiv
  <2>3. QED BY <2>1, <2>2 DEF InputShare, OutputShare
<1>7. SharesDrawn'
  BY <1>1, <1>4, <1>5, <1>6 DEF SharesDrawn, BatchInv, RunningTotals, ComputeBudget
<1>8. RunningTotals'
  <2>1. \A i \in 1..Len(orders) :
           running[i + 1] =
             [running[i] EXCEPT ![orders[i].zeroForOne] = @ + orders[i].amountIn]
    <3>1. Len(orders) \in Nat /\ \A i \in 1..Len(orders) : i < next
      BY <1>5 DEF BatchInv
    <3>2. QED BY <3>1 DEF RunningTotals, BatchInv
  <2>2. running[1] = [z \in Sides |-> 0] /\ totals = running[Len(orders) + 1]
    BY <1>5 DEF RunningTotals, BatchInv
  <2>3. QED BY <1>5, <2>1, <2>2 DEF RunningTotals
<1>9. QED BY <1>5, <1>7, <1>8 DEF BatchInv

\* An order draws the step of the two shares from before it to after it, so that
\* the sums stay the shares of what the loop has passed.
LEMMA AllocateNextInv == BatchInv /\ AllocateNext => BatchInv'
<1> SUFFICES ASSUME BatchInv, AllocateNext PROVE BatchInv' OBVIOUS
<1> DEFINE o == orders[next]
           z == o.zeroForOne
           a == Allocate(budget, z, before[z], o.amountIn)
<1>1. o \in Order /\ z \in Sides /\ o.amountIn \in Nat
  <2>1. o \in Order BY DEF BatchInv, AllocateNext
  <2>2. QED BY <2>1 DEF Order
<1>2. /\ status = "allocating" /\ next \in 1..Len(orders)
      /\ before' = [before EXCEPT ![z] = @ + o.amountIn]
      /\ sumIn' = [sumIn EXCEPT ![z] = @ + a.matchedInput]
      /\ sumOut' = [sumOut EXCEPT ![z] = @ + a.matchedOutput]
      /\ next' = next + 1
      /\ UNCHANGED <<orders, price, status, totals, running, budget>>
  BY DEF AllocateNext, BatchInv
<1>3. /\ budget.total \in [Sides -> Nat \ {0}]
      /\ budget.matched \in [Sides -> Nat \ {0}]
      /\ \A y \in Sides : budget.matched[y] <= budget.total[y]
      /\ before = running[next] /\ before \in [Sides -> Nat]
      /\ \A y \in Sides : /\ sumIn[y] = InputShare(budget, y, before[y])
                           /\ sumOut[y] = OutputShare(budget, y, before[y])
  BY <1>2 DEF BatchInv, SharesDrawn
<1>4. before' = running[next'] /\ before' \in [Sides -> Nat]
  <2>1. running[next + 1] = [running[next] EXCEPT ![z] = @ + o.amountIn]
    BY <1>2 DEF BatchInv, RunningTotals
  <2>2. running[next + 1] \in [Sides -> Nat]
    <3>1. Len(orders) \in Nat BY DEF BatchInv
    <3>2. next + 1 \in 1..(Len(orders) + 1) BY <1>2, <3>1
    <3>3. QED BY <3>2 DEF BatchInv
  <2>3. QED BY <1>2, <1>3, <2>1, <2>2
<1>5. /\ sumIn' = [sumIn EXCEPT ![z] = InputShare(budget, z, before[z] + o.amountIn)]
      /\ sumOut' = [sumOut EXCEPT ![z] = OutputShare(budget, z, before[z] + o.amountIn)]
  <2>1. /\ InputShare(budget, z, before[z]) \in Nat
        /\ InputShare(budget, z, before[z] + o.amountIn) \in Nat
    <3>1. /\ budget.matched[z] \in Nat /\ budget.total[z] \in Nat \ {0}
          /\ before[z] \in Nat /\ before[z] + o.amountIn \in Nat
      BY <1>1, <1>3
    <3>2. QED BY <3>1, MulDivStep DEF InputShare
  <2>2. /\ OutputShare(budget, z, before[z]) \in Nat
        /\ OutputShare(budget, z, before[z] + o.amountIn) \in Nat
    BY <1>1, <1>3, <2>1, MulDivStep DEF OutputShare, Sides
  <2>3. /\ sumIn[z] + a.matchedInput = InputShare(budget, z, before[z] + o.amountIn)
        /\ sumOut[z] + a.matchedOutput = OutputShare(budget, z, before[z] + o.amountIn)
    BY <1>1, <1>3, <2>1, <2>2 DEF Allocate
  <2>4. QED BY <1>2, <2>3
<1>6. ASSUME NEW y \in Sides
      PROVE  /\ sumIn'[y] = InputShare(budget', y, before'[y])
             /\ sumOut'[y] = OutputShare(budget', y, before'[y])
  <2>1. sumIn \in [Sides -> Nat] /\ sumOut \in [Sides -> Nat] BY DEF BatchInv
  <2>2. CASE y = z BY <1>1, <1>2, <1>3, <1>5, <2>1, <2>2
  <2>3. CASE y # z BY <1>1, <1>2, <1>3, <1>5, <2>1, <2>3
  <2>4. QED BY <2>2, <2>3
<1>7. ASSUME NEW y \in Sides PROVE sumIn'[y] \in Nat /\ sumOut'[y] \in Nat
  <2>1. InputShare(budget, y, before'[y]) \in Nat
    BY <1>3, <1>4, MulDivStep DEF InputShare
  <2>2. OutputShare(budget, y, before'[y]) \in Nat
    BY <1>3, <2>1, MulDivStep DEF OutputShare, Sides
  <2>3. QED BY <1>2, <1>6, <2>1, <2>2
<1>8. sumIn' \in [Sides -> Nat] /\ sumOut' \in [Sides -> Nat]
  <2>1. sumIn \in [Sides -> Nat] /\ sumOut \in [Sides -> Nat] BY DEF BatchInv
  <2>2. QED BY <1>2, <1>7, <2>1
<1>9. SharesDrawn'
  BY <1>2, <1>3, <1>4, <1>6 DEF SharesDrawn, BatchInv
<1>10. RunningTotals' BY <1>2 DEF RunningTotals, BatchInv
<1>11. QED BY <1>2, <1>4, <1>8, <1>9, <1>10 DEF BatchInv

\* Reverting and finishing leave the books alone.
LEMMA EndInv == BatchInv /\ (BudgetReverts \/ AllocationReverts \/ Finish) => BatchInv'
<1>1. ASSUME BatchInv, BudgetReverts \/ AllocationReverts PROVE BatchInv'
  <2>1. status' = "reverted"
        /\ UNCHANGED <<orders, price, totals, running, budget, next, before, sumIn, sumOut>>
    BY <1>1 DEF BudgetReverts, AllocationReverts, Revert
  <2>2. RunningTotals'
    BY <1>1, <2>1 DEF BatchInv, RunningTotals
  <2>3. QED BY <1>1, <2>1, <2>2 DEF BatchInv, SharesDrawn
<1>2. ASSUME BatchInv, Finish PROVE BatchInv'
  <2>1. /\ status' = "done" /\ status = "allocating" /\ next = Len(orders) + 1
        /\ UNCHANGED <<orders, price, totals, running, budget, next, before, sumIn, sumOut>>
    BY <1>2 DEF Finish, BatchInv
  <2>2. SharesDrawn' /\ RunningTotals'
    BY <1>2, <2>1 DEF BatchInv, RunningTotals, SharesDrawn, Budget
  <2>3. QED BY <1>2, <2>1, <2>2 DEF BatchInv
<1>3. QED BY <1>1, <1>2

\* Every step of the loops keeps the books.
LEMMA BatchStepInv == BatchInv /\ [Next]_vars => BatchInv'
<1>1. BatchInv /\ UNCHANGED vars => BatchInv'
  BY DEF BatchInv, vars, RunningTotals, SharesDrawn, Budget, Matched
<1>2. QED BY <1>1, SumNextInv, ComputeBudgetInv, AllocateNextInv, EndInv DEF Next

\* The loops keep the books of BatchInv for every batch, price and unit.
THEOREM BatchInvariant == Spec => []BatchInv
BY BatchInitInv, BatchStepInv, PTL DEF Spec

\* The promise the pool manager checks at the end of the unlock: in each token,
\* the matched input of one side is the matched output of the other, to the unit.
THEOREM MatchConserves == Spec => []HookBalanced
<1>1. BatchInv => HookBalanced
  <2> SUFFICES ASSUME BatchInv, status = "done", NEW z \in Sides
               PROVE  sumIn[z] = sumOut[~z]
    BY DEF HookBalanced
  <2>1. /\ budget.total \in [Sides -> Nat \ {0}]
        /\ budget.matched \in [Sides -> Nat \ {0}]
        /\ \A y \in Sides : before[y] = budget.total[y]
        /\ \A y \in Sides : /\ sumIn[y] = InputShare(budget, y, before[y])
                             /\ sumOut[y] = OutputShare(budget, y, before[y])
    BY DEF BatchInv, RunningTotals, SharesDrawn, Budget
  <2>2. ASSUME NEW y \in Sides
        PROVE  sumIn[y] = budget.matched[y] /\ sumOut[y] = budget.matched[~y]
    <3>0. (~y) \in Sides BY OtherSide
    <3>1. /\ budget.total[y] \in Nat \ {0} /\ budget.matched[y] \in Nat \ {0}
          /\ budget.matched[~y] \in Nat
      BY <2>1, <3>0
    <3>2. InputShare(budget, y, before[y]) = budget.matched[y]
      BY <2>1, <3>1, MulDivWhole DEF InputShare
    <3>3. OutputShare(budget, y, before[y]) = budget.matched[~y]
      BY <3>1, <3>2, MulDivWhole DEF OutputShare
    <3>4. QED BY <2>1, <3>2, <3>3
  <2>3. (~z) \in Sides /\ (~~z) = z BY OtherSide
  <2>4. QED BY <2>2, <2>3
<1>2. QED BY <1>1, BatchInvariant, PTL

-----------------------------------------------------------------------------
(* The reference price. *)

\* What side 1 pays for a match is the value of what side 0 pays, rounded down.
LEMMA MatchedAtPrice ==
    ASSUME NEW total \in [Sides -> Nat], NEW s \in Nat \ {0},
           NEW m, m = Matched(total, s), m \in [Sides -> Nat]
    PROVE  LET n == Numerator(s) IN
           /\ m[FALSE] * Q192 <= m[TRUE] * n
           /\ m[TRUE] * n < (m[FALSE] + 1) * Q192
           /\ m[TRUE] = total[TRUE] \/ total[FALSE] * Q192 < m[TRUE] * n + n
<1> DEFINE n == Numerator(s)
           t == total[FALSE] * Q192
           q == t \div n
           x == m[TRUE]
           y == m[FALSE]
<1>1. n \in Nat \ {0} /\ Q192 \in Nat \ {0}
  <2>1. s * s >= s /\ s * s \in Nat OBVIOUS
  <2>2. QED BY <2>1, MathAssumption DEF Numerator
<1>2. TRUE \in Sides /\ FALSE \in Sides BY DEF Sides
<1>3. x \in Nat /\ y \in Nat /\ t \in Nat
  <2>1. m[TRUE] \in Nat BY <1>2
  <2>2. m[FALSE] \in Nat BY <1>2
  <2>3. total[FALSE] \in Nat BY <1>2
  <2>4. t \in Nat
    <3>1. Q192 \in Nat BY MathAssumption
    <3>2. QED BY <2>3, <3>1, ProductInNat, Zenon
  <2>5. QED BY <2>1, <2>2, <2>4
<1>4. y = (x * n) \div Q192 /\ (x = total[TRUE] \/ x = q)
  BY <1>2 DEF Matched, MulDiv
<1> HIDE DEF n, t, x, y
<1>5. x * n \in Nat BY <1>1, <1>3
<1>6. Q192 * y <= x * n /\ x * n < Q192 * y + Q192 BY <1>1, <1>4, <1>5, DivBounds
<1>7. t < n * q + n BY <1>1, <1>3, DivBounds
<1> HIDE DEF q
<1>8. x = total[TRUE] \/ t < x * n + n
  <2>1. CASE x = q
    <3>1. n * q = x * n BY <2>1, <1>1, <1>3
    <3>2. QED BY <1>7, <3>1
  <2>2. QED BY <1>4, <2>1
<1>9. y * Q192 <= x * n /\ x * n < (y + 1) * Q192 BY <1>1, <1>3, <1>5, <1>6
<1>10. QED BY <1>8, <1>9 DEF n, t, x, y

\* What the invariant says of a computed budget, in the terms of MatchedAtPrice.
LEMMA BudgetAtPrice ==
    ASSUME BatchInv, status \in {"allocating", "done"}
    PROVE  LET n == Numerator(price) IN
           /\ n \in Nat /\ Q192 \in Nat \ {0}
           /\ \A z \in Sides : /\ budget.total[z] \in Nat \ {0}
                               /\ budget.matched[z] \in Nat \ {0}
                               /\ budget.matched[z] <= budget.total[z]
           /\ budget.matched[FALSE] * Q192 <= budget.matched[TRUE] * n
           /\ budget.matched[TRUE] * n < (budget.matched[FALSE] + 1) * Q192
           /\ \/ budget.matched[TRUE] = budget.total[TRUE]
              \/ budget.total[FALSE] * Q192 < budget.matched[TRUE] * n + n
<1>1. /\ price \in Nat \ {0} /\ totals \in [Sides -> Nat]
      /\ budget = Budget(totals, price)
      /\ budget.total \in [Sides -> Nat \ {0}] /\ budget.matched \in [Sides -> Nat \ {0}]
      /\ \A z \in Sides : budget.matched[z] <= budget.total[z]
  BY DEF BatchInv, SharesDrawn
<1>2. budget.total = totals /\ budget.matched = Matched(totals, price)
  BY <1>1 DEF Budget
<1>3. budget.matched \in [Sides -> Nat] BY <1>1
<1>4. Numerator(price) \in Nat BY <1>1 DEF Numerator
<1>5. /\ budget.matched[FALSE] * Q192 <= budget.matched[TRUE] * Numerator(price)
      /\ budget.matched[TRUE] * Numerator(price) < (budget.matched[FALSE] + 1) * Q192
      /\ \/ budget.matched[TRUE] = budget.total[TRUE]
         \/ budget.total[FALSE] * Q192 < budget.matched[TRUE] * Numerator(price) + Numerator(price)
  BY <1>1, <1>2, <1>3, MatchedAtPrice
<1>6. QED BY <1>1, <1>4, <1>5, MathAssumption

\* Every match crosses at the reference price, rounded down on side 1 by less than
\* a unit, at any price the pool may have and with any fixed-point unit.
THEOREM ReferencePrice == Spec => []CrossesAtReferencePrice
<1>1. BatchInv => CrossesAtReferencePrice
  <2> SUFFICES ASSUME BatchInv, status \in {"allocating", "done"}
               PROVE  LET n == Numerator(price) IN
                      /\ \A z \in Sides : budget.matched[z] \in 1..budget.total[z]
                      /\ budget.matched[FALSE] * Q192 <= budget.matched[TRUE] * n
                      /\ budget.matched[TRUE] * n < (budget.matched[FALSE] + 1) * Q192
    BY DEF CrossesAtReferencePrice
  <2>1. ASSUME NEW z \in Sides PROVE budget.matched[z] \in 1..budget.total[z]
    <3>1. /\ budget.total[z] \in Nat \ {0} /\ budget.matched[z] \in Nat \ {0}
          /\ budget.matched[z] <= budget.total[z]
      BY BudgetAtPrice
    <3> DEFINE a == budget.matched[z]
               b == budget.total[z]
    <3> HIDE DEF a, b
    <3>2. a \in 1..b
      <4>1. a \in Nat \ {0} /\ b \in Nat \ {0} /\ a <= b BY <3>1 DEF a, b
      <4>2. QED BY <4>1
    <3>3. QED BY <3>2 DEF a, b
  <2>2. QED BY <2>1, BudgetAtPrice
<1>2. QED BY <1>1, BatchInvariant, PTL

\* No match leaves more than dust to cross: what remains on side 1 when side 0 is
\* not used up is worth less than one unit of each token.
THEOREM MatchIsMaximal == Spec => []OnlyDustIsLeft
<1>1. BatchInv => OnlyDustIsLeft
  <2> SUFFICES ASSUME BatchInv, status \in {"allocating", "done"},
                      budget.matched[TRUE] # budget.total[TRUE]
               PROVE  (budget.total[FALSE] - budget.matched[FALSE]) * Q192
                         < Numerator(price) + Q192
    BY DEF OnlyDustIsLeft
  <2> DEFINE n == Numerator(price)
             x == budget.matched[TRUE] * n
             y == budget.matched[FALSE]
             t == budget.total[FALSE]
  <2>1. FALSE \in Sides /\ TRUE \in Sides BY DEF Sides
  <2>2. n \in Nat /\ Q192 \in Nat /\ y \in Nat /\ t \in Nat /\ x \in Nat
    <3>1. n \in Nat /\ Q192 \in Nat BY BudgetAtPrice
    <3>2. budget.matched[TRUE] \in Nat BY <2>1, BudgetAtPrice
    <3>3. y \in Nat BY <2>1, BudgetAtPrice
    <3>4. t \in Nat BY <2>1, BudgetAtPrice
    <3> HIDE DEF n, y, t
    <3>5. x \in Nat BY <3>1, <3>2, ProductInNat, Zenon
    <3>6. QED BY <3>1, <3>3, <3>4, <3>5
  <2>3. x < (y + 1) * Q192 /\ t * Q192 < x + n BY BudgetAtPrice
  <2> HIDE DEF n, x, y, t
  <2>4. t * Q192 < (y + 1) * Q192 + n BY <2>2, <2>3
  <2>5. (t - y) * Q192 = t * Q192 - y * Q192 /\ (y + 1) * Q192 = y * Q192 + Q192
    BY <2>2
  <2>6. (t - y) * Q192 < n + Q192
    BY <2>2, <2>4, <2>5
  <2>7. QED BY <2>6 DEF n, y, t
<1>2. QED BY <1>1, BatchInvariant, PTL

-----------------------------------------------------------------------------
(* Single allocations. *)

AllocInv ==
    /\ BatchInv
    /\ orders \in Batches /\ price \in SqrtPrices
    /\ budget \in [total : [Sides -> Nat], matched : [Sides -> Nat]]
    /\ status = "summing" => allocations = <<>>
    /\ allocations \in Seq([matchedInput : Int, matchedOutput : Int, residual : Int])
    /\ status \in {"allocating", "done"} => Len(allocations) = next - 1
    /\ AllocationsWithinOrders

\* An order never pays more than it offers, whatever was drawn before it.
LEMMA AllocateBounds ==
    ASSUME NEW b, NEW z \in Sides, NEW x \in Nat, NEW amount \in Nat,
           b.total \in [Sides -> Nat \ {0}], b.matched \in [Sides -> Nat \ {0}],
           \A y \in Sides : b.matched[y] <= b.total[y]
    PROVE  LET a == Allocate(b, z, x, amount)
           IN  /\ a.matchedInput \in 0..amount
               /\ a.matchedOutput \in Nat
               /\ a.residual = amount - a.matchedInput
               /\ a \in [matchedInput : Int, matchedOutput : Int, residual : Int]
<1> DEFINE p == InputShare(b, z, x)
           q == InputShare(b, z, x + amount)
<1>0. (~z) \in Sides BY OtherSide
<1>1. b.total[z] \in Nat \ {0} /\ b.matched[z] \in Nat \ {0} /\ b.matched[~z] \in Nat
      /\ b.matched[z] <= b.total[z]
  BY <1>0
<1>2. p \in Nat /\ q - p \in 0..amount
  BY <1>1, MulDivStep DEF InputShare
<1>3. q \in Nat /\ q = p + (q - p)
  <2>1. x + amount \in Nat OBVIOUS
  <2>2. q \in Nat BY <1>1, <2>1, MulDivStep DEF InputShare
  <2>3. QED BY <1>2, <2>2
<1>4. OutputShare(b, z, x + amount) - OutputShare(b, z, x) \in Nat
  <2> DEFINE d == q - p
  <2>1. d \in Nat /\ q = p + d BY <1>2, <1>3
  <2> HIDE DEF d
  <2>2. MulDiv(p + d, b.matched[~z], b.matched[z]) - MulDiv(p, b.matched[~z], b.matched[z]) \in Nat
    BY <1>1, <1>2, <2>1, MulDivStep
  <2>3. QED BY <2>1, <2>2 DEF OutputShare
<1>5. QED BY <1>2, <1>4 DEF Allocate

\* No allocations at the start.
LEMMA AllocInitInv == Init => AllocInv
<1>1. Init => budget \in [total : [Sides -> Nat], matched : [Sides -> Nat]]
  BY DEF Init, NoBudget
<1>2. QED BY <1>1, BatchInitInv DEF Init, AllocInv, AllocationsWithinOrders

\* A budget that was computed is a pair of natural numbers for each side.
LEMMA BudgetTyped ==
    ASSUME BatchInv, ComputeBudget
    PROVE  budget' \in [total : [Sides -> Nat], matched : [Sides -> Nat]]
<1>1. totals \in [Sides -> Nat \ {0}] /\ price \in Nat \ {0}
  BY MathAssumption DEF BatchInv, ComputeBudget, BudgetDefined, PriceSupported
<1>2. Matched(totals, price) \in [Sides -> Nat] BY <1>1, MatchedWithinTotals
<1>3. totals \in [Sides -> Nat] BY DEF BatchInv
<1>4. budget' = [total |-> totals, matched |-> Matched(totals, price)]
  BY DEF ComputeBudget, Budget
<1>5. QED BY <1>2, <1>3, <1>4

\* Only AllocateNext writes an allocation, and only within its order.
LEMMA AllocStepInv == AllocInv /\ [Next]_vars => AllocInv'
<1> SUFFICES ASSUME AllocInv, [Next]_vars PROVE AllocInv' OBVIOUS
<1>1. BatchInv /\ BatchInv' BY BatchStepInv DEF AllocInv
<1>2. CASE AllocateNext
  <2> DEFINE o == orders[next]
             a == Allocate(budget, o.zeroForOne, before[o.zeroForOne], o.amountIn)
  <2>1. o \in Order /\ o.zeroForOne \in Sides /\ o.amountIn \in Nat
    <3>1. o \in Order BY <1>1, <1>2 DEF BatchInv, AllocateNext
    <3>2. QED BY <3>1 DEF Order
  <2>2. /\ a.matchedInput \in 0..o.amountIn /\ a.matchedOutput \in Nat
        /\ a.residual = o.amountIn - a.matchedInput
        /\ a \in [matchedInput : Int, matchedOutput : Int, residual : Int]
    <3>1. status = "allocating" BY <1>2 DEF AllocateNext
    <3>2. /\ budget.total \in [Sides -> Nat \ {0}]
          /\ budget.matched \in [Sides -> Nat \ {0}]
          /\ \A y \in Sides : budget.matched[y] <= budget.total[y]
          /\ before[o.zeroForOne] \in Nat
      BY <1>1, <2>1, <3>1 DEF BatchInv, SharesDrawn
    <3>3. QED BY <2>1, <3>2, AllocateBounds
  <2>3. allocations' = Append(allocations, a) /\ orders' = orders /\ next' = next + 1
        /\ status' = "allocating" /\ Len(allocations) = next - 1 /\ next \in Nat
        /\ UNCHANGED <<price, budget>>
    BY <1>1, <1>2 DEF AllocateNext, AllocInv, BatchInv
  <2> HIDE DEF a
  <2>4. AllocationsWithinOrders'
    <3> SUFFICES ASSUME NEW i \in DOMAIN allocations'
                 PROVE  /\ allocations'[i].matchedInput \in 0..orders'[i].amountIn
                        /\ allocations'[i].residual
                              = orders'[i].amountIn - allocations'[i].matchedInput
                        /\ allocations'[i].matchedOutput \in Nat
      BY DEF AllocationsWithinOrders
    <3>1. CASE i = next BY <2>2, <2>3, <3>1 DEF AllocInv
    <3>2. CASE i # next
      <4>1. i \in DOMAIN allocations /\ allocations'[i] = allocations[i]
        BY <2>2, <2>3, <3>2 DEF AllocInv
      <4>2. QED BY <2>3, <4>1 DEF AllocInv, AllocationsWithinOrders
    <3>3. QED BY <3>1, <3>2
  <2>5. QED BY <1>1, <2>2, <2>3, <2>4 DEF AllocInv
<1>3. CASE ComputeBudget
  <2>1. /\ UNCHANGED <<allocations, orders, price>> /\ allocations = <<>>
        /\ status' = "allocating" /\ next' = 1
    BY <1>3 DEF ComputeBudget, FirstOrder, AllocInv
  <2>2. Len(allocations) = 0 BY <2>1
  <2>3. budget' \in [total : [Sides -> Nat], matched : [Sides -> Nat]]
    BY <1>1, <1>3, BudgetTyped
  <2>4. QED BY <1>1, <2>1, <2>2, <2>3 DEF AllocInv, AllocationsWithinOrders
<1>4. CASE SumNext \/ BudgetReverts \/ AllocationReverts \/ Finish \/ UNCHANGED vars
  <2>1. /\ UNCHANGED <<allocations, orders, price, budget>>
        /\ status' = "summing" => status = "summing"
    BY <1>4 DEF SumNext, BudgetReverts, AllocationReverts, Revert, Finish, vars
  <2>2. status' \in {"allocating", "done"} =>
           status \in {"allocating", "done"} /\ next' = next
    BY <1>4 DEF SumNext, BudgetReverts, AllocationReverts, Revert, Finish, vars
  <2>3. QED BY <1>1, <2>1, <2>2 DEF AllocInv, AllocationsWithinOrders
<1>5. QED BY <1>2, <1>3, <1>4 DEF Next

\* No allocation is negative or exceeds its order: the casts of beforeSwap and the
\* checked subtraction of the residual never wrap or revert.
THEOREM AllocationBounds == Spec => []AllocationsWithinOrders
<1>1. AllocInv => AllocationsWithinOrders BY DEF AllocInv
<1>2. QED BY <1>1, AllocInitInv, AllocStepInv, PTL DEF Spec

\* Storage types, and as many allocations as the loop has passed orders.
THEOREM BatchTypeCorrect == Spec => []TypeOK
<1>1. AllocInv => TypeOK BY DEF AllocInv, BatchInv, TypeOK
<1>2. QED BY <1>1, AllocInitInv, AllocStepInv, PTL DEF Spec

-----------------------------------------------------------------------------
(* Proportional shares. *)

\* The step of a cumulative share is the proportional share of the step, to
\* within one unit: the two roundings pull in opposite directions.
LEMMA MulDivProportional ==
    ASSUME NEW x \in Nat, NEW a \in Nat, NEW m \in Nat, NEW t \in Nat \ {0}
    PROVE  Distance((MulDiv(x + a, m, t) - MulDiv(x, m, t)) * t, a * m) < t
<1> DEFINE q == MulDiv(x, m, t)
           r == MulDiv(x + a, m, t)
           u == x * m
           v == a * m
<1>1. u \in Nat /\ v \in Nat /\ (x + a) * m = u + v OBVIOUS
<1>2. q = u \div t /\ r = (u + v) \div t BY <1>1 DEF MulDiv
<1> HIDE DEF q, r, u, v
<1>3. q \in Nat /\ t * q <= u /\ u < t * q + t BY <1>1, <1>2, DivBounds
<1>4. r \in Nat /\ t * r <= u + v /\ u + v < t * r + t BY <1>1, <1>2, DivBounds
<1>5. (r - q) * t = t * r - t * q /\ t * r \in Nat /\ t * q \in Nat BY <1>3, <1>4
<1>6. Distance((r - q) * t, v) < t BY <1>1, <1>3, <1>4, <1>5 DEF Distance
<1>7. QED BY <1>6 DEF q, r, v

\* What an order of a side is allocated is proportional, wherever it stands.
LEMMA AllocateProportional ==
    ASSUME NEW b, NEW z \in Sides, NEW x \in Nat, NEW amount \in Nat,
           b.total \in [Sides -> Nat \ {0}], b.matched \in [Sides -> Nat \ {0}],
           \A y \in Sides : b.matched[y] <= b.total[y]
    PROVE  LET a == Allocate(b, z, x, amount)
           IN  /\ Distance(a.matchedInput * b.total[z], amount * b.matched[z]) < b.total[z]
               /\ Distance(a.matchedOutput * b.matched[z], a.matchedInput * b.matched[~z])
                     < b.matched[z]
<1> DEFINE p == InputShare(b, z, x)
           d == InputShare(b, z, x + amount) - p
           e == OutputShare(b, z, x + amount) - OutputShare(b, z, x)
<1>0. (~z) \in Sides BY OtherSide
<1>1. b.total[z] \in Nat \ {0} /\ b.matched[z] \in Nat \ {0} /\ b.matched[~z] \in Nat
      /\ b.matched[z] <= b.total[z]
  BY <1>0
<1>2. Distance(d * b.total[z], amount * b.matched[z]) < b.total[z]
  BY <1>1, MulDivProportional DEF InputShare
<1>3. p \in Nat /\ d \in Nat
  BY <1>1, MulDivStep DEF InputShare
<1>4. InputShare(b, z, x + amount) = p + d
  <2>1. InputShare(b, z, x + amount) \in Nat
    <3>1. x + amount \in Nat OBVIOUS
    <3>2. QED BY <1>1, <3>1, MulDivStep DEF InputShare
  <2>2. QED BY <1>3, <2>1
<1>5. e = MulDiv(p + d, b.matched[~z], b.matched[z]) - MulDiv(p, b.matched[~z], b.matched[z])
  BY <1>4 DEF OutputShare
<1> HIDE DEF p, d, e
<1>6. Distance(e * b.matched[z], d * b.matched[~z]) < b.matched[z]
  BY <1>1, <1>3, <1>5, MulDivProportional
<1>7. QED BY <1>2, <1>6 DEF Allocate, p, d, e

\* Only AllocateNext adds a share, and the budget does not change under the
\* shares already given.
LEMMA SharesStepInv ==
    AllocInv /\ SharesAreProportional /\ [Next]_vars => SharesAreProportional'
<1> SUFFICES ASSUME AllocInv, SharesAreProportional, [Next]_vars
             PROVE  SharesAreProportional'
  OBVIOUS
<1>1. CASE AllocateNext
  <2> DEFINE o == orders[next]
             z == o.zeroForOne
             a == Allocate(budget, z, before[z], o.amountIn)
             b == budget
  <2>1. o \in Order /\ z \in Sides /\ o.amountIn \in Nat
    <3>1. o \in Order BY <1>1 DEF AllocInv, BatchInv, AllocateNext
    <3>2. QED BY <3>1 DEF Order
  <2>2. /\ Distance(a.matchedInput * b.total[z], o.amountIn * b.matched[z]) < b.total[z]
        /\ Distance(a.matchedOutput * b.matched[z], a.matchedInput * b.matched[~z])
              < b.matched[z]
    <3>1. status = "allocating" BY <1>1 DEF AllocateNext
    <3>2. /\ budget.total \in [Sides -> Nat \ {0}]
          /\ budget.matched \in [Sides -> Nat \ {0}]
          /\ \A y \in Sides : budget.matched[y] <= budget.total[y]
          /\ before[z] \in Nat
      BY <2>1, <3>1 DEF AllocInv, BatchInv, SharesDrawn
    <3>3. QED BY <2>1, <3>2, AllocateProportional
  <2>3. /\ allocations' = Append(allocations, a) /\ orders' = orders /\ budget' = budget
        /\ Len(allocations) = next - 1 /\ next \in Nat
        /\ allocations \in Seq([matchedInput : Int, matchedOutput : Int, residual : Int])
    BY <1>1 DEF AllocateNext, AllocInv, BatchInv
  <2> HIDE DEF a
  <2> SUFFICES ASSUME NEW i \in DOMAIN allocations'
               PROVE  LET c == allocations'[i]
                          y == orders[i].zeroForOne
                      IN  /\ Distance(c.matchedInput * b.total[y], orders[i].amountIn * b.matched[y])
                                < b.total[y]
                          /\ Distance(c.matchedOutput * b.matched[y], c.matchedInput * b.matched[~y])
                                < b.matched[y]
    BY <2>3 DEF SharesAreProportional
  <2>4. CASE i = next
    <3>1. allocations'[i] = a BY <2>3, <2>4
    <3>2. QED BY <2>2, <2>4, <3>1
  <2>5. CASE i # next
    <3>1. i \in DOMAIN allocations /\ allocations'[i] = allocations[i] BY <2>3, <2>5
    <3>2. QED BY <3>1 DEF SharesAreProportional
  <2>6. QED BY <2>4, <2>5
<1>2. CASE ComputeBudget
  <2>1. allocations' = <<>> BY <1>2 DEF ComputeBudget, AllocInv
  <2>2. DOMAIN allocations' = {} BY <2>1
  <2>3. QED BY <2>2 DEF SharesAreProportional
<1>3. CASE SumNext \/ BudgetReverts \/ AllocationReverts \/ Finish \/ UNCHANGED vars
  <2>1. UNCHANGED <<allocations, orders, budget>>
    BY <1>3 DEF SumNext, BudgetReverts, AllocationReverts, Revert, Finish, vars
  <2>2. QED BY <2>1 DEF SharesAreProportional
<1>4. QED BY <1>1, <1>2, <1>3 DEF Next

\* Every order gets its proportional share of both tokens to within a unit,
\* whatever the batch, the price and the place the sort gave it.
THEOREM ProportionalShares == Spec => []SharesAreProportional
<1>1. Init => SharesAreProportional
  <2>1. ASSUME Init PROVE DOMAIN allocations = {} BY <2>1 DEF Init
  <2>2. QED BY <2>1 DEF SharesAreProportional
<1>2. QED BY <1>1, AllocInitInv, AllocStepInv, SharesStepInv, PTL DEF Spec
=============================================================================

---------------------------- MODULE MatchingBatch ----------------------------
(***************************************************************************)
(* The two loops of MixedHook.openBatch: the first adds up the input of each *)
(* side, then the orders, in canonical order, draw one after the other on    *)
(* the budgets of MatchingMath.                                              *)
(* The sums are what the hook will owe and be owed by the pool manager when  *)
(* every order has been swapped.                                             *)
(***************************************************************************)
EXTENDS MatchingMath, Sequences

CONSTANTS
    Batches,        \* the sequences of orders considered
    SqrtPrices      \* the pool prices considered

Order == [ zeroForOne : Sides, amountIn : Nat \ {0} ]

ASSUME BatchAssumption ==
    /\ \A orders \in Batches : orders \in Seq(Order)
    /\ SqrtPrices \subseteq Nat

VARIABLES
    orders,         \* the batch, sorted
    price,          \* the reference price s
    status,         \* "summing", "allocating", "done" or "reverted"
    totals,          \* t0 and t1: input of each side summed so far
    running,        \* history: totals as it was before each order
    budget,         \* the Budget, once computed
    next,           \* the order the loop is at
    before,         \* c0 and c1: input of each side before that order
    allocations,    \* _allocations
    sumIn,          \* matched input of each side so far
    sumOut          \* matched output of each side so far

vars == <<orders, price, status, totals, running, budget, next, before, allocations, sumIn, sumOut>>

NoBudget == [total |-> [z \in Sides |-> 0], matched |-> [z \in Sides |-> 0]]

Init ==
    /\ orders \in Batches
    /\ price \in SqrtPrices
    /\ status = "summing"
    /\ totals = [z \in Sides |-> 0]
    /\ running = [i \in 1..(Len(orders) + 1) |-> [z \in Sides |-> 0]]
    /\ budget = NoBudget
    /\ next = 1
    /\ before = [z \in Sides |-> 0]
    /\ allocations = <<>>
    /\ sumIn = [z \in Sides |-> 0]
    /\ sumOut = [z \in Sides |-> 0]

Revert ==
    /\ status' = "reverted"
    /\ UNCHANGED <<orders, price, totals, running, budget, next, before, allocations, sumIn, sumOut>>

SumNext ==
    /\ status = "summing" /\ next <= Len(orders)
    /\ totals' = [totals EXCEPT ![orders[next].zeroForOne] = @ + orders[next].amountIn]
    /\ running' = [running EXCEPT ![next + 1] = totals']
    /\ next' = next + 1
    /\ UNCHANGED <<orders, price, status, budget, before, allocations, sumIn, sumOut>>

\* Mutant: the second loop goes on with the index of the first.
IndexKept == next

\* Each loop starts with the first order.
FirstOrder == 1

ComputeBudget ==
    /\ status = "summing" /\ next > Len(orders)
    /\ BudgetDefined(totals, price)
    /\ budget' = Budget(totals, price)
    /\ status' = "allocating"
    /\ next' = FirstOrder
    /\ UNCHANGED <<orders, price, totals, running, before, allocations, sumIn, sumOut>>

BudgetReverts ==
    /\ status = "summing" /\ next > Len(orders)
    /\ ~BudgetDefined(totals, price)
    /\ Revert

AllocateNext ==
    /\ status = "allocating" /\ next <= Len(orders)
    /\ LET z == orders[next].zeroForOne
           amount == orders[next].amountIn
           a == Allocate(budget, z, before[z], amount)
       IN  /\ AllocationDefined(budget, z, before[z], amount)
           /\ allocations' = Append(allocations, a)
           /\ before' = [before EXCEPT ![z] = @ + amount]
           /\ sumIn' = [sumIn EXCEPT ![z] = @ + a.matchedInput]
           /\ sumOut' = [sumOut EXCEPT ![z] = @ + a.matchedOutput]
    /\ next' = next + 1
    /\ UNCHANGED <<orders, price, status, totals, running, budget>>

AllocationReverts ==
    /\ status = "allocating" /\ next <= Len(orders)
    /\ LET z == orders[next].zeroForOne IN
       ~AllocationDefined(budget, z, before[z], orders[next].amountIn)
    /\ Revert

Finish ==
    /\ status = "allocating" /\ next > Len(orders)
    /\ status' = "done"
    /\ UNCHANGED <<orders, price, totals, running, budget, next, before, allocations, sumIn, sumOut>>

Next == SumNext \/ ComputeBudget \/ BudgetReverts \/ AllocateNext \/ AllocationReverts \/ Finish

Spec == Init /\ [][Next]_vars

-----------------------------------------------------------------------------
(* Properties. *)

\* What the hook takes of a token for the matched orders of one side is exactly
\* what it gives to the orders of the other: its balance with the pool manager
\* is zero in both tokens, or the unlock would revert.  Rounding loses nothing.
HookBalanced ==
    status = "done" => \A z \in Sides : sumIn[z] = sumOut[~z]

\* No allocation takes more than the order offers or returns less than nothing:
\* the unchecked casts to int128 in beforeSwap are of natural numbers.
AllocationsWithinOrders ==
    \A i \in DOMAIN allocations :
        LET a == allocations[i] IN
        /\ a.matchedInput \in 0..orders[i].amountIn
        /\ a.residual = orders[i].amountIn - a.matchedInput
        /\ a.matchedOutput \in Nat

Distance(a, b) == IF a < b THEN b - a ELSE a - b

\* Reference: each order gets its proportional share of its side's match and, for
\* it, of the other side's, to within one unit, wherever the sort put it.
SharesAreProportional ==
    \A i \in DOMAIN allocations :
        LET a == allocations[i]
            z == orders[i].zeroForOne
            total == budget.total[z]
            matched == budget.matched[z]
        IN  /\ Distance(a.matchedInput * total, orders[i].amountIn * matched) < total
            /\ Distance(a.matchedOutput * matched, a.matchedInput * budget.matched[~z]) < matched

\* Matched flow crosses at the reference price, rounded against token 1's buyers
\* by less than a unit, within the totals.
CrossesAtReferencePrice ==
    status \in {"allocating", "done"} =>
        LET n == Numerator(price) IN
        /\ \A z \in Sides : budget.matched[z] \in 1..budget.total[z]
        /\ budget.matched[FALSE] * Q192 <= budget.matched[TRUE] * n
        /\ budget.matched[TRUE] * n < (budget.matched[FALSE] + 1) * Q192

\* The match is maximal: either side 0 crosses whole, or what is left of side 1
\* is dust, worth less than one unit of token 0 and one of token 1 together.
OnlyDustIsLeft ==
    status \in {"allocating", "done"} =>
        \/ budget.matched[TRUE] = budget.total[TRUE]
        \/ (budget.total[FALSE] - budget.matched[FALSE]) * Q192 < Numerator(price) + Q192

TypeOK ==
    /\ orders \in Batches
    /\ price \in SqrtPrices
    /\ status \in {"summing", "allocating", "done", "reverted"}
    /\ totals \in [Sides -> Nat]
    /\ running \in [1..(Len(orders) + 1) -> [Sides -> Nat]]
    /\ budget \in [total : [Sides -> Nat], matched : [Sides -> Nat]]
    /\ next \in 1..(Len(orders) + 1)
    /\ before \in [Sides -> Nat]
    /\ status = "summing" => allocations = <<>>
    /\ status \in {"allocating", "done"} => Len(allocations) = next - 1
    /\ sumIn \in [Sides -> Nat]
    /\ sumOut \in [Sides -> Nat]
=============================================================================

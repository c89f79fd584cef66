---------------------------- MODULE MatchingMath ----------------------------
(***************************************************************************)
(* The arithmetic of a match, contracts/src/mixed/MatchingMath.sol: opposite *)
(* orders cross at the square of the pool's sqrt price, every division       *)
(* rounds down, and each side's budget is shared out cumulatively.           *)
(*                                                                         *)
(* A side is the value of zeroForOne: TRUE sells token 0.  FullMath.mulDiv   *)
(* is exact in 512 bits; that no 256-bit value overflows follows from        *)
(* MAX_AMOUNT, which bounds every total.                                     *)
(***************************************************************************)
EXTENDS Integers

CONSTANTS
    Q192,           \* the fixed-point unit of a squared sqrt price, 2^192
    MAX_AMOUNT,     \* 2^127 - 1
    MinSqrt, MaxSqrt    \* the sqrt prices at ticks -100 and 100

ASSUME MathAssumption ==
    /\ Q192 \in Nat \ {0}
    /\ MAX_AMOUNT \in Nat \ {0}
    /\ MinSqrt \in Nat \ {0}
    /\ MaxSqrt \in Nat

Sides == BOOLEAN

MulDiv(a, b, d) == (a * b) \div d

\* numerator: defined within the supported band only.
PriceSupported(s) == s \in MinSqrt..MaxSqrt
Numerator(s) == s * s

\* Mutant: the budget of side 1 is converted rounding up.
MatchedRoundingUp(total, s) ==
    LET n == Numerator(s)
        converted == MulDiv(total[FALSE], Q192, n) + 1
        m0 == IF total[TRUE] < converted THEN total[TRUE] ELSE converted
    IN  [z \in Sides |-> IF z THEN m0 ELSE MulDiv(m0, n, Q192)]

\* Mutant: the conversion loses a unit of side 1.
MatchedLosingAUnit(total, s) ==
    LET n == Numerator(s)
        converted == MulDiv(total[FALSE] - 1, Q192, n)
        m0 == IF total[TRUE] < converted THEN total[TRUE] ELSE converted
    IN  [z \in Sides |-> IF z THEN m0 ELSE MulDiv(m0, n, Q192)]

\* The part of each side's total that crosses at the price s.
Matched(total, s) ==
    LET n == Numerator(s)
        converted == MulDiv(total[FALSE], Q192, n)
        m0 == IF total[TRUE] < converted THEN total[TRUE] ELSE converted
    IN  [z \in Sides |-> IF z THEN m0 ELSE MulDiv(m0, n, Q192)]

\* budget: a match needs both sides, bounded totals and something that crosses.
BudgetDefined(total, s) ==
    /\ \A z \in Sides : total[z] \in 1..MAX_AMOUNT
    /\ PriceSupported(s)
    /\ \A z \in Sides : Matched(total, s)[z] # 0

Budget(total, s) == [total |-> total, matched |-> Matched(total, s)]

\* Mutant: a share of the total of the other side.
InputShareOfOther(b, z, input) == MulDiv(input, b.matched[z], b.total[~z])

\* How much of a side's matched input its first `input' units stand for, and
\* how much of the other side's they receive.
InputShare(b, z, input) == MulDiv(input, b.matched[z], b.total[z])
OutputShare(b, z, input) == MulDiv(InputShare(b, z, input), b.matched[~z], b.matched[z])

\* Mutant: an order is rounded on its own, not as a step of the running total.
AllocateAlone(b, z, before, amount) ==
    LET matchedInput == InputShare(b, z, amount)
    IN  [ matchedInput |-> matchedInput,
          matchedOutput |-> OutputShare(b, z, amount),
          residual |-> amount - matchedInput ]

\* allocate: the order's step of the two cumulative shares of its side.
Allocate(b, z, before, amount) ==
    LET matchedInput == InputShare(b, z, before + amount) - InputShare(b, z, before)
    IN  [ matchedInput |-> matchedInput,
          matchedOutput |-> OutputShare(b, z, before + amount) - OutputShare(b, z, before),
          residual |-> amount - matchedInput ]

\* allocate reverts on a total exceeded and on input matched for nothing.
AllocationDefined(b, z, before, amount) ==
    /\ amount # 0
    /\ before + amount <= b.total[z]
    /\ LET a == Allocate(b, z, before, amount)
       IN  a.matchedInput # 0 => a.matchedOutput # 0
=============================================================================

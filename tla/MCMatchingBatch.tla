--------------------------- MODULE MCMatchingBatch ---------------------------
(* Many small orders, and a few larger ones that round in more ways, at prices *)
(* on both sides of one and outside the supported band.                        *)
EXTENDS MatchingBatch

CONSTANTS ManyOrders, SmallUnits, FewOrders, LargeUnits

BatchesOf(maxOrders, maxUnits) ==
    UNION {[1..k -> [zeroForOne : Sides, amountIn : 1..maxUnits]] : k \in 2..maxOrders}

MCBatches == BatchesOf(ManyOrders, SmallUnits) \cup BatchesOf(FewOrders, LargeUnits)
=============================================================================

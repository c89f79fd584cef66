--------------------------- MODULE MCMixedExecution ---------------------------
(* Two users and six orders: a buy and three sells that match it in several     *)
(* ways, two of them on one nonce, a direct swap, and an order nobody signed.   *)
EXTENDS MixedExecution

CONSTANTS u1, u2

OrderOf(u, space, zeroForOne, amountIn, minOut, maxAmm, deadline, nonce) ==
    [ user |-> u, space |-> space, zeroForOne |-> zeroForOne, amountIn |-> amountIn,
      minAmountOut |-> minOut, maxAmmInput |-> maxAmm, minSqrtPrice |-> 4,
      maxSqrtPrice |-> 5, deadline |-> deadline, nonce |-> nonce ]

Buy == OrderOf(u1, BATCH_ORDER, FALSE, 5, 3, 2, 2, 1)
Sell == OrderOf(u2, BATCH_ORDER, TRUE, 4, 4, 3, 1, 1)
SellMore == OrderOf(u2, BATCH_ORDER, TRUE, 3, 3, 3, 2, 1)
SellToo == OrderOf(u1, BATCH_ORDER, TRUE, 2, 1, 1, 2, 2)
Direct == OrderOf(u1, DIRECT_SWAP, TRUE, 2, 1, 2, 2, 1)
Unsigned == OrderOf(u2, BATCH_ORDER, FALSE, 2, 1, 2, 2, 2)

MCSigned == {Buy, Sell, SellMore, SellToo, Direct}
MCOrders == MCSigned \cup {Unsigned}
MCHashOf == [o \in MCOrders |->
    CASE o = Buy -> 3 [] o = Sell -> 1 [] o = SellMore -> 4 [] o = SellToo -> 6
      [] o = Direct -> 5 [] OTHER -> 2]
MCFunds == [u \in Users |-> [t \in Sides |-> 5]]
MCLiquidity == [t \in Sides |-> 4]
=============================================================================

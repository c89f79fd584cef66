------------------------------ MODULE Settlement ------------------------------
(***************************************************************************)
(* What the execution router promises to everybody who looks at the chain   *)
(* between two transactions: wallets and the pool move only by settlements, *)
(* each of which happens at once, as a whole, between orders their users     *)
(* signed, at their limits, each authorization once.                        *)
(***************************************************************************)
EXTENDS Integers, Functions

CONSTANTS
    Users,
    Signed          \* the orders the users signed

VARIABLES
    now,            \* the block timestamp
    price,          \* the sqrt price of the pool
    wallet,         \* wallet[u][t]: token 0 is t = TRUE, the input of a zeroForOne
    reserve,        \* what the liquidity of the pool is worth in each token
    spent,          \* the nonces used up
    eligible,       \* the users who may trade
    fills           \* every fill settled so far

OfSide(F, z) == {f \in F : f.order.zeroForOne = z}

\* What fills F come to.
Sold(F) == SumFunctionOnSet([f \in F |-> f.order.amountIn], F)
Bought(F) == SumFunctionOnSet([f \in F |-> f.matchedOutput + f.ammOutput], F)
MatchedIn(F) == SumFunctionOnSet([f \in F |-> f.matchedInput], F)
MatchedOut(F) == SumFunctionOnSet([f \in F |-> f.matchedOutput], F)
PoolIn(F) == SumFunctionOnSet([f \in F |-> f.ammInput], F)
PoolOut(F) == SumFunctionOnSet([f \in F |-> f.ammOutput], F)

SpentBy(f) == <<f.order.user, f.order.space, f.order.nonce>>

\* A fill takes the whole input of a signed order of a user who may trade, before its
\* deadline and at a price of the pool it admits, and takes no more of it to the public
\* liquidity than the order allows.
FillAsSigned(f) ==
    /\ f.order \in Signed
    /\ f.order.user \in eligible
    /\ now <= f.order.deadline
    /\ f.order.minSqrtPrice <= price /\ price <= f.order.maxSqrtPrice
    /\ f.matchedInput >= 0 /\ f.matchedOutput >= 0 /\ f.ammOutput >= 0
    /\ f.ammInput \in 0..f.order.maxAmmInput
    /\ f.matchedInput + f.ammInput = f.order.amountIn
    /\ f.matchedOutput + f.ammOutput >= f.order.minAmountOut

\* Fills F: what one side gives for its match the other receives, what is left
\* goes through the pool, and nothing stays behind.
Settle ==
    LET F == fills' \ fills
        Of(u) == {f \in F : f.order.user = u}
    IN  /\ F # {} /\ fills \subseteq fills'
        /\ \A f \in F : FillAsSigned(f) /\ SpentBy(f) \notin spent
        /\ \A f, g \in F : SpentBy(f) = SpentBy(g) => f = g
        /\ \A z \in BOOLEAN : MatchedIn(OfSide(F, z)) = MatchedOut(OfSide(F, ~z))
        /\ wallet' = [u \in Users |-> [t \in BOOLEAN |->
              wallet[u][t] - Sold(OfSide(Of(u), t)) + Bought(OfSide(Of(u), ~t))]]
        /\ reserve' = [t \in BOOLEAN |->
              reserve[t] + PoolIn(OfSide(F, t)) - PoolOut(OfSide(F, ~t))]
        /\ spent' = spent \cup {SpentBy(f) : f \in F}
        /\ UNCHANGED <<now, eligible>>

\* A user voids an authorization.
Cancel ==
    /\ spent \subseteq spent'
    /\ UNCHANGED <<now, price, wallet, reserve, eligible, fills>>

\* Somebody becomes, or ceases to be, eligible.
Review ==
    /\ eligible' \subseteq Users
    /\ UNCHANGED <<now, price, wallet, reserve, spent, fills>>

\* Time passes.
Tick ==
    /\ now' > now
    /\ UNCHANGED <<price, wallet, reserve, spent, eligible, fills>>

Init ==
    /\ now \in Nat /\ price \in Nat
    /\ wallet \in [Users -> [BOOLEAN -> Nat]]
    /\ reserve \in [BOOLEAN -> Nat]
    /\ spent = {} /\ eligible = {} /\ fills = {}

Next == Settle \/ Cancel \/ Review \/ Tick

Spec == Init /\ [][Next]_<<now, price, wallet, reserve, spent, eligible, fills>>
=============================================================================

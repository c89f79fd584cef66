---------------------------- MODULE MixedLiquidity ----------------------------
(***************************************************************************)
(* Liquidity: MixedLiquidityRouter.sol's modify, through the pool manager   *)
(* and the hook's checks of it (MixedHook.sol, _liquidity).                 *)
(*                                                                         *)
(* Each user has one position.  A message is in signed from its signature   *)
(* to its deadline.  Everybody else is the environment: swaps move the      *)
(* price and earn fees, feeds fail and recover, eligibility comes and goes  *)
(* as Eligibility has it and may be lost for good.  Token 0 is TRUE.        *)
(***************************************************************************)
EXTENDS Integers, FiniteSets

CONSTANTS
    Users, Nonces,
    Prices,         \* the prices the pool may have
    MaxPrice,       \* above it a position is all of token 1
    Deltas,         \* how much is added or removed at a time
    Limits,         \* the amounts a user limits, of each token
    Funds,          \* what each wallet holds, and has approved, of each token
    MaxFees,        \* bound: the fees a position is owed of each token
    MaxActivations  \* bound: how often a user becomes eligible

VARIABLES
    nonces, eligible, activations,
    price, feeds,       \* the pool's price, and whether the feeds answer
    liquidity, fees,    \* each user's position, and what it has earned
    wallet,
    signed,             \* authorizations before their deadline
    leaving             \* users who want all they have in the pool

INSTANCE MixedAuthorization
Grants == INSTANCE Eligibility

Tokens == BOOLEAN
position == <<liquidity, fees, wallet>>
market == <<price, feeds>>
outside == <<eligible, activations>>
vars == <<nonces, outside, market, position, signed, leaving>>

ASSUME LiquidityAssumption ==
    /\ Prices \subseteq 0..MaxPrice /\ Prices # {}
    /\ Deltas \subseteq Nat \ {0}
    /\ Limits \subseteq Nat /\ 0 \in Limits
    /\ Funds \in Nat /\ MaxFees \in Nat /\ MaxActivations \in Nat

----------------------------------------------------------------------------
(* The pool manager.                                                       *)

\* What an amount of liquidity is made of at the price.
Principal(amount) == [t \in Tokens |-> amount * (IF t THEN MaxPrice - price ELSE price)]

\* A swap of others, which needs feeds that answer.
SwapOfOthers ==
    /\ feeds
    /\ price' \in Prices
    /\ \E t \in Tokens :
          fees' = [u \in Users |->
                     IF liquidity[u] > 0 /\ fees[u][t] < MaxFees
                     THEN [fees[u] EXCEPT ![t] = @ + 1] ELSE fees[u]]
    /\ UNCHANGED <<nonces, outside, feeds, liquidity, wallet, signed, leaving>>

Feeds ==
    /\ feeds' = ~feeds
    /\ UNCHANGED <<nonces, outside, price, position, signed, leaving>>

Eligibility ==
    /\ Grants!Next
    /\ \A u \in Users : activations'[u] <= MaxActivations
    /\ UNCHANGED <<nonces, market, position, signed, leaving>>

----------------------------------------------------------------------------
(* The hook and the router.                                                *)

ExpectedAction(delta) ==
    CASE delta > 0 -> LP_ADD [] delta < 0 -> LP_EXIT [] OTHER -> LP_COLLECT

\* As if every change of a position asked for eligibility.
EligibleAnyway(a) == a.user \in eligible

EligibleToAdd(a) == a.action = LP_ADD => a.user \in eligible

\* _liquidity, in the order of the code.
HookAccepts(a) ==
    /\ a.action = ExpectedAction(a.delta)
    /\ a \in signed
    /\ EligibleToAdd(a)
    /\ Consume(a.user, a.action, a.nonce)

\* What the user pays (negative) and gets, fees included.
Delta(a) ==
    [t \in Tokens |-> fees[a.user][t]
        + IF a.delta > 0 THEN -Principal(a.delta)[t] ELSE Principal(-a.delta)[t]]

\* An addition's limits bound the principal paid, whatever the fees earned.
WithinLimits(a) ==
    \A t \in Tokens :
        IF a.action = LP_ADD THEN Principal(a.delta)[t] <= a.limit[t]
        ELSE Delta(a)[t] >= a.limit[t]

\* fund and pay.
Settle(a) ==
    /\ \A t \in Tokens : wallet[a.user][t] + Delta(a)[t] >= 0
    /\ wallet' = [wallet EXCEPT ![a.user] = [t \in Tokens |-> @[t] + Delta(a)[t]]]

\* One call of the owner; any modification of a position pays out its fees.
Modify(a) ==
    /\ HookAccepts(a)
    /\ liquidity[a.user] + a.delta >= 0
    /\ a.delta = 0 => liquidity[a.user] > 0
    /\ liquidity' = [liquidity EXCEPT ![a.user] = @ + a.delta]
    /\ fees' = [fees EXCEPT ![a.user] = [t \in Tokens |-> 0]]
    /\ WithinLimits(a)
    /\ Settle(a)
    /\ signed' = signed \ {a}
    /\ UNCHANGED <<outside, market, leaving>>

----------------------------------------------------------------------------
(* The users.                                                              *)

Authorization(u, delta, limit, n) ==
    [user |-> u, action |-> ExpectedAction(delta), delta |-> delta, limit |-> limit, nonce |-> n]

Unused(u, space) == {n \in Nonces : ~NonceUsed(u, space, n)}

\* Nonces do not run out: what uses n up leaves another one for the exit.
Spare(u, space, n) ==
    space = LP_EXIT =>
        \E k \in Unused(u, space) \ {n} :
            \A a \in signed : a.user = u /\ a.action = space => a.nonce # k

Holds(u) == liquidity[u] > 0
Waiting(u) == \E a \in signed : a.user = u

Sign(u, delta, limit, n) ==
    /\ ~Waiting(u)
    /\ n \in Unused(u, ExpectedAction(delta))
    /\ signed' = signed \cup {Authorization(u, delta, limit, n)}
    /\ UNCHANGED <<nonces, outside, market, position, leaving>>

SignSomething(u) ==
    /\ u \notin leaving
    /\ \E delta \in Deltas \cup {0} \cup {-d : d \in {x \in Deltas : x <= liquidity[u]}} :
          \E limit \in [Tokens -> Limits], n \in Nonces :
              Spare(u, ExpectedAction(delta), n) /\ Sign(u, delta, limit, n)

\* Who wants out signs for all of it, with limits the present price meets.
SignExit(u) ==
    /\ u \in leaving /\ Holds(u)
    /\ \E limit \in [Tokens -> Limits], n \in Nonces :
          /\ \A t \in Tokens : limit[t] <= Principal(liquidity[u])[t]
          /\ Sign(u, -liquidity[u], limit, n)

\* A deadline passes.
Expire ==
    /\ \E a \in signed : signed' = signed \ {a}
    /\ UNCHANGED <<nonces, outside, market, position, leaving>>

VoidNonce(u) ==
    /\ u \notin leaving
    /\ \E space \in {LP_ADD, LP_EXIT, LP_COLLECT}, n \in Nonces :
          Spare(u, space, n) /\ CancelNonce(u, space, n)
    /\ UNCHANGED <<outside, market, position, signed, leaving>>

Leave(u) ==
    /\ u \notin leaving /\ Holds(u)
    /\ leaving' = leaving \cup {u}
    /\ UNCHANGED <<nonces, outside, market, position, signed>>

----------------------------------------------------------------------------

NoTokens == [t \in Tokens |-> 0]

Init ==
    /\ nonces = {}
    /\ Grants!Init
    /\ price \in Prices /\ feeds = TRUE
    /\ liquidity = [u \in Users |-> 0]
    /\ fees = [u \in Users |-> NoTokens]
    /\ wallet = [u \in Users |-> [t \in Tokens |-> Funds]]
    /\ signed = {}
    /\ leaving = {}

ModifyOwn(u) == \E a \in signed : a.user = u /\ Modify(a)

Next ==
    \/ SwapOfOthers \/ Feeds \/ Eligibility \/ Expire
    \/ \E u \in Users :
          SignSomething(u) \/ SignExit(u) \/ ModifyOwn(u) \/ VoidNonce(u) \/ Leave(u)

\* Deadlines pass; who wants out keeps signing, and keeps sending what can still go.
Fairness ==
    /\ WF_vars(Expire)
    /\ \A u \in Users : WF_vars(SignExit(u)) /\ SF_vars(u \in leaving /\ ModifyOwn(u))

Spec == Init /\ [][Next]_vars /\ Fairness

-----------------------------------------------------------------------------
(* Properties. *)

\* Whoever wants to leave gets all of his liquidity and fees out, whatever becomes of
\* his eligibility, the policy and the feeds, and however the price moves between
\* signature and call (MixedHook.sol:282, MixedLiquidityRouter.sol:88-93).
HoldersGetOut ==
    \A u \in Users : u \in leaving ~> liquidity[u] = 0 /\ fees[u] = NoTokens
=============================================================================

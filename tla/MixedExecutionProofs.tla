------------------------- MODULE MixedExecutionProofs -------------------------
(***************************************************************************)
(* What a call of the execution router leaves behind, for any orders, any   *)
(* liquidity, any prices, any users and any length of batch; and what its   *)
(* accounts and its allocations are on the way.                             *)
(*                                                                         *)
(* The accounts are sums over the orders of a side.  What a sum over a      *)
(* finite set is, and how it grows by one member, is shown from the fold it *)
(* is defined by, each time from the smallest set that would disobey.       *)
(*                                                                         *)
(* At the end: a call that returns did what its fills say, to wallets, pool *)
(* and authorizations, so that calls are the atomic settlements that        *)
(* Settlement promises.                                                     *)
(***************************************************************************)
EXTENDS MixedExecution, FiniteSetTheorems, WellFoundedInduction, TLAPS

-----------------------------------------------------------------------------
(* The inductive invariant. *)

Phases == {"idle", "open", "fund", "swap", "close", "pay", "return"}

HookIsClear ==
    ~hookActive /\ current = NoContext /\ hashes = <<>> /\ allocations = <<>>

\* What an abort would go back to is a state between two calls: the hook is clear in it,
\* and the price is in the band.
SavedIsClear ==
    /\ saved = [ nonces |-> saved.nonces, wallet |-> saved.wallet, reserve |-> saved.reserve,
                 price |-> saved.price, fills |-> saved.fills, hookActive |-> saved.hookActive,
                 current |-> saved.current, hashes |-> saved.hashes,
                 allocations |-> saved.allocations ]
    /\ ~saved.hookActive /\ saved.current = NoContext
    /\ saved.hashes = <<>> /\ saved.allocations = <<>>
    /\ InBand(saved.price)

\* The hook holds a context from open to close and at no other time, and the flags of
\* the router are up for as long as a call runs.
CallInv ==
    /\ phase \in Phases
    /\ phase = "idle" => ~routerActive /\ ~quoting /\ deltas = NoDeltas
    /\ phase \in {"idle", "open", "pay", "return"} => HookIsClear
    /\ phase # "idle" => SavedIsClear
    /\ InBand(price)

-----------------------------------------------------------------------------
(* The invariant is preserved, one step per kind of step of a call. *)

\* Before the first call everything is clear.
LEMMA CallInitInv == Init => CallInv
BY DEF Init, CallInv, Phases, HookIsClear

\* A call starts from a clear hook, and saves that state.
LEMMA CallBegins ==
    ASSUME CallInv, NEW os, NEW dir, NEW quote, Call(os, dir, quote)
    PROVE  CallInv'
<1>1. /\ phase = "idle" /\ phase' = "open" /\ saved' = Persistent
      /\ UNCHANGED <<price, hookActive, current, hashes, allocations>>
  BY DEF Call, accounts, context
<1>2. HookIsClear /\ InBand(price)
  BY <1>1 DEF CallInv
<1>3. SavedIsClear'
  BY <1>1, <1>2 DEF SavedIsClear, Persistent, HookIsClear, InBand
<1> QED BY <1>1, <1>2, <1>3 DEF CallInv, Phases, HookIsClear, InBand

\* A step within a call that leaves the hook's context, or empties it, and moves the
\* price within the band.
LEMMA CallGoesOn ==
    ASSUME CallInv, phase # "idle", phase' \in Phases \ {"idle"}, UNCHANGED saved,
           phase' \in {"open", "pay", "return"} => HookIsClear',
           InBand(price)'
    PROVE  CallInv'
<1>1. SavedIsClear'
  BY DEF CallInv, SavedIsClear, InBand
<1> QED BY <1>1 DEF CallInv

\* openBatch fills the context of the hook.
LEMMA OpenInv == CallInv /\ Open => CallInv'
<1> SUFFICES ASSUME CallInv, Open PROVE CallInv'
  OBVIOUS
<1>1. /\ phase = "open" /\ phase' = "fund" /\ UNCHANGED <<saved, price>>
  BY DEF Open
<1>2. InBand(price)'
  BY <1>1 DEF CallInv, InBand
<1> QED BY <1>1, <1>2, CallGoesOn DEF Phases

\* Funding touches neither the context nor the price.
LEMMA FundInv == CallInv /\ Fund => CallInv'
<1> SUFFICES ASSUME CallInv, Fund PROVE CallInv'
  OBVIOUS
<1>1. phase = "fund" /\ phase' \in {"fund", "swap"} /\ UNCHANGED <<saved, price>>
  BY DEF Fund, Advance
<1>2. InBand(price)'
  BY <1>1 DEF CallInv, InBand
<1> QED BY <1>1, <1>2, CallGoesOn DEF Phases

\* A swap is given the edge of the band it moves towards as its limit.
LEMMA SwapInBand ==
    ASSUME InBand(price), NEW STATE z, NEW STATE input, NEW output, NEW p,
           AmmSwap(z, input, output, p)
    PROVE  InBand(price')
<1>1. price \in MinSqrt..MaxSqrt /\ p \in Nat /\ price' = p
  BY ExecutionAssumption DEF AmmSwap, InBand, PriceSupported
<1>2. \/ p = price
      \/ MinSqrt <= p /\ p <= price
      \/ price <= p /\ p <= MaxSqrt
  BY DEF AmmSwap, PriceLimit
<1> QED BY <1>1, <1>2, MathAssumption DEF InBand, PriceSupported

\* A swap is within the context and leaves the price in the band.
LEMMA SwapInv == CallInv /\ Swap => CallInv'
<1> SUFFICES ASSUME CallInv, Swap PROVE CallInv'
  OBVIOUS
<1> DEFINE z == orders[index].zeroForOne
           residual == allocations[index].residual
<1>1. phase = "swap" /\ phase' \in {"swap", "close"} /\ UNCHANGED saved
  BY DEF Swap, Advance
<1>2. PICK output \in AmmOutputs, p \in Prices : AmmSwap(z, residual, output, p)
  BY DEF Swap
<1>3. InBand(price')
  BY <1>2, SwapInBand DEF CallInv
<1>4. InBand(price)'
  BY <1>3 DEF InBand
<1> QED BY <1>1, <1>4, CallGoesOn DEF Phases

\* closeBatch empties the context.
LEMMA CloseInv == CallInv /\ Close => CallInv'
<1> SUFFICES ASSUME CallInv, Close PROVE CallInv'
  OBVIOUS
<1>1. phase = "close" /\ phase' = "pay" /\ UNCHANGED <<saved, price>>
  BY DEF Close, accounts
<1>2. HookIsClear'
  BY DEF Close, HashesDeleted, HookIsClear
<1>3. InBand(price)'
  BY <1>1 DEF CallInv, InBand
<1> QED BY <1>1, <1>2, <1>3, CallGoesOn DEF Phases

\* Paying touches neither the context nor the price.
LEMMA PayInv == CallInv /\ Pay => CallInv'
<1> SUFFICES ASSUME CallInv, Pay PROVE CallInv'
  OBVIOUS
<1>1. /\ phase = "pay" /\ phase' \in {"pay", "return"} /\ UNCHANGED <<saved, price>>
      /\ UNCHANGED <<hookActive, current, hashes, allocations>>
  BY DEF Pay, Advance, context
<1>2. HookIsClear'
  BY <1>1 DEF CallInv, HookIsClear
<1>3. InBand(price)'
  BY <1>1 DEF CallInv, InBand
<1> QED BY <1>1, <1>2, <1>3, CallGoesOn DEF Phases

\* A call that returns had its accounts settled, and its context deleted by closeBatch.
LEMMA ReturnInv == CallInv /\ Return => CallInv'
<1> SUFFICES ASSUME CallInv, Return PROVE CallInv'
  OBVIOUS
<1>1. /\ phase = "return" /\ phase' = "idle" /\ ~routerActive' /\ ~quoting'
      /\ deltas' = NoDeltas
      /\ UNCHANGED <<price, hookActive, current, hashes, allocations>>
  BY DEF Return, Finished, accounts, context
<1>2. HookIsClear' /\ InBand(price)'
  BY <1>1 DEF CallInv, HookIsClear, InBand
<1> QED BY <1>1, <1>2 DEF CallInv, Phases

\* One that aborts goes back to a clear state.
LEMMA AbortInv == CallInv /\ Abort => CallInv'
<1> SUFFICES ASSUME CallInv, Abort PROVE CallInv'
  OBVIOUS
<1>1. /\ phase # "idle" /\ phase' = "idle" /\ ~routerActive' /\ ~quoting'
      /\ deltas' = NoDeltas /\ price' = saved.price
      /\ hookActive' = saved.hookActive /\ current' = saved.current
      /\ hashes' = saved.hashes /\ allocations' = saved.allocations
  BY DEF Abort, Finished
<1>2. SavedIsClear
  BY <1>1 DEF CallInv
<1>3. HookIsClear' /\ InBand(price)'
  BY <1>1, <1>2 DEF SavedIsClear, HookIsClear, InBand
<1> QED BY <1>1, <1>3 DEF CallInv, Phases

\* Between two calls nothing the router or the hook keeps moves.
LEMMA OutsideInv == CallInv /\ Outside => CallInv'
<1> SUFFICES ASSUME CallInv, Outside PROVE CallInv'
  OBVIOUS
<1>1. /\ phase = "idle"
      /\ UNCHANGED <<phase, price, routerActive, quoting, deltas, saved>>
      /\ UNCHANGED <<hookActive, current, hashes, allocations>>
  BY DEF Outside, Tick, HookCancelNonce, Review, accounts, context, request
<1>2. HookIsClear' /\ InBand(price)'
  BY <1>1 DEF CallInv, HookIsClear, InBand
<1> QED BY <1>1, <1>2 DEF CallInv

\* Every step keeps the invariant.
LEMMA CallStepInv ==
    ASSUME CallInv, [Next]_vars
    PROVE  CallInv'
<1>1. CASE UNCHANGED vars
  <2>1. UNCHANGED <<phase, price, routerActive, quoting, deltas, saved, hookActive, current,
                    hashes, allocations>>
    BY <1>1 DEF vars, accounts, context, request
  <2> QED BY <2>1 DEF CallInv, HookIsClear, SavedIsClear, InBand
<1>2. CASE \E os \in Submissions, dir, quote \in BOOLEAN : Call(os, dir, quote)
  BY <1>2, CallBegins
<1>3. CASE Step
  BY <1>3, OpenInv, FundInv, SwapInv, CloseInv, PayInv, ReturnInv, AbortInv DEF Step
<1>4. CASE Outside
  BY <1>4, OutsideInv
<1> QED BY <1>1, <1>2, <1>3, <1>4 DEF Next

-----------------------------------------------------------------------------
(* The theorems on what a call leaves behind. *)

\* The inductive invariant holds in every reachable state.
THEOREM CallInvariant == Spec => []CallInv
<1>1. Init => CallInv BY CallInitInv
<1>2. CallInv /\ [Next]_vars => CallInv' BY CallStepInv
<1> QED BY <1>1, <1>2, PTL DEF Spec

\* No call leaves a flag, a context, an order hash or an open account to a later one.
THEOREM CallsAreSeparate == Spec => []NothingOutlivesACall
<1>1. CallInv => NothingOutlivesACall
  BY DEF CallInv, HookIsClear, NothingOutlivesACall
<1> QED BY <1>1, CallInvariant, PTL

\* No execution moves the pool out of the band, at no time within the call.
THEOREM PriceInBand == Spec => []PriceStaysInBand
<1>1. CallInv => PriceStaysInBand
  BY DEF CallInv, PriceStaysInBand
<1> QED BY <1>1, CallInvariant, PTL

-----------------------------------------------------------------------------
(* Sums over finite sets. *)

\* Of any numbers one is the smallest.
LEMMA SmallestNat ==
    ASSUME NEW B \in SUBSET Nat, B # {}
    PROVE  \E n \in B : \A m \in B : ~(m < n)
<1>1. IsWellFoundedOn(OpToRel(<, Nat), Nat)
  BY NatLessThanWellFounded
<1>2. \E x \in B : \A y \in B : ~(<<y, x>> \in OpToRel(<, Nat))
  BY <1>1, WFMin
<1> QED BY <1>2 DEF OpToRel

\* Among subsets of a finite set one has no other below it.
LEMMA SmallestSubset ==
    ASSUME NEW S, IsFiniteSet(S), NEW B \in SUBSET (SUBSET S), B # {}
    PROVE  \E s \in B : \A t \in SUBSET s : t # s => t \notin B
<1>1. \A s \in SUBSET S : IsFiniteSet(s) /\ Cardinality(s) \in Nat
  BY FS_Subset, FS_CardinalityType
<1> DEFINE Sizes == {Cardinality(s) : s \in B}
<1>2. Sizes \subseteq Nat /\ Sizes # {}
  BY <1>1
<1> HIDE DEF Sizes
<1>4. PICK n \in Sizes : \A m \in Sizes : ~(m < n)
  BY <1>2, SmallestNat
<1>5. PICK s \in B : Cardinality(s) = n
  BY <1>4 DEF Sizes
<1>6. ASSUME NEW t \in SUBSET s, t # s PROVE t \notin B
  <2>1. IsFiniteSet(s) /\ s \subseteq S
    BY <1>1
  <2>2. Cardinality(t) <= Cardinality(s) /\ Cardinality(t) # Cardinality(s)
    BY <1>6, <2>1, FS_Subset
  <2>3. Cardinality(t) \in Nat /\ Cardinality(s) \in Nat
    BY <1>1, <2>1
  <2>4. Cardinality(t) < Cardinality(s)
    BY <2>2, <2>3
  <2>5. t \in B => Cardinality(t) \in Sizes
    BY DEF Sizes
  <2> QED BY <1>4, <1>5, <2>4, <2>5
<1> QED BY <1>6

\* Which element a fold takes out next.
Pick(s) == CHOOSE x \in s : TRUE

\* It is one of the set.
LEMMA PickIs == ASSUME NEW s, s # {} PROVE Pick(s) \in s
BY DEF Pick

\* The function a fold on S goes through.
IsSum(it, f, S) ==
    it = [s \in SUBSET S |-> IF s = {} THEN 0 ELSE f[Pick(s)] + it[s \ {Pick(s)}]]

\* The sum of the community modules is the last value of that function.
LEMMA SumIsFold ==
    ASSUME NEW f, NEW S
    PROVE  SumFunctionOnSet(f, S) = (CHOOSE it : IsSum(it, f, S))[S]
BY DEF SumFunctionOnSet, FoldFunctionOnSet, MapThenFoldSet, IsSum, Pick

\* There is one: it is extended by one size of subsets after the other.
LEMMA SumExists == ASSUME NEW f, NEW S, IsFiniteSet(S) PROVE \E it : IsSum(it, f, S)
<1> DEFINE Small(n) == {s \in SUBSET S : Cardinality(s) <= n}
           Next1(it, s) == IF s = {} THEN 0 ELSE f[Pick(s)] + it[s \ {Pick(s)}]
           Upto(n) == \E it : it = [s \in Small(n) |-> Next1(it, s)]
           Bad == {n \in Nat : ~Upto(n)}
<1>1. \A s \in SUBSET S : IsFiniteSet(s) /\ Cardinality(s) \in Nat
  BY FS_Subset, FS_CardinalityType
<1>2. Upto(0)
  <2> DEFINE it == [s \in Small(0) |-> 0]
  <2>1. \A s \in Small(0) : s = {}
    BY <1>1, FS_EmptySet
  <2>2. it = [s \in Small(0) |-> Next1(it, s)]
    BY <2>1
  <2> QED BY <2>2
<1>3. ASSUME NEW n \in Nat, Upto(n) PROVE Upto(n + 1)
  <2>1. PICK it : it = [s \in Small(n) |-> Next1(it, s)]
    BY <1>3
  <2> DEFINE more == [s \in Small(n + 1) |-> Next1(it, s)]
  <2>2. ASSUME NEW s \in Small(n + 1), s # {} PROVE s \ {Pick(s)} \in Small(n)
    <3>1. Pick(s) \in s /\ IsFiniteSet(s) /\ s \in SUBSET S
      BY <1>1, <2>2, PickIs
    <3>2. Cardinality(s \ {Pick(s)}) = Cardinality(s) - 1
      BY <3>1, FS_RemoveElement
    <3> QED BY <1>1, <3>1, <3>2
  <2>3. \A s \in Small(n) : s \in Small(n + 1) /\ it[s] = Next1(it, s)
    <3>1. \A s \in Small(n) : s \in Small(n + 1)
      BY <1>1
    <3> DEFINE small == Small(n)
    <3>2. it = [s \in small |-> Next1(it, s)]
      BY <2>1
    <3> HIDE DEF small
    <3>3. \A s \in small : it[s] = Next1(it, s)
      BY <3>2
    <3> QED BY <3>1, <3>3 DEF small
  <2>4. \A s \in Small(n + 1) : more[s] = Next1(it, s)
    OBVIOUS
  <2>5. \A s \in Small(n) : more[s] = it[s]
    BY <2>3, <2>4
  <2>6. \A s \in Small(n + 1) : Next1(it, s) = Next1(more, s)
    BY <2>2, <2>5
  <2>7. more = [s \in Small(n + 1) |-> Next1(more, s)]
    BY <2>6
  <2> QED BY <2>7
<1> HIDE DEF Upto
<1>4. Bad = {}
  <2> SUFFICES ASSUME Bad # {} PROVE FALSE
    OBVIOUS
  <2>3. PICK n \in Bad : \A m \in Bad : ~(m < n)
    BY SmallestNat
  <2>4. n # 0
    BY <1>2
  <2>5. n - 1 \in Nat /\ n - 1 < n /\ (n - 1) + 1 = n
    BY <2>4
  <2>6. Upto(n - 1)
    BY <2>3, <2>5
  <2> QED BY <1>3, <2>5, <2>6
<1>5. Cardinality(S) \in Nat /\ Upto(Cardinality(S))
  BY <1>1, <1>4
<1>6. Small(Cardinality(S)) = SUBSET S
  BY <1>1, FS_Subset
<1> QED BY <1>5, <1>6 DEF Upto, IsSum

\* What the fold goes through, of a finite set.
SumUpTo(f, S) == CHOOSE it : IsSum(it, f, S)

\* It starts from 0 and takes out one element after the other.
LEMMA SumUnfolds ==
    ASSUME NEW f, NEW S, IsFiniteSet(S)
    PROVE  /\ SumFunctionOnSet(f, S) = SumUpTo(f, S)[S]
           /\ SumUpTo(f, S)[{}] = 0
           /\ \A s \in SUBSET S : s # {} =>
                 SumUpTo(f, S)[s] = f[Pick(s)] + SumUpTo(f, S)[s \ {Pick(s)}]
<1>1. IsSum(SumUpTo(f, S), f, S)
  BY SumExists DEF SumUpTo
<1>2. SumFunctionOnSet(f, S) = SumUpTo(f, S)[S]
  BY SumIsFold DEF SumUpTo
<1> HIDE DEF SumUpTo
<1> DEFINE it == SumUpTo(f, S)
<1>3. it = [s \in SUBSET S |-> IF s = {} THEN 0 ELSE f[Pick(s)] + it[s \ {Pick(s)}]]
  BY <1>1 DEF IsSum
<1> HIDE DEF it
<1>4. \A s \in SUBSET S : it[s] = IF s = {} THEN 0 ELSE f[Pick(s)] + it[s \ {Pick(s)}]
  BY <1>3
<1> QED BY <1>2, <1>4 DEF it

\* One step of it, as the lemmas below need it.
LEMMA SumSteps ==
    ASSUME NEW f, NEW S, IsFiniteSet(S), \A i \in S : f[i] \in Int,
           NEW s \in SUBSET S, s # {}
    PROVE  SumUpTo(f, S)[s] = f[Pick(s)] + SumUpTo(f, S)[s \ {Pick(s)}]
<1> DEFINE it == SumUpTo(f, S)
<1>1. \A t \in SUBSET S : t # {} => it[t] = f[Pick(t)] + it[t \ {Pick(t)}]
  BY SumUnfolds
<1> HIDE DEF it
<1>2. it[s] = f[Pick(s)] + it[s \ {Pick(s)}]
  BY <1>1
<1> QED BY <1>2 DEF it

\* The fold of a larger set goes through the sums of its subsets.
LEMMA SumWithin ==
    ASSUME NEW f, NEW S, IsFiniteSet(S), \A i \in S : f[i] \in Int, NEW T \in SUBSET S
    PROVE  SumFunctionOnSet(f, T) = SumUpTo(f, S)[T]
<1>1. IsFiniteSet(T)
  BY FS_Subset
<1> DEFINE B == {s \in SUBSET T : SumUpTo(f, T)[s] # SumUpTo(f, S)[s]}
<1>2. B = {}
  <2> SUFFICES ASSUME B # {} PROVE FALSE
    OBVIOUS
  <2>0. B \in SUBSET (SUBSET T)
    OBVIOUS
  <2> HIDE DEF B
  <2>1. PICK s \in B : \A t \in SUBSET s : t # s => t \notin B
    BY <1>1, <2>0, SmallestSubset
  <2>2. s \in SUBSET T /\ s \in SUBSET S
    BY <2>0
  <2>3. s # {}
    <3>1. SumUpTo(f, T)[{}] = 0 /\ SumUpTo(f, S)[{}] = 0
      BY <1>1, SumUnfolds
    <3> QED BY <2>1, <3>1 DEF B
  <2>4. Pick(s) \in s
    BY <2>3, PickIs
  <2>5. s \ {Pick(s)} \in SUBSET T /\ s \ {Pick(s)} \notin B
    BY <2>1, <2>2, <2>4
  <2>6. SumUpTo(f, T)[s \ {Pick(s)}] = SumUpTo(f, S)[s \ {Pick(s)}]
    BY <2>5 DEF B
  <2>7. SumUpTo(f, T)[s] = f[Pick(s)] + SumUpTo(f, T)[s \ {Pick(s)}]
    BY <1>1, <2>2, <2>3, SumSteps
  <2>8. SumUpTo(f, S)[s] = f[Pick(s)] + SumUpTo(f, S)[s \ {Pick(s)}]
    <3>1. IsFiniteSet(S) /\ (\A i \in S : f[i] \in Int) /\ s \in SUBSET S /\ s # {}
      BY <2>2, <2>3
    <3> QED BY ONLY <3>1, SumSteps
  <2>9. SumUpTo(f, T)[s] # SumUpTo(f, S)[s]
    BY <2>1 DEF B
  <2> QED BY <2>6, <2>7, <2>8, <2>9
<1>3. SumUpTo(f, T)[T] = SumUpTo(f, S)[T]
  BY <1>2
<1> QED BY <1>1, <1>3, SumUnfolds

\* The order does not matter: any element may be taken out first.
LEMMA SumWithout ==
    ASSUME NEW f, NEW S, IsFiniteSet(S), \A i \in S : f[i] \in Int
    PROVE  /\ SumFunctionOnSet(f, S) \in Int
           /\ \A x \in S : SumFunctionOnSet(f, S) = f[x] + SumFunctionOnSet(f, S \ {x})
<1> DEFINE it == SumUpTo(f, S)
           Takes(s) == it[s] \in Int /\ \A x \in s : it[s] = f[x] + it[s \ {x}]
           B == {s \in SUBSET S : ~Takes(s)}
<1>1. it[{}] = 0 /\ \A s \in SUBSET S : s # {} => it[s] = f[Pick(s)] + it[s \ {Pick(s)}]
  BY SumUnfolds
<1> HIDE DEF it
<1>2. B = {}
  <2> SUFFICES ASSUME B # {} PROVE FALSE
    OBVIOUS
  <2>0. B \in SUBSET (SUBSET S)
    OBVIOUS
  <2> HIDE DEF B
  <2>1. PICK s \in B : \A t \in SUBSET s : t # s => t \notin B
    BY <2>0, SmallestSubset
  <2> DEFINE y == Pick(s)
  <2>2. s # {} /\ s \in SUBSET S
    <3>1. Takes({})
      BY <1>1
    <3> QED BY <2>0, <2>1, <3>1 DEF B
  <2>3. y \in s
    BY <2>2, PickIs
  <2>4. it[s] = f[y] + it[s \ {y}]
    BY <1>1, <2>2
  <2> HIDE DEF y
  <2>5. \A x \in s : s \ {x} \in SUBSET S /\ Takes(s \ {x})
    <3> TAKE x \in s
    <3>1. s \ {x} \in SUBSET s /\ s \ {x} # s
      OBVIOUS
    <3>2. s \ {x} \in SUBSET S /\ s \ {x} \notin B
      BY <2>1, <2>2, <3>1
    <3> QED BY <3>2 DEF B
  <2>6. it[s] \in Int
    <3>1. f[y] \in Int /\ it[s \ {y}] \in Int
      BY <2>2, <2>3, <2>5
    <3> QED BY <2>4, <3>1
  <2>7. ASSUME NEW x \in s PROVE it[s] = f[x] + it[s \ {x}]
    <3>1. CASE x = y
      BY <2>4, <3>1
    <3>2. CASE x # y
      <4>1. (s \ {y}) \ {x} = (s \ {x}) \ {y}
        OBVIOUS
      <4>2. it[s \ {y}] = f[x] + it[(s \ {y}) \ {x}]
        BY <2>3, <2>5, <3>2
      <4>3. it[s \ {x}] = f[y] + it[(s \ {x}) \ {y}]
        BY <2>3, <2>5, <3>2
      <4>4. f[x] \in Int /\ f[y] \in Int
        BY <2>2, <2>3
      <4>5. it[(s \ {x}) \ {y}] \in Int
        <5>1. (s \ {x}) \ {y} \in SUBSET s /\ (s \ {x}) \ {y} # s
          OBVIOUS
        <5>2. (s \ {x}) \ {y} \in SUBSET S /\ (s \ {x}) \ {y} \notin B
          BY <2>1, <2>2, <5>1
        <5> QED BY <5>2 DEF B
      <4>6. it[s] = f[y] + (f[x] + it[(s \ {x}) \ {y}])
        BY <2>4, <4>1, <4>2
      <4> DEFINE rest == it[(s \ {x}) \ {y}]
      <4>7. it[s] = f[y] + (f[x] + rest) /\ it[s \ {x}] = f[y] + rest /\ rest \in Int
        BY <4>3, <4>5, <4>6
      <4> HIDE DEF rest
      <4>8. f[y] + (f[x] + rest) = f[x] + (f[y] + rest)
        BY <4>4, <4>7
      <4> QED BY <4>7, <4>8
    <3> QED BY <3>1, <3>2
  <2> QED BY <2>1, <2>6, <2>7 DEF B
<1>3. it[S] \in Int /\ \A x \in S : it[S] = f[x] + it[S \ {x}]
  BY <1>2
<1>4. \A T \in SUBSET S : SumFunctionOnSet(f, T) = it[T]
  BY SumWithin DEF it
<1> QED BY <1>3, <1>4

\* Nothing comes to 0.
LEMMA SumOfNone == ASSUME NEW f PROVE SumFunctionOnSet(f, {}) = 0
BY FS_EmptySet, SumUnfolds

\* One more element adds what stands for it.
LEMMA SumWith ==
    ASSUME NEW f, NEW S, IsFiniteSet(S), \A i \in S : f[i] \in Int,
           NEW x, x \notin S, f[x] \in Int
    PROVE  SumFunctionOnSet(f, S \cup {x}) = f[x] + SumFunctionOnSet(f, S)
<1> DEFINE T == S \cup {x}
<1>1. IsFiniteSet(T) /\ x \in T /\ \A i \in T : f[i] \in Int
  BY FS_AddElement
<1>2. T \ {x} = S
  OBVIOUS
<1> HIDE DEF T
<1>3. SumFunctionOnSet(f, T) = f[x] + SumFunctionOnSet(f, T \ {x})
  BY <1>1, SumWithout
<1> QED BY <1>2, <1>3 DEF T

\* Only what stands for the elements of the set counts.
LEMMA SumOfSame ==
    ASSUME NEW f, NEW g, NEW S, IsFiniteSet(S), \A i \in S : f[i] \in Int /\ g[i] = f[i]
    PROVE  SumFunctionOnSet(f, S) = SumFunctionOnSet(g, S)
<1> DEFINE B == {s \in SUBSET S : SumFunctionOnSet(f, s) # SumFunctionOnSet(g, s)}
<1>1. B = {}
  <2> SUFFICES ASSUME B # {} PROVE FALSE
    OBVIOUS
  <2>0. B \in SUBSET (SUBSET S)
    OBVIOUS
  <2>0a. \A s \in B : SumFunctionOnSet(f, s) # SumFunctionOnSet(g, s)
    OBVIOUS
  <2>0b. \A s \in SUBSET S : s \notin B => SumFunctionOnSet(f, s) = SumFunctionOnSet(g, s)
    OBVIOUS
  <2> HIDE DEF B
  <2>1. PICK s \in B : \A t \in SUBSET s : t # s => t \notin B
    BY <2>0, SmallestSubset
  <2>2. s # {}
    BY <2>0a, <2>1, SumOfNone
  <2>3. PICK x \in s : TRUE
    BY <2>2
  <2>4. s \ {x} \in SUBSET S /\ s \ {x} \notin B /\ s \in SUBSET S
    BY <2>0, <2>1, <2>3
  <2>5. IsFiniteSet(s) /\ \A i \in s : f[i] \in Int /\ g[i] \in Int
    BY <2>4, FS_Subset
  <2>6. SumFunctionOnSet(f, s) = f[x] + SumFunctionOnSet(f, s \ {x})
    BY <2>5, SumWithout
  <2>7. SumFunctionOnSet(g, s) = g[x] + SumFunctionOnSet(g, s \ {x})
    BY <2>5, SumWithout
  <2>8. f[x] = g[x]
    BY <2>4
  <2> QED BY <2>0a, <2>0b, <2>4, <2>6, <2>7, <2>8
<1> QED BY <1>1

-----------------------------------------------------------------------------
(* Sorting by hash. *)

\* Lists of k orders.
ListsOf(k) == [1..k -> Orders]

\* The first n orders are in ascending order of hashes.
AscendingTo(os, n) == \A i, j \in 1..n : i <= j => HashOf[os[i]] <= HashOf[os[j]]

\* A hash is a number, and tells its order.
LEMMA HashesAre ==
    ASSUME NEW k \in Nat, NEW os \in ListsOf(k)
    PROVE  /\ \A i \in 1..k : os[i] \in Orders /\ HashOf[os[i]] \in Nat
           /\ \A i, j \in 1..k : HashOf[os[i]] = HashOf[os[j]] => os[i] = os[j]
           /\ DOMAIN os = 1..k /\ Len(os) = k
<1>1. \A i \in 1..k : os[i] \in Orders
  BY DEF ListsOf
<1>2. os \in Seq(Orders) /\ Len(os) = k
  BY DEF ListsOf
<1> QED BY <1>1, <1>2, ExecutionAssumption DEF ListsOf

\* The inner loop ends, past every order of a greater hash and before none.
LEMMA RestIs ==
    ASSUME NEW k \in Nat, NEW os \in ListsOf(k), NEW i \in 1..k
    PROVE  /\ Rest(os, i) \in 1..i
           /\ \A m \in Rest(os, i)..i - 1 : HashOf[os[i]] < HashOf[os[m]]
           /\ Rest(os, i) > 1 => ~(HashOf[os[i]] < HashOf[os[Rest(os, i) - 1]])
<1> DEFINE B == {j \in 1..i : \A m \in j..i - 1 : HashOf[os[i]] < HashOf[os[m]]}
<1>1. i \in B /\ B \in SUBSET Nat
  OBVIOUS
<1>2. PICK j \in B : \A m \in B : ~(m < j)
  <2> HIDE DEF B
  <2> QED BY <1>1, SmallestNat
<1>3. ASSUME j > 1, HashOf[os[i]] < HashOf[os[j - 1]] PROVE FALSE
  <2>1. j - 1 \in 1..i /\ j - 1 < j
    BY <1>2, <1>3
  <2>2. \A m \in j - 1..i - 1 : m = j - 1 \/ m \in j..i - 1
    BY <1>2
  <2>3. j - 1 \in B
    BY <1>2, <1>3, <2>1, <2>2
  <2> QED BY <1>2, <2>1, <2>3
<1>4. \E n \in 1..i : /\ \A m \in n..i - 1 : HashOf[os[i]] < HashOf[os[m]]
                      /\ n > 1 => ~(HashOf[os[i]] < HashOf[os[n - 1]])
  BY <1>2, <1>3
<1> QED BY <1>4 DEF Rest

\* Where each order of the list is found after the turn.
LEMMA InsertPlaces ==
    ASSUME NEW k \in Nat, NEW os \in ListsOf(k), NEW i \in 1..k
    PROVE  /\ Insert(os, i) \in ListsOf(k)
           /\ Insert(os, i)[Rest(os, i)] = os[i]
           /\ \A m \in 1..k : m < Rest(os, i) \/ m > i => Insert(os, i)[m] = os[m]
           /\ \A m \in 1..k : Rest(os, i) < m /\ m <= i => Insert(os, i)[m] = os[m - 1]
<1> DEFINE j == Rest(os, i)
           is == Insert(os, i)
<1>1. j \in 1..i /\ DOMAIN os = 1..k /\ \A m \in 1..k : os[m] \in Orders
  BY RestIs, HashesAre
<1>2. is = [m \in 1..k |-> CASE m = j -> os[i] [] m \in j + 1..i -> os[m - 1] [] OTHER -> os[m]]
  BY <1>1 DEF Insert
<1> HIDE DEF j, is
<1>3. is[j] = os[i]
  BY <1>1, <1>2
<1>4. \A m \in 1..k : m < j \/ m > i => is[m] = os[m]
  BY <1>1, <1>2
<1>5. \A m \in 1..k : j < m /\ m <= i => is[m] = os[m - 1]
  BY <1>1, <1>2
<1>6. \A m \in 1..k : is[m] \in Orders
  <2> TAKE m \in 1..k
  <2>1. m < j \/ m > i \/ m = j \/ (j < m /\ m <= i)
    BY <1>1
  <2>2. j < m /\ m <= i => m - 1 \in 1..k
    BY <1>1
  <2> QED BY <1>1, <1>3, <1>4, <1>5, <2>1, <2>2
<1>7. is \in ListsOf(k)
  <2>1. is = [m \in 1..k |-> is[m]]
    BY <1>2
  <2> QED BY <1>6, <2>1 DEF ListsOf
<1> QED BY <1>3, <1>4, <1>5, <1>7 DEF j, is

\* A turn of the outer loop loses and doubles no order, and puts the next one in its place
\* among those that are sorted.
LEMMA InsertIs ==
    ASSUME NEW k \in Nat, NEW os \in ListsOf(k), NEW i \in 1..k
    PROVE  /\ ToSet(Insert(os, i)) = ToSet(os)
           /\ IsInjective(os) => IsInjective(Insert(os, i))
           /\ AscendingTo(os, i - 1) => AscendingTo(Insert(os, i), i)
<1> DEFINE j == Rest(os, i)
           is == Insert(os, i)
<1>1. /\ j \in 1..i
      /\ \A m \in j..i - 1 : HashOf[os[i]] < HashOf[os[m]]
      /\ j > 1 => ~(HashOf[os[i]] < HashOf[os[j - 1]])
  BY RestIs
<1>2. /\ is \in ListsOf(k) /\ is[j] = os[i]
      /\ \A m \in 1..k : m < j \/ m > i => is[m] = os[m]
      /\ \A m \in 1..k : j < m /\ m <= i => is[m] = os[m - 1]
  BY InsertPlaces
<1>3. DOMAIN os = 1..k /\ \A m \in 1..k : HashOf[os[m]] \in Nat
  BY HashesAre
<1>4. DOMAIN is = 1..k
  BY <1>2, HashesAre
<1> HIDE DEF j, is
<1>5. ToSet(is) = ToSet(os)
  <2>1. ASSUME NEW m \in 1..k PROVE \E n \in 1..k : is[m] = os[n]
    <3>1. m < j \/ m > i \/ m = j \/ (j < m /\ m <= i)
      BY <1>1
    <3>2. j < m /\ m <= i => m - 1 \in 1..k
      BY <1>1
    <3> QED BY <1>2, <3>1, <3>2
  <2>2. ASSUME NEW m \in 1..k PROVE \E n \in 1..k : os[m] = is[n]
    <3>1. CASE m < j \/ m > i
      BY <1>2, <3>1
    <3>2. CASE m = i
      BY <1>1, <1>2, <3>2
    <3>3. CASE j <= m /\ m < i
      <4>1. m + 1 \in 1..k /\ j < m + 1 /\ m + 1 <= i /\ (m + 1) - 1 = m
        BY <1>1, <3>3
      <4> QED BY <1>2, <4>1
    <3> QED BY <1>1, <3>1, <3>2, <3>3
  <2>3. ToSet(is) = {is[m] : m \in 1..k} /\ ToSet(os) = {os[m] : m \in 1..k}
    BY <1>3, <1>4 DEF ToSet
  <2>4. \A o \in ToSet(is) : o \in ToSet(os)
    BY <2>1, <2>3
  <2>5. \A o \in ToSet(os) : o \in ToSet(is)
    BY <2>2, <2>3
  <2> QED BY <2>4, <2>5
<1>6. ASSUME IsInjective(os) PROVE IsInjective(is)
  <2>1. \A m, n \in 1..k : os[m] = os[n] => m = n
    BY <1>3, <1>6 DEF IsInjective
  <2> DEFINE From(m) == IF m = j THEN i ELSE IF j < m /\ m <= i THEN m - 1 ELSE m
  <2>2. \A m \in 1..k : From(m) \in 1..k
    BY <1>1
  <2>3. \A m \in 1..k : is[m] = os[From(m)]
    <3> TAKE m \in 1..k
    <3>1. m < j \/ m > i \/ m = j \/ (j < m /\ m <= i)
      BY <1>1
    <3> QED BY <1>1, <1>2, <3>1
  <2>4. \A m, n \in 1..k : From(m) = From(n) => m = n
    BY <1>1
  <2> HIDE DEF From
  <2>5. \A m, n \in 1..k : is[m] = is[n] => m = n
    BY <2>1, <2>2, <2>3, <2>4
  <2> QED BY <1>4, <2>5 DEF IsInjective
<1>7. ASSUME AscendingTo(os, i - 1) PROVE AscendingTo(is, i)
  <2>1. \A m, n \in 1..i - 1 : m <= n => HashOf[os[m]] <= HashOf[os[n]]
    BY <1>7 DEF AscendingTo
  <2>2. \A m \in 1..j - 1 : HashOf[os[m]] <= HashOf[os[i]]
    <3> TAKE m \in 1..j - 1
    <3>1. j > 1 /\ j - 1 \in 1..i - 1 /\ m \in 1..i - 1 /\ m <= j - 1
      BY <1>1
    <3>2. HashOf[os[m]] <= HashOf[os[j - 1]]
      BY <2>1, <3>1
    <3>3. HashOf[os[m]] \in Nat /\ HashOf[os[j - 1]] \in Nat /\ HashOf[os[i]] \in Nat
      BY <1>3, <3>1
    <3> QED BY <1>1, <3>1, <3>2, <3>3
  <2>3. SUFFICES ASSUME NEW m \in 1..i, NEW n \in 1..i, m < n
                 PROVE  HashOf[is[m]] <= HashOf[is[n]]
    <3>1. \A m \in 1..i : is[m] \in Orders /\ HashOf[is[m]] \in Nat
      BY <1>2, HashesAre
    <3> QED BY <2>3, <3>1 DEF AscendingTo
  <2>4. CASE n < j
    BY <1>1, <1>2, <2>1, <2>3, <2>4
  <2>5. CASE n = j
    <3>1. m \in 1..j - 1 /\ is[m] = os[m]
      BY <1>1, <1>2, <2>3, <2>5
    <3> QED BY <1>2, <2>2, <2>5, <3>1
  <2>6. CASE j < n
    <3>1. is[n] = os[n - 1] /\ n - 1 \in j..i - 1 /\ n - 1 \in 1..i - 1
      BY <1>1, <1>2, <2>3, <2>6
    <3>2. CASE m < j
      <4>1. is[m] = os[m] /\ m \in 1..i - 1 /\ m <= n - 1
        BY <1>1, <1>2, <2>3, <2>6, <3>2
      <4> QED BY <2>1, <3>1, <4>1
    <3>3. CASE m = j
      <4>1. HashOf[os[i]] < HashOf[os[n - 1]] /\ HashOf[os[i]] \in Nat
            /\ HashOf[os[n - 1]] \in Nat
        BY <1>1, <1>3, <3>1
      <4> QED BY <1>2, <3>1, <3>3, <4>1
    <3>4. CASE j < m
      <4>1. is[m] = os[m - 1] /\ m - 1 \in 1..i - 1 /\ m - 1 <= n - 1
        BY <1>1, <1>2, <2>3, <3>4
      <4> QED BY <2>1, <3>1, <4>1
    <3> QED BY <1>1, <3>2, <3>3, <3>4
  <2> QED BY <1>1, <2>4, <2>5, <2>6
<1> QED BY <1>5, <1>6, <1>7 DEF is

\* The lists the first n turns of the outer loop go through.
IsPasses(it, os, n) ==
    it = [i \in 1..n |-> IF i = 1 THEN os ELSE Insert(it[i - 1], i)]

\* The sorting of a list is what the last turn leaves.
LEMMA SortedIsLast ==
    ASSUME NEW os
    PROVE  Sorted(os) = (CHOOSE it : IsPasses(it, os, Len(os)))[Len(os)]
BY DEF Sorted, IsPasses

\* There are such lists, each from the one before.
LEMMA PassesExist ==
    ASSUME NEW os, NEW k \in Nat
    PROVE  \E it : IsPasses(it, os, k)
<1> DEFINE Upto(n) == \E it : IsPasses(it, os, n)
           Bad == {n \in Nat : ~Upto(n)}
<1>1. Upto(0)
  <2> DEFINE it == [i \in 1..0 |-> os]
  <2>1. IsPasses(it, os, 0)
    BY DEF IsPasses
  <2> QED BY <2>1
<1>2. ASSUME NEW n \in Nat, Upto(n) PROVE Upto(n + 1)
  <2>1. PICK it : IsPasses(it, os, n)
    BY <1>2
  <2> DEFINE more == [i \in 1..n + 1 |-> IF i = 1 THEN os ELSE Insert(it[i - 1], i)]
  <2>2. \A i \in 1..n : it[i] = more[i]
    <3> DEFINE dom == 1..n
    <3>1. it = [i \in dom |-> IF i = 1 THEN os ELSE Insert(it[i - 1], i)]
      BY <2>1 DEF IsPasses
    <3> HIDE DEF dom
    <3>2. \A i \in dom : it[i] = IF i = 1 THEN os ELSE Insert(it[i - 1], i)
      BY <3>1
    <3> QED BY <3>2 DEF dom
  <2>3. \A i \in 1..n + 1 : i # 1 => i - 1 \in 1..n
    OBVIOUS
  <2>4. \A i \in 1..n + 1 : i # 1 => it[i - 1] = more[i - 1]
    BY <2>2, <2>3
  <2>5. more = [i \in 1..n + 1 |-> IF i = 1 THEN os ELSE Insert(more[i - 1], i)]
    BY <2>4
  <2> HIDE DEF more
  <2>6. IsPasses(more, os, n + 1)
    BY <2>5 DEF IsPasses
  <2> QED BY <2>6
<1> HIDE DEF Upto
<1>3. Bad = {}
  <2> SUFFICES ASSUME Bad # {} PROVE FALSE
    OBVIOUS
  <2>1. PICK n \in Bad : \A m \in Bad : ~(m < n)
    BY SmallestNat
  <2>2. n # 0
    BY <1>1, <2>1
  <2>3. n - 1 \in Nat /\ n - 1 < n /\ (n - 1) + 1 = n
    BY <2>2
  <2>4. Upto(n - 1)
    BY <2>1, <2>3
  <2> QED BY <1>2, <2>1, <2>3, <2>4
<1> QED BY <1>3 DEF Upto

\* Sorting rearranges a list: it loses no order, doubles none, and leaves them in
\* ascending order of hashes.
LEMMA SortedIs ==
    ASSUME NEW k \in Nat \ {0}, NEW os \in ListsOf(k)
    PROVE  /\ Sorted(os) \in ListsOf(k)
           /\ ToSet(Sorted(os)) = ToSet(os)
           /\ IsInjective(os) => IsInjective(Sorted(os))
           /\ AscendingTo(Sorted(os), k)
<1>1. Len(os) = k
  BY HashesAre
<1> DEFINE it == CHOOSE p : IsPasses(p, os, k)
<1>2. IsPasses(it, os, k)
  BY PassesExist
<1>3. Sorted(os) = it[k]
  BY <1>1, SortedIsLast
<1> HIDE DEF it
<1>4. it[1] = os /\ \A i \in 2..k : it[i] = Insert(it[i - 1], i)
  <2> DEFINE dom == 1..k
  <2>1. it = [i \in dom |-> IF i = 1 THEN os ELSE Insert(it[i - 1], i)]
    BY <1>2 DEF IsPasses
  <2> HIDE DEF dom
  <2>2. \A i \in dom : it[i] = IF i = 1 THEN os ELSE Insert(it[i - 1], i)
    BY <2>1
  <2>3. 1 \in dom /\ \A i \in 2..k : i \in dom /\ i # 1
    BY DEF dom
  <2> QED BY <2>2, <2>3
<1> DEFINE Turned(i) == /\ it[i] \in ListsOf(k)
                        /\ ToSet(it[i]) = ToSet(os)
                        /\ IsInjective(os) => IsInjective(it[i])
                        /\ AscendingTo(it[i], i)
           Bad == {i \in 1..k : ~Turned(i)}
<1>5. Turned(1)
  <2>1. HashOf[os[1]] \in Nat
    BY HashesAre
  <2> QED BY <1>4, <2>1 DEF AscendingTo
<1>6. ASSUME NEW i \in 2..k, Turned(i - 1) PROVE Turned(i)
  <2>1. i \in 1..k /\ it[i - 1] \in ListsOf(k) /\ AscendingTo(it[i - 1], i - 1)
    BY <1>6
  <2> DEFINE prior == it[i - 1]
  <2>1a. prior \in ListsOf(k) /\ AscendingTo(prior, i - 1) /\ it[i] = Insert(prior, i)
    BY <1>4, <2>1
  <2> HIDE DEF prior
  <2>2. Insert(prior, i) \in ListsOf(k)
    BY <2>1, <2>1a, InsertPlaces
  <2>3. /\ ToSet(Insert(prior, i)) = ToSet(prior)
        /\ IsInjective(prior) => IsInjective(Insert(prior, i))
        /\ AscendingTo(Insert(prior, i), i)
    BY <2>1, <2>1a, InsertIs
  <2>4. ToSet(prior) = ToSet(os) /\ (IsInjective(os) => IsInjective(prior))
    BY <1>6 DEF prior
  <2> QED BY <2>1a, <2>2, <2>3, <2>4
<1> HIDE DEF Turned
<1>7. Bad = {}
  <2> SUFFICES ASSUME Bad # {} PROVE FALSE
    OBVIOUS
  <2>1. PICK i \in Bad : \A m \in Bad : ~(m < i)
    <3>1. Bad \in SUBSET Nat /\ Bad # {}
      OBVIOUS
    <3> HIDE DEF Bad
    <3> QED BY <3>1, SmallestNat
  <2>2. i \in 2..k /\ i - 1 \in 1..k /\ i - 1 < i
    BY <1>5, <2>1
  <2>3. Turned(i - 1)
    BY <2>1, <2>2
  <2> QED BY <1>6, <2>1, <2>2, <2>3
<1>8. Turned(k)
  BY <1>7
<1> QED BY <1>3, <1>8 DEF Turned

\* No two orders of a list have a hash in common if none is in it twice.
LEMMA StrictlyAscending ==
    ASSUME NEW k \in Nat, NEW os \in ListsOf(k), AscendingTo(os, k), IsInjective(os)
    PROVE  \A i, j \in 1..k : i < j => HashOf[os[i]] < HashOf[os[j]]
<1> SUFFICES ASSUME NEW i \in 1..k, NEW j \in 1..k, i < j
             PROVE  HashOf[os[i]] < HashOf[os[j]]
  OBVIOUS
<1>1. HashOf[os[i]] <= HashOf[os[j]]
  BY DEF AscendingTo
<1>2. HashOf[os[i]] \in Nat /\ HashOf[os[j]] \in Nat
  BY HashesAre
<1>3. os[i] # os[j]
  BY HashesAre DEF IsInjective
<1>4. HashOf[os[i]] # HashOf[os[j]]
  BY <1>3, HashesAre
<1> QED BY <1>1, <1>2, <1>4

\* There is one list in ascending order without repetition of the orders of a set.
LEMMA OneAscendingList ==
    ASSUME NEW k \in Nat, NEW a \in ListsOf(k), NEW b \in ListsOf(k), ToSet(a) = ToSet(b),
           AscendingTo(a, k), AscendingTo(b, k), IsInjective(a), IsInjective(b)
    PROVE  a = b
<1>1. /\ \A i, j \in 1..k : i < j => HashOf[a[i]] < HashOf[a[j]]
      /\ \A i, j \in 1..k : i < j => HashOf[b[i]] < HashOf[b[j]]
  BY StrictlyAscending
<1>2. /\ \A i \in 1..k : HashOf[a[i]] \in Nat /\ HashOf[b[i]] \in Nat
      /\ DOMAIN a = 1..k /\ DOMAIN b = 1..k
  BY HashesAre
<1>3. /\ \A i \in 1..k : \E j \in 1..k : a[i] = b[j]
      /\ \A i \in 1..k : \E j \in 1..k : b[i] = a[j]
  BY <1>2 DEF ToSet
<1> DEFINE Differ == {i \in 1..k : a[i] # b[i]}
<1>4. Differ = {}
  <2> SUFFICES ASSUME Differ # {} PROVE FALSE
    OBVIOUS
  <2>1. PICK i \in Differ : \A m \in Differ : ~(m < i)
    <3>1. Differ \in SUBSET Nat /\ Differ # {}
      OBVIOUS
    <3> HIDE DEF Differ
    <3> QED BY <3>1, SmallestNat
  <2>2. \A m \in 1..k : m < i => a[m] = b[m]
    BY <2>1
  <2>3. PICK j \in 1..k : a[i] = b[j]
    BY <1>3, <2>1
  <2>4. PICK l \in 1..k : b[i] = a[l]
    BY <1>3, <2>1
  <2>5. i < j
    <3>1. i # j
      BY <2>1, <2>3
    <3>2. ASSUME j < i PROVE FALSE
      <4>1. a[j] = a[i]
        BY <2>2, <2>3, <3>2
      <4>2. HashOf[a[j]] < HashOf[a[i]] /\ HashOf[a[i]] \in Nat
        BY <1>1, <1>2, <2>1, <3>2
      <4> QED BY <4>1, <4>2
    <3> QED BY <2>1, <3>1, <3>2
  <2>6. i < l
    <3>1. i # l
      BY <2>1, <2>4
    <3>2. ASSUME l < i PROVE FALSE
      <4>1. b[l] = b[i]
        BY <2>2, <2>4, <3>2
      <4>2. HashOf[b[l]] < HashOf[b[i]] /\ HashOf[b[i]] \in Nat
        BY <1>1, <1>2, <2>1, <3>2
      <4> QED BY <4>1, <4>2
    <3> QED BY <2>1, <3>1, <3>2
  <2>7. HashOf[b[i]] < HashOf[b[j]] /\ HashOf[a[i]] < HashOf[a[l]]
    BY <1>1, <2>1, <2>5, <2>6
  <2>8. HashOf[b[i]] < HashOf[a[i]] /\ HashOf[a[i]] < HashOf[b[i]]
    BY <2>3, <2>4, <2>7
  <2> QED BY <1>2, <2>1, <2>8
<1>5. \A i \in 1..k : a[i] = b[i]
  BY <1>4
<1>6. a = [i \in 1..k |-> a[i]] /\ b = [i \in 1..k |-> b[i]]
  BY DEF ListsOf
<1> QED BY <1>5, <1>6

\* A list without repetition of all the orders of another has them all.
LEMMA RearrangedIs ==
    ASSUME NEW k \in Nat, NEW os \in ListsOf(k), IsInjective(os),
           NEW t \in [DOMAIN os -> ToSet(os)], IsInjective(t)
    PROVE  t \in ListsOf(k) /\ ToSet(t) = ToSet(os)
<1> DEFINE S == ToSet(os)
<1>1. DOMAIN os = 1..k /\ \A i \in 1..k : os[i] \in Orders
  BY HashesAre
<1>2. IsFiniteSet(1..k) /\ Cardinality(1..k) = k
  BY FS_Interval
<1>3. os \in Bijection(1..k, S) /\ S \in SUBSET Orders
  <2>1. os \in [1..k -> S] /\ \A o \in S : \E i \in 1..k : os[i] = o
    BY <1>1 DEF ToSet, ListsOf
  <2>2. S \in SUBSET Orders
    BY <1>1 DEF ToSet
  <2> QED BY <2>1, <2>2 DEF Bijection, Injection, Surjection
<1>4. t \in [1..k -> S]
  BY <1>1
<1> HIDE DEF S
<1>5. IsFiniteSet(S) /\ Cardinality(S) = k
  BY <1>2, <1>3, FS_Bijection DEF ExistsBijection
<1>6. t \in Injection(1..k, S)
  BY <1>4 DEF Injection
<1>7. t \in Surjection(1..k, S)
  BY <1>2, <1>5, <1>6, FS_Injection
<1>8. ToSet(t) = S
  BY <1>4, <1>7 DEF Surjection, ToSet
<1>9. t \in ListsOf(k)
  BY <1>3, <1>4 DEF ListsOf
<1> QED BY <1>8, <1>9 DEF S

-----------------------------------------------------------------------------
(* Running totals of one side. *)

\* What the first n orders of side z come to, by f.
Drawn(f, os, z, n) == SumFunctionOnSet(f, OfSide(os, z, n))

\* Nothing before the first order.
LEMMA DrawnFirst == ASSUME NEW f, NEW os, NEW z PROVE Drawn(f, os, z, 0) = 0
<1>1. OfSide(os, z, 0) = {}
  BY DEF OfSide
<1> QED BY <1>1, SumOfNone DEF Drawn

\* The next order counts on its own side.
LEMMA DrawnNext ==
    ASSUME NEW f, NEW os, NEW z, NEW n \in Nat, \A i \in 1..n + 1 : f[i] \in Int
    PROVE  /\ Drawn(f, os, z, n) \in Int
           /\ os[n + 1].zeroForOne = z => Drawn(f, os, z, n + 1) = Drawn(f, os, z, n) + f[n + 1]
           /\ os[n + 1].zeroForOne # z => Drawn(f, os, z, n + 1) = Drawn(f, os, z, n)
<1> DEFINE S == OfSide(os, z, n)
           T == OfSide(os, z, n + 1)
<1>1. S \in SUBSET (1..n) /\ (\A i \in S : f[i] \in Int) /\ n + 1 \notin S /\ f[n + 1] \in Int
  BY DEF OfSide
<1>2. IsFiniteSet(S)
  <2>1. IsFiniteSet(1..n)
    BY FS_Interval
  <2> HIDE DEF S
  <2> QED BY <1>1, <2>1, FS_Subset
<1>3. os[n + 1].zeroForOne = z => T = S \cup {n + 1}
  BY DEF OfSide
<1>4. os[n + 1].zeroForOne # z => T = S
  BY DEF OfSide
<1> HIDE DEF S, T
<1>5. SumFunctionOnSet(f, S) \in Int
  BY <1>1, <1>2, SumWithout
<1>6. SumFunctionOnSet(f, S \cup {n + 1}) = f[n + 1] + SumFunctionOnSet(f, S)
  BY <1>1, <1>2, SumWith
<1>7. f[n + 1] + SumFunctionOnSet(f, S) = SumFunctionOnSet(f, S) + f[n + 1]
  BY <1>1, <1>5
<1> QED BY <1>3, <1>4, <1>5, <1>6, <1>7 DEF Drawn, S, T

\* Only what stands for the first n orders counts.
LEMMA DrawnSame ==
    ASSUME NEW f, NEW g, NEW os, NEW z, NEW n \in Nat,
           \A i \in 1..n : f[i] \in Int /\ g[i] = f[i]
    PROVE  Drawn(f, os, z, n) = Drawn(g, os, z, n)
<1> DEFINE S == OfSide(os, z, n)
<1>1. S \in SUBSET (1..n) /\ \A i \in S : f[i] \in Int /\ g[i] = f[i]
  BY DEF OfSide
<1>2. IsFiniteSet(1..n)
  BY FS_Interval
<1> HIDE DEF S
<1>3. IsFiniteSet(S)
  BY <1>1, <1>2, FS_Subset
<1> QED BY <1>1, <1>3, SumOfSame DEF Drawn, S

\* Sums of integers are integers.
LEMMA DrawnIsInt ==
    ASSUME NEW f, NEW os, NEW z, NEW n \in Nat, NEW k \in 0..n, \A i \in 1..n : f[i] \in Int
    PROVE  Drawn(f, os, z, k) \in Int
<1> DEFINE S == OfSide(os, z, k)
<1>1. S \in SUBSET (1..n) /\ \A i \in S : f[i] \in Int
  BY DEF OfSide
<1>2. IsFiniteSet(1..n)
  BY FS_Interval
<1> HIDE DEF S
<1>3. IsFiniteSet(S)
  BY <1>1, <1>2, FS_Subset
<1> QED BY <1>1, <1>3, SumWithout DEF Drawn, S

\* A sum of steps is what they lead to.
LEMMA DrawnIs ==
    ASSUME NEW f, NEW F, NEW os, NEW z, NEW n \in Nat,
           \A i \in 1..n : f[i] \in Int,
           \A i \in 0..n : F[i] \in Int,
           F[0] = 0,
           \A i \in 1..n : os[i].zeroForOne = z => F[i] = F[i - 1] + f[i],
           \A i \in 1..n : os[i].zeroForOne # z => F[i] = F[i - 1]
    PROVE  Drawn(f, os, z, n) = F[n]
<1> DEFINE Bad == {k \in 0..n : Drawn(f, os, z, k) # F[k]}
<1>1. Bad = {}
  <2> SUFFICES ASSUME Bad # {} PROVE FALSE
    OBVIOUS
  <2>1. Bad \subseteq Nat /\ \A k \in Bad : k \in 0..n /\ Drawn(f, os, z, k) # F[k]
    OBVIOUS
  <2>2. \A k \in 0..n : k \notin Bad => Drawn(f, os, z, k) = F[k]
    OBVIOUS
  <2> HIDE DEF Bad
  <2>3. PICK k \in Bad : \A m \in Bad : ~(m < k)
    <3>1. \E x \in Bad : \A y \in Bad : ~(<<y, x>> \in OpToRel(<, Nat))
      BY <2>1, NatLessThanWellFounded, WFMin
    <3> QED BY <2>1, <3>1 DEF OpToRel
  <2>4. k # 0
    BY <2>1, <2>3, DrawnFirst
  <2>5. k \in 1..n /\ k - 1 \in 0..n /\ k - 1 < k /\ (k - 1) + 1 = k /\ k - 1 \in Nat
    BY <2>1, <2>3, <2>4
  <2>6. Drawn(f, os, z, k - 1) = F[k - 1]
    BY <2>2, <2>3, <2>5
  <2>7. \A i \in 1..(k - 1) + 1 : f[i] \in Int
    BY <2>5
  <2>8. /\ os[k].zeroForOne = z => Drawn(f, os, z, k) = Drawn(f, os, z, k - 1) + f[k]
        /\ os[k].zeroForOne # z => Drawn(f, os, z, k) = Drawn(f, os, z, k - 1)
    <3> DEFINE m == k - 1
    <3>1. m \in Nat /\ (\A i \in 1..m + 1 : f[i] \in Int) /\ m + 1 = k
      BY <2>5, <2>7
    <3> HIDE DEF m
    <3>2. /\ os[m + 1].zeroForOne = z => Drawn(f, os, z, m + 1) = Drawn(f, os, z, m) + f[m + 1]
          /\ os[m + 1].zeroForOne # z => Drawn(f, os, z, m + 1) = Drawn(f, os, z, m)
      BY <3>1, DrawnNext
    <3>3. /\ os[k].zeroForOne = z => Drawn(f, os, z, k) = Drawn(f, os, z, m) + f[k]
          /\ os[k].zeroForOne # z => Drawn(f, os, z, k) = Drawn(f, os, z, m)
      BY <3>1, <3>2
    <3> QED BY <3>3 DEF m
  <2>9. Drawn(f, os, z, k) = F[k]
    BY <2>5, <2>6, <2>8
  <2> QED BY <2>1, <2>3, <2>9
<1>2. n \in 0..n
  OBVIOUS
<1> QED BY <1>1, <1>2

\* Where every order comes to nothing, so do all.
LEMMA DrawnOfNothing ==
    ASSUME NEW f, NEW os, NEW z, NEW n \in Nat, \A i \in 1..n : f[i] = 0
    PROVE  Drawn(f, os, z, n) = 0
<1>1. PICK F : F = [i \in 0..n |-> 0]
  OBVIOUS
<1>2. (\A i \in 0..n : F[i] = 0) /\ n \in 0..n /\ 0 \in 0..n
  BY <1>1
<1>3. /\ \A i \in 1..n : os[i].zeroForOne = z => F[i] = F[i - 1] + f[i]
      /\ \A i \in 1..n : os[i].zeroForOne # z => F[i] = F[i - 1]
  BY <1>2
<1>4. (\A i \in 1..n : f[i] \in Int) /\ (\A i \in 0..n : F[i] \in Int) /\ F[0] = 0
  BY <1>2
<1>5. Drawn(f, os, z, n) = F[n]
  BY ONLY n \in Nat, <1>3, <1>4, DrawnIs
<1> QED BY <1>2, <1>5

-----------------------------------------------------------------------------
(* What the hook takes for matched orders is what it gives to their counterparts. *)

Inputs(shares) == [i \in DOMAIN shares |-> shares[i].matchedInput]
Outputs(shares) == [i \in DOMAIN shares |-> shares[i].matchedOutput]

\* Allocations that are square between the two sides.
Balanced(shares, os, n) ==
    /\ DOMAIN shares = 1..n
    /\ \A i \in 1..n : shares[i].matchedInput \in Int /\ shares[i].matchedOutput \in Int
    /\ \A z, y \in Sides : z # y =>
          Drawn(Inputs(shares), os, z, n) = Drawn(Outputs(shares), os, y, n)

\* A direct swap has no counterpart and takes nothing.
LEMMA DirectIsBalanced ==
    ASSUME NEW os, NEW n \in Nat, DOMAIN os = 1..n, NEW dir, dir
    PROVE  Balanced(AllocationsOf(os, dir), os, n)
<1> DEFINE shares == AllocationsOf(os, dir)
<1>1. /\ DOMAIN shares = 1..n
      /\ \A i \in 1..n : shares[i].matchedInput = 0 /\ shares[i].matchedOutput = 0
      /\ \A i \in 1..n : shares[i].matchedInput \in Int /\ shares[i].matchedOutput \in Int
  BY DEF AllocationsOf, AllocationOf
<1> HIDE DEF shares
<1>2. \A i \in 1..n : Inputs(shares)[i] = 0 /\ Outputs(shares)[i] = 0
  BY <1>1 DEF Inputs, Outputs
<1>3. \A z, y \in Sides : Drawn(Inputs(shares), os, z, n) = Drawn(Outputs(shares), os, y, n)
  BY <1>2, DrawnOfNothing
<1>4. Balanced(shares, os, n)
  BY <1>1, <1>3 DEF Balanced
<1> QED BY <1>4 DEF shares

\* The whole of a total stands for the whole of a match, and none of it for none.
LEMMA ShareIs ==
    ASSUME NEW m \in Nat, NEW t \in Nat \ {0}
    PROVE  /\ MulDiv(t, m, t) = m /\ MulDiv(0, m, t) = 0
           /\ \A x \in Int : MulDiv(x, m, t) \in Int
<1>1. ASSUME NEW a \in Nat
      PROVE  a \div t \in Nat /\ t * (a \div t) <= a /\ a < t * (a \div t) + t
  OBVIOUS
<1>2. \A x \in Nat : x * m \in Nat
  OBVIOUS
<1>3. (t * m) \div t = m
  <2> DEFINE q == (t * m) \div t
  <2>1. q \in Nat /\ t * q <= t * m /\ t * m < t * q + t
    BY <1>1, <1>2
  <2> HIDE DEF q
  <2>2. ~(q >= m + 1)
    <3> SUFFICES ASSUME q >= m + 1 PROVE FALSE
      OBVIOUS
    <3>1. t * q >= t * (m + 1)
      BY <2>1
    <3> QED BY <2>1, <3>1
  <2>3. ~(m >= q + 1)
    <3> SUFFICES ASSUME m >= q + 1 PROVE FALSE
      OBVIOUS
    <3>1. t * m >= t * (q + 1)
      BY <2>1
    <3> QED BY <2>1, <3>1
  <2> QED BY <2>1, <2>2, <2>3 DEF q
<1>4. 0 \div t = 0
  <2> DEFINE q == 0 \div t
  <2>1. q \in Nat /\ t * q <= 0
    BY <1>1
  <2> HIDE DEF q
  <2>2. ~(q >= 1)
    <3> SUFFICES ASSUME q >= 1 PROVE FALSE
      OBVIOUS
    <3>1. t * q >= t
      BY <2>1
    <3> QED BY <2>1, <3>1
  <2>3. q = 0
    BY <2>1, <2>2
  <2> QED BY <2>3 DEF q
<1>5. 0 * m = 0
  OBVIOUS
<1>6. ASSUME NEW x \in Int PROVE (x * m) \div t \in Int
  <2>1. x * m \in Int
    OBVIOUS
  <2> QED BY <2>1
<1> QED BY <1>3, <1>4, <1>5, <1>6 DEF MulDiv

\* The other of the two sides.
LEMMA Opposite ==
    ASSUME NEW z \in Sides, NEW y \in Sides, z # y
    PROVE  (~z) = y
<1>1. z \in BOOLEAN /\ y \in BOOLEAN
  BY DEF Sides
<1> QED BY <1>1

\* What a batch of one budget allocates: the steps of the running shares.
Stepwise(b, os, n) ==
    [i \in 1..n |-> Allocate(b, os[i].zeroForOne,
                             Drawn(AmountsIn(os), os, os[i].zeroForOne, i - 1), os[i].amountIn)]

\* Running totals of the amounts are integers.
LEMMA RunningIs ==
    ASSUME NEW os, NEW n \in Nat, os \in [1..n -> Order], NEW z
    PROVE  LET f == AmountsIn(os) IN
           /\ \A k \in 0..n : Drawn(f, os, z, k) \in Int
           /\ \A i \in 1..n : os[i].zeroForOne = z =>
                 Drawn(f, os, z, i) = Drawn(f, os, z, i - 1) + os[i].amountIn
           /\ \A i \in 1..n : os[i].zeroForOne # z =>
                 Drawn(f, os, z, i) = Drawn(f, os, z, i - 1)
<1> DEFINE f == AmountsIn(os)
<1>1. \A i \in 1..n : f[i] = os[i].amountIn /\ f[i] \in Int
  BY DEF AmountsIn, Order
<1> HIDE DEF f
<1>2. ASSUME NEW i \in 1..n
      PROVE  /\ Drawn(f, os, z, i - 1) \in Int
             /\ os[i].zeroForOne = z => Drawn(f, os, z, i) = Drawn(f, os, z, i - 1) + f[i]
             /\ os[i].zeroForOne # z => Drawn(f, os, z, i) = Drawn(f, os, z, i - 1)
  <2> DEFINE m == i - 1
  <2>1. m \in Nat /\ (\A j \in 1..m + 1 : f[j] \in Int) /\ m + 1 = i
    BY <1>1
  <2> HIDE DEF m
  <2>2. /\ Drawn(f, os, z, m) \in Int
        /\ os[m + 1].zeroForOne = z => Drawn(f, os, z, m + 1) = Drawn(f, os, z, m) + f[m + 1]
        /\ os[m + 1].zeroForOne # z => Drawn(f, os, z, m + 1) = Drawn(f, os, z, m)
    BY <2>1, DrawnNext
  <2>3. /\ Drawn(f, os, z, m) \in Int
        /\ os[i].zeroForOne = z => Drawn(f, os, z, i) = Drawn(f, os, z, m) + f[i]
        /\ os[i].zeroForOne # z => Drawn(f, os, z, i) = Drawn(f, os, z, m)
    BY <2>1, <2>2
  <2> QED BY <2>3 DEF m
<1>3. ASSUME NEW k \in 0..n PROVE Drawn(f, os, z, k) \in Int
  <2>1. CASE k = 0
    BY <2>1, DrawnFirst
  <2>2. CASE k # 0
    <3>1. k \in 1..n
      BY <2>2
    <3>2. Drawn(f, os, z, k - 1) \in Int /\ f[k] \in Int
      BY <1>1, <1>2, <3>1
    <3> QED BY <1>2, <3>1, <3>2
  <2> QED BY <2>1, <2>2
<1> QED BY <1>1, <1>2, <1>3 DEF f

\* On each side the steps lead from nothing to the whole match.
LEMMA StepsToTheMatch ==
    ASSUME NEW os, NEW n \in Nat, os \in [1..n -> Order], NEW b,
           b.total \in [Sides -> Nat \ {0}], b.matched \in [Sides -> Nat \ {0}],
           \A z \in Sides : b.total[z] = Drawn(AmountsIn(os), os, z, n),
           NEW z \in Sides, NEW y \in Sides, z # y
    PROVE  LET shares == Stepwise(b, os, n) IN
           /\ \A i \in 1..n : shares[i].matchedInput \in Int /\ shares[i].matchedOutput \in Int
           /\ Drawn(Inputs(shares), os, z, n) = b.matched[z]
           /\ Drawn(Outputs(shares), os, z, n) = b.matched[y]
<1> DEFINE f == AmountsIn(os)
           shares == Stepwise(b, os, n)
           P(x, k) == Drawn(f, os, x, k)
           In(x, k) == InputShare(b, x, P(x, k))
           Out(x, k) == OutputShare(b, x, P(x, k))
<1>1. \A x \in Sides : /\ b.total[x] \in Nat \ {0} /\ b.matched[x] \in Nat \ {0}
                       /\ (~x) \in Sides /\ b.matched[~x] \in Nat
  <2>1. \A x \in Sides : (~x) \in Sides
    BY DEF Sides
  <2> QED BY <2>1
<1>2. ASSUME NEW x \in Sides, NEW k \in 0..n
      PROVE  In(x, k) \in Int /\ Out(x, k) \in Int
  <2>1. P(x, k) \in Int
    BY RunningIs
  <2> HIDE DEF P
  <2>2. In(x, k) \in Int
    BY <1>1, <2>1, ShareIs DEF InputShare
  <2> HIDE DEF In
  <2>3. MulDiv(In(x, k), b.matched[~x], b.matched[x]) \in Int
    BY <1>1, <2>2, ShareIs
  <2> QED BY <2>2, <2>3 DEF OutputShare, In
<1>3. ASSUME NEW i \in 1..n
      PROVE  LET x == os[i].zeroForOne IN
             /\ x \in Sides
             /\ shares[i].matchedInput = In(x, i) - In(x, i - 1)
             /\ shares[i].matchedOutput = Out(x, i) - Out(x, i - 1)
  <2> DEFINE x == os[i].zeroForOne
  <2>1. x \in Sides /\ P(x, i) = P(x, i - 1) + os[i].amountIn
    BY RunningIs DEF Order
  <2>2. shares[i] = Allocate(b, x, P(x, i - 1), os[i].amountIn)
    BY DEF Stepwise
  <2> HIDE DEF P, x, shares
  <2>3. /\ shares[i].matchedInput
             = InputShare(b, x, P(x, i - 1) + os[i].amountIn) - InputShare(b, x, P(x, i - 1))
        /\ shares[i].matchedOutput
             = OutputShare(b, x, P(x, i - 1) + os[i].amountIn) - OutputShare(b, x, P(x, i - 1))
    BY <2>2 DEF Allocate
  <2>4. /\ shares[i].matchedInput = In(x, i) - In(x, i - 1)
        /\ shares[i].matchedOutput = Out(x, i) - Out(x, i - 1)
    BY <2>1, <2>3
  <2> QED BY <2>1, <2>4 DEF x
<1>4. \A i \in 1..n : shares[i].matchedInput \in Int /\ shares[i].matchedOutput \in Int
  <2> TAKE i \in 1..n
  <2> DEFINE x == os[i].zeroForOne
  <2>1. i \in 0..n /\ i - 1 \in 0..n /\ x \in Sides
    BY <1>3
  <2>2. In(x, i) \in Int /\ In(x, i - 1) \in Int /\ Out(x, i) \in Int /\ Out(x, i - 1) \in Int
    BY <1>2, <2>1
  <2>3. /\ shares[i].matchedInput = In(x, i) - In(x, i - 1)
        /\ shares[i].matchedOutput = Out(x, i) - Out(x, i - 1)
    BY <1>3
  <2> HIDE DEF In, Out, x, shares
  <2> QED BY <2>2, <2>3
<1>5. DOMAIN shares = 1..n
  BY DEF Stepwise
<1>6. /\ In(z, 0) = 0 /\ Out(z, 0) = 0
      /\ In(z, n) = b.matched[z] /\ Out(z, n) = b.matched[y]
  <2>1. P(z, 0) = 0 /\ P(z, n) = b.total[z] /\ (~z) = y
    BY DrawnFirst, Opposite
  <2>2. In(z, 0) = 0 /\ In(z, n) = b.matched[z]
    <3>1. /\ MulDiv(0, b.matched[z], b.total[z]) = 0
          /\ MulDiv(b.total[z], b.matched[z], b.total[z]) = b.matched[z]
      BY <1>1, ShareIs
    <3> HIDE DEF P
    <3> QED BY <2>1, <3>1 DEF InputShare
  <2>3. MulDiv(0, b.matched[y], b.matched[z]) = 0
    BY <1>1, ShareIs
  <2>4. MulDiv(b.matched[z], b.matched[y], b.matched[z]) = b.matched[y]
    BY <1>1, ShareIs
  <2> HIDE DEF P
  <2> QED BY <2>1, <2>2, <2>3, <2>4 DEF OutputShare
<1> HIDE DEF shares, In, Out
<1>7. Drawn(Inputs(shares), os, z, n) = b.matched[z]
  <2>1. PICK F : F = [k \in 0..n |-> In(z, k)]
    OBVIOUS
  <2>2. (\A k \in 0..n : F[k] = In(z, k) /\ F[k] \in Int) /\ 0 \in 0..n /\ n \in 0..n
    BY <1>2, <2>1
  <2> DEFINE g == Inputs(shares)
  <2>3. \A i \in 1..n : g[i] = shares[i].matchedInput
    BY <1>5 DEF Inputs
  <2> HIDE DEF g
  <2>4. \A i \in 1..n : g[i] \in Int
    BY <1>4, <2>3
  <2>5. \A i \in 1..n : os[i].zeroForOne = z => F[i] = F[i - 1] + g[i]
    <3> SUFFICES ASSUME NEW i \in 1..n, os[i].zeroForOne = z PROVE F[i] = F[i - 1] + g[i]
      OBVIOUS
    <3>1. i \in 0..n /\ i - 1 \in 0..n
      OBVIOUS
    <3>2. g[i] = In(z, i) - In(z, i - 1)
      BY <1>3, <2>3
    <3>3. F[i] = In(z, i) /\ F[i - 1] = In(z, i - 1) /\ F[i] \in Int /\ F[i - 1] \in Int
      BY <2>2, <3>1
    <3>4. g[i] = F[i] - F[i - 1]
      BY <3>2, <3>3
    <3> QED BY <3>3, <3>4
  <2>6. \A i \in 1..n : os[i].zeroForOne # z => F[i] = F[i - 1]
    <3> SUFFICES ASSUME NEW i \in 1..n, os[i].zeroForOne # z PROVE F[i] = F[i - 1]
      OBVIOUS
    <3>1. i \in 0..n /\ i - 1 \in 0..n
      OBVIOUS
    <3>2. P(z, i) = P(z, i - 1)
      BY RunningIs
    <3>3. In(z, i) = In(z, i - 1)
      BY <3>2 DEF In
    <3> QED BY <2>2, <3>1, <3>3
  <2>7. F[n] = b.matched[z]
    BY <1>6, <2>2
  <2>8. (\A k \in 0..n : F[k] \in Int) /\ F[0] = 0
    BY <1>6, <2>2
  <2>9. Drawn(g, os, z, n) = F[n]
    BY ONLY n \in Nat, <2>4, <2>5, <2>6, <2>8, DrawnIs
  <2> QED BY <2>7, <2>9 DEF g
<1>8. Drawn(Outputs(shares), os, z, n) = b.matched[y]
  <2>1. PICK F : F = [k \in 0..n |-> Out(z, k)]
    OBVIOUS
  <2>2. (\A k \in 0..n : F[k] = Out(z, k) /\ F[k] \in Int) /\ 0 \in 0..n /\ n \in 0..n
    BY <1>2, <2>1
  <2> DEFINE g == Outputs(shares)
  <2>3. \A i \in 1..n : g[i] = shares[i].matchedOutput
    BY <1>5 DEF Outputs
  <2> HIDE DEF g
  <2>4. \A i \in 1..n : g[i] \in Int
    BY <1>4, <2>3
  <2>5. \A i \in 1..n : os[i].zeroForOne = z => F[i] = F[i - 1] + g[i]
    <3> SUFFICES ASSUME NEW i \in 1..n, os[i].zeroForOne = z PROVE F[i] = F[i - 1] + g[i]
      OBVIOUS
    <3>1. i \in 0..n /\ i - 1 \in 0..n
      OBVIOUS
    <3>2. g[i] = Out(z, i) - Out(z, i - 1)
      BY <1>3, <2>3
    <3>3. F[i] = Out(z, i) /\ F[i - 1] = Out(z, i - 1) /\ F[i] \in Int /\ F[i - 1] \in Int
      BY <2>2, <3>1
    <3>4. g[i] = F[i] - F[i - 1]
      BY <3>2, <3>3
    <3> QED BY <3>3, <3>4
  <2>6. \A i \in 1..n : os[i].zeroForOne # z => F[i] = F[i - 1]
    <3> SUFFICES ASSUME NEW i \in 1..n, os[i].zeroForOne # z PROVE F[i] = F[i - 1]
      OBVIOUS
    <3>1. i \in 0..n /\ i - 1 \in 0..n
      OBVIOUS
    <3>2. P(z, i) = P(z, i - 1)
      BY RunningIs
    <3>3. Out(z, i) = Out(z, i - 1)
      BY <3>2 DEF Out
    <3> QED BY <2>2, <3>1, <3>3
  <2>7. F[n] = b.matched[y]
    BY <1>6, <2>2
  <2>8. (\A k \in 0..n : F[k] \in Int) /\ F[0] = 0
    BY <1>6, <2>2
  <2>9. Drawn(g, os, z, n) = F[n]
    BY ONLY n \in Nat, <2>4, <2>5, <2>6, <2>8, DrawnIs
  <2> QED BY <2>7, <2>9 DEF g
<1> QED BY <1>4, <1>7, <1>8 DEF shares

\* A match is a natural number of each token.
LEMMA MatchedIs ==
    ASSUME NEW total \in [Sides -> Nat], NEW s \in Nat \ {0}
    PROVE  Matched(total, s) \in [Sides -> Nat]
<1>1. ASSUME NEW a \in Nat, NEW b \in Nat, NEW d \in Nat \ {0} PROVE MulDiv(a, b, d) \in Nat
  <2>1. a * b \in Nat
    OBVIOUS
  <2>2. \A x \in Nat : x \div d \in Nat
    OBVIOUS
  <2> QED BY <2>1, <2>2 DEF MulDiv
<1>2. Numerator(s) \in Nat \ {0}
  <2>1. s * s >= s /\ s * s \in Nat
    OBVIOUS
  <2> QED BY <2>1 DEF Numerator
<1>3. Q192 \in Nat \ {0} /\ total[TRUE] \in Nat /\ total[FALSE] \in Nat
  BY MathAssumption DEF Sides
<1> DEFINE n == Numerator(s)
           converted == MulDiv(total[FALSE], Q192, n)
           m0 == IF total[TRUE] < converted THEN total[TRUE] ELSE converted
           m1 == MulDiv(m0, n, Q192)
<1>4. m0 \in Nat
  BY <1>1, <1>2, <1>3
<1> HIDE DEF m0
<1>5. m1 \in Nat
  BY <1>1, <1>2, <1>3, <1>4
<1> HIDE DEF m1
<1>6. [z \in Sides |-> IF z THEN m0 ELSE m1] \in [Sides -> Nat]
  BY <1>4, <1>5
<1> QED BY <1>6 DEF Matched, m0, m1

\* Whatever openBatch accepts is balanced.
LEMMA OpenedIsBalanced ==
    ASSUME NEW os, NEW n \in Nat, os \in [1..n -> Order], NEW dir,
           price \in Nat \ {0}, Matches(os, dir)
    PROVE  Balanced(AllocationsOf(os, dir), os, n)
<1>1. CASE dir
  BY <1>1, DirectIsBalanced
<1>2. CASE ~dir
  <2> DEFINE total == [z \in Sides |-> Total(os, z)]
             b == Budget(total, price)
  <2>1. Len(os) = n
    <3>1. os \in Seq(Order)
      OBVIOUS
    <3> QED BY <3>1
  <2>2. \A z \in Sides : total[z] = Drawn(AmountsIn(os), os, z, n)
    BY <2>1 DEF Total, Drawn
  <2>3. BudgetDefined(total, price)
    BY <1>2 DEF Matches
  <2>4. BudgetOf(os, dir) = b
    BY <1>2 DEF BudgetOf
  <2>5. total = [z \in Sides |-> total[z]]
    OBVIOUS
  <2> HIDE DEF total
  <2>6. \A z \in Sides : total[z] \in Nat \ {0} /\ Matched(total, price)[z] # 0
    BY <2>3, MathAssumption DEF BudgetDefined
  <2>7. total \in [Sides -> Nat \ {0}]
    BY <2>5, <2>6
  <2> DEFINE m == Matched(total, price)
  <2>8. m \in [Sides -> Nat] /\ \A z \in Sides : m[z] # 0
    BY <2>6, <2>7, MatchedIs
  <2>9. b.total = total /\ b.matched = m
    BY DEF Budget
  <2> HIDE DEF m, b
  <2>10. m \in [Sides -> Nat \ {0}]
    BY <2>8
  <2>11. /\ b.total \in [Sides -> Nat \ {0}] /\ b.matched \in [Sides -> Nat \ {0}]
         /\ \A z \in Sides : b.total[z] = Drawn(AmountsIn(os), os, z, n)
    BY <2>2, <2>7, <2>9, <2>10
  <2> DEFINE shares == Stepwise(b, os, n)
  <2>12. AllocationsOf(os, dir) = shares
    <3>1. ASSUME NEW i \in 1..n PROVE AllocationOf(os, dir, i) = shares[i]
      BY <1>2, <2>4 DEF AllocationOf, Ahead, Drawn, Stepwise
    <3>2. AllocationsOf(os, dir) = [i \in 1..n |-> AllocationOf(os, dir, i)]
      BY DEF AllocationsOf
    <3>3. shares = [i \in 1..n |-> shares[i]]
      BY DEF Stepwise
    <3> HIDE DEF shares
    <3> QED BY <3>1, <3>2, <3>3
  <2>13. DOMAIN shares = 1..n
    BY DEF Stepwise
  <2>14. ASSUME NEW z \in Sides, NEW y \in Sides, z # y
         PROVE  /\ \A i \in 1..n : shares[i].matchedInput \in Int /\ shares[i].matchedOutput \in Int
                /\ Drawn(Inputs(shares), os, z, n) = b.matched[z]
                /\ Drawn(Outputs(shares), os, z, n) = b.matched[y]
    BY <2>11, <2>14, StepsToTheMatch
  <2>15. \A z, y \in Sides : z # y =>
            Drawn(Inputs(shares), os, z, n) = Drawn(Outputs(shares), os, y, n)
    BY <2>14
  <2>16. \A i \in 1..n : shares[i].matchedInput \in Int /\ shares[i].matchedOutput \in Int
    <3>1. TRUE \in Sides /\ FALSE \in Sides /\ TRUE # FALSE
      BY DEF Sides
    <3> QED BY <2>14, <3>1
  <2> HIDE DEF shares
  <2>17. Balanced(shares, os, n)
    BY <2>13, <2>15, <2>16 DEF Balanced
  <2> QED BY <2>12, <2>17
<1> QED BY <1>1, <1>2

-----------------------------------------------------------------------------
(* The accounts of a call, step by step. *)

\* The request is a submission, sorted.
SortedRequest == phase # "idle" => \E os \in Submissions : orders = Sorted(os)

AtAnOrder ==
    /\ phase \in {"fund", "swap", "pay"} => index \in 1..Len(orders)
    /\ phase = "close" => index = 1

SquareAllocations ==
    phase \in {"fund", "swap"} => Balanced(allocations, orders, Len(orders))

OutputsSoFar ==
    /\ outputs = [i \in DOMAIN outputs |-> outputs[i]]
    /\ \A i \in DOMAIN outputs : outputs[i] \in Int
    /\ phase \in {"idle", "open", "fund"} => outputs = <<>>
    /\ phase = "swap" => DOMAIN outputs = 1..index - 1
    /\ phase \in {"close", "pay", "return"} => DOMAIN outputs = 1..Len(orders)

\* A side's part of the account of the router, and of the hook: what was paid in is
\* swapped order by order for outputs, which are paid out order by order.
RouterSoFar ==
    /\ phase \in {"idle", "open", "return"} => \A t \in Sides : deltas["router"][t] = 0
    /\ phase = "fund" => \A t \in Sides :
          deltas["router"][t] = Drawn(AmountsIn(orders), orders, t, index - 1)
    /\ phase = "swap" => \A t, s \in Sides : t # s =>
          deltas["router"][t] = Drawn(AmountsIn(orders), orders, t, Len(orders))
                                - Drawn(AmountsIn(orders), orders, t, index - 1)
                                + Drawn(outputs, orders, s, index - 1)
    /\ phase = "close" => \A t, s \in Sides : t # s =>
          deltas["router"][t] = Drawn(outputs, orders, s, Len(orders))
    /\ phase = "pay" => \A t, s \in Sides : t # s =>
          deltas["router"][t] = Drawn(outputs, orders, s, Len(orders))
                                - Drawn(outputs, orders, s, index - 1)

HookSoFar ==
    /\ phase # "swap" => \A t \in Sides : deltas["hook"][t] = 0
    /\ phase = "swap" => \A t, s \in Sides : t # s =>
          deltas["hook"][t] = Drawn(Inputs(allocations), orders, t, index - 1)
                              - Drawn(Outputs(allocations), orders, s, index - 1)

AccountsInv ==
    /\ SortedRequest /\ AtAnOrder /\ SquareAllocations /\ OutputsSoFar
    /\ deltas \in [{"router", "hook"} -> [Sides -> Int]]
    /\ RouterSoFar /\ HookSoFar

\* It is a list of as many orders, in ascending order.
LEMMA RequestIsSorted ==
    ASSUME SortedRequest, phase # "idle"
    PROVE  \E k \in 1..MaxBatch : orders \in ListsOf(k) /\ AscendingTo(orders, k)
<1>1. PICK os \in Submissions : orders = Sorted(os)
  BY DEF SortedRequest
<1>2. PICK k \in 1..MaxBatch : os \in ListsOf(k)
  BY DEF Submissions, ListsOf
<1>3. k \in Nat \ {0}
  BY ExecutionAssumption
<1> QED BY <1>1, <1>2, <1>3, SortedIs

\* The orders of the request.
LEMMA RequestIs ==
    ASSUME SortedRequest, phase # "idle"
    PROVE  /\ Len(orders) \in Nat \ {0} /\ DOMAIN orders = 1..Len(orders)
           /\ orders \in [1..Len(orders) -> Order]
           /\ \A i \in 1..Len(orders) : orders[i].zeroForOne \in Sides /\ orders[i].amountIn \in Int
<1>1. PICK k \in 1..MaxBatch : orders \in [1..k -> Orders]
  BY RequestIsSorted DEF ListsOf
<1>2. k \in Nat \ {0} /\ Orders \subseteq Order
  BY ExecutionAssumption
<1>3. orders \in Seq(Orders) /\ Len(orders) = k
  BY <1>1, <1>2
<1>4. orders \in [1..Len(orders) -> Order] /\ Len(orders) \in Nat \ {0}
  BY <1>1, <1>2, <1>3
<1>5. \A o \in Order : o.zeroForOne \in Sides /\ o.amountIn \in Int
  BY DEF Order
<1> QED BY <1>4, <1>5

\* Nothing is on account in NoDeltas.
LEMMA NoDeltasIs ==
    /\ NoDeltas \in [{"router", "hook"} -> [Sides -> Int]]
    /\ \A t \in Sides : NoDeltas["router"][t] = 0 /\ NoDeltas["hook"][t] = 0
BY DEF NoDeltas

\* One account of one token moves.
LEMMA OneMoves ==
    ASSUME NEW d \in [{"router", "hook"} -> [Sides -> Int]], NEW z \in Sides, NEW a \in Int,
           NEW e, e = [d EXCEPT !["router"][z] = a]
    PROVE  /\ e \in [{"router", "hook"} -> [Sides -> Int]]
           /\ e["router"][z] = a
           /\ \A t \in Sides : t # z => e["router"][t] = d["router"][t]
           /\ \A t \in Sides : e["hook"][t] = d["hook"][t]
<1>1. d["router"] \in [Sides -> Int] /\ d["hook"] \in [Sides -> Int]
  OBVIOUS
<1>2. e["router"] = [d["router"] EXCEPT ![z] = a] /\ e["hook"] = d["hook"]
  OBVIOUS
<1>3. e["router"] \in [Sides -> Int]
  BY <1>1, <1>2
<1>4. e \in [{"router", "hook"} -> [Sides -> Int]]
  BY <1>1, <1>2, <1>3
<1> QED BY <1>1, <1>2, <1>4

\* A swap moves both accounts in both tokens.
LEMMA FourMove ==
    ASSUME NEW d \in [{"router", "hook"} -> [Sides -> Int]],
           NEW z \in Sides, NEW y \in Sides, z # y,
           NEW a \in Int, NEW b \in Int, NEW c \in Int, NEW f \in Int,
           NEW e, e = [d EXCEPT !["router"][z] = @ - a, !["router"][y] = @ + b,
                                !["hook"][z] = @ + c, !["hook"][y] = @ - f]
    PROVE  /\ e \in [{"router", "hook"} -> [Sides -> Int]]
           /\ e["router"][z] = d["router"][z] - a /\ e["router"][y] = d["router"][y] + b
           /\ e["hook"][z] = d["hook"][z] + c /\ e["hook"][y] = d["hook"][y] - f
<1>1. d["router"] \in [Sides -> Int] /\ d["hook"] \in [Sides -> Int]
  OBVIOUS
<1>2. /\ e["router"] = [d["router"] EXCEPT ![z] = @ - a, ![y] = @ + b]
      /\ e["hook"] = [d["hook"] EXCEPT ![z] = @ + c, ![y] = @ - f]
      /\ e = [x \in {"router", "hook"} |-> e[x]]
  OBVIOUS
<1>3. e["router"] \in [Sides -> Int] /\ e["hook"] \in [Sides -> Int]
  BY <1>1, <1>2
<1>4. e \in [{"router", "hook"} -> [Sides -> Int]]
  BY <1>2, <1>3
<1> QED BY <1>1, <1>2, <1>4

\* There are two sides.
LEMMA TwoSides == \A t, s, z \in Sides : t # s => z = t \/ z = s
BY DEF Sides

\* Before the first call nothing is on account.
LEMMA AccountsInitInv == Init => AccountsInv
<1> SUFFICES ASSUME Init PROVE AccountsInv
  OBVIOUS
<1>1. phase = "idle" /\ outputs = <<>> /\ deltas = NoDeltas
  BY DEF Init
<1>2. OutputsSoFar
  BY <1>1 DEF OutputsSoFar
<1>3. RouterSoFar /\ HookSoFar /\ deltas \in [{"router", "hook"} -> [Sides -> Int]]
  BY <1>1, NoDeltasIs DEF RouterSoFar, HookSoFar
<1> QED BY <1>1, <1>2, <1>3 DEF AccountsInv, SortedRequest, AtAnOrder, SquareAllocations

\* Between calls, and while the hook is about to open, nothing is on account.
LEMMA NothingOnAccount ==
    ASSUME deltas' = NoDeltas, outputs' = <<>>, phase' \in {"idle", "open"},
           SortedRequest'
    PROVE  AccountsInv'
<1>1. OutputsSoFar'
  BY DEF OutputsSoFar
<1>2. RouterSoFar' /\ HookSoFar' /\ (deltas \in [{"router", "hook"} -> [Sides -> Int]])'
  BY NoDeltasIs DEF RouterSoFar, HookSoFar
<1> QED BY <1>1, <1>2 DEF AccountsInv, AtAnOrder, SquareAllocations

\* A call begins with what it was given, sorted.
LEMMA CallAccounts ==
    ASSUME CallInv, AccountsInv, NEW os \in Submissions, NEW dir, NEW quote, Call(os, dir, quote)
    PROVE  AccountsInv'
<1>1. /\ phase = "idle" /\ phase' = "open" /\ orders' = Sorted(os)
      /\ UNCHANGED <<deltas, outputs>>
  BY DEF Call
<1>2. deltas = NoDeltas /\ outputs = <<>>
  BY <1>1 DEF CallInv, AccountsInv, OutputsSoFar
<1>3. SortedRequest'
  BY <1>1 DEF SortedRequest
<1> QED BY <1>1, <1>2, <1>3, NothingOnAccount

\* So it is when a call ends.
LEMMA EndAccounts ==
    ASSUME CallInv, Return \/ Abort
    PROVE  AccountsInv'
<1>1. phase' = "idle" /\ outputs' = <<>> /\ deltas' = NoDeltas
  BY DEF Return, Abort, Finished
<1> QED BY <1>1, NothingOnAccount DEF SortedRequest

\* openBatch allocates what is square.
LEMMA OpenAccounts ==
    ASSUME CallInv, AccountsInv, Open
    PROVE  AccountsInv'
<1> DEFINE n == Len(orders)
<1>1. /\ phase = "open" /\ phase' = "fund" /\ index' = 1
      /\ UNCHANGED <<orders, direct, deltas, outputs, price>>
      /\ allocations' = AllocationsOf(orders, direct) /\ Matches(orders, direct)
  BY DEF Open, request
<1>2. n \in Nat \ {0} /\ orders \in [1..n -> Order]
  BY <1>1, RequestIs DEF AccountsInv
<1>3. price \in Nat \ {0}
  BY MathAssumption DEF CallInv, InBand, PriceSupported
<1>4. Balanced(allocations', orders, n)
  BY <1>1, <1>2, <1>3, OpenedIsBalanced
<1>5. outputs = <<>> /\ \A t \in Sides : deltas["router"][t] = 0 /\ deltas["hook"][t] = 0
  BY <1>1 DEF AccountsInv, OutputsSoFar, RouterSoFar, HookSoFar
<1>6. \A t \in Sides : Drawn(AmountsIn(orders), orders, t, 0) = 0
  BY DrawnFirst
<1>7. SortedRequest' /\ AtAnOrder' /\ OutputsSoFar'
  BY <1>1, <1>2, <1>5 DEF AccountsInv, SortedRequest, AtAnOrder, OutputsSoFar
<1>8. index' - 1 = 0
  BY <1>1
<1>9. RouterSoFar' /\ HookSoFar'
  BY <1>1, <1>5, <1>6, <1>8 DEF RouterSoFar, HookSoFar
<1>10. SquareAllocations'
  BY <1>1, <1>4 DEF SquareAllocations, Balanced
<1> QED BY <1>1, <1>7, <1>9, <1>10 DEF AccountsInv

\* The next order is done, and its successor is at hand, or the next phase.
LEMMA Advanced ==
    ASSUME AccountsInv, phase \in {"fund", "swap", "pay"}, NEW following, Advance(following)
    PROVE  /\ index \in 1..Len(orders) /\ Len(orders) \in Nat /\ index - 1 \in Nat
           /\ index - 1 \in 0..Len(orders) /\ index \in 0..Len(orders)
           /\ \/ phase' = phase /\ index' \in 1..Len(orders) /\ index' - 1 = index
              \/ phase' = following /\ index' = 1 /\ index = Len(orders)
<1>1. index \in 1..Len(orders) /\ Len(orders) \in Nat
  BY RequestIs DEF AccountsInv, AtAnOrder
<1> QED BY <1>1 DEF Advance

\* An order is funded on its side.
LEMMA FundAccounts ==
    ASSUME CallInv, AccountsInv, Fund
    PROVE  AccountsInv'
<1> DEFINE n == Len(orders)
           z == orders[index].zeroForOne
           a == orders[index].amountIn
           A(t, k) == Drawn(AmountsIn(orders), orders, t, k)
<1>1. /\ phase = "fund" /\ Advance("swap")
      /\ UNCHANGED <<orders, allocations, outputs>>
      /\ deltas' = [deltas EXCEPT !["router"][z] = @ + a]
  BY DEF Fund, context, request
<1>2. /\ index \in 1..n /\ n \in Nat /\ index - 1 \in 0..n /\ index \in 0..n
      /\ \/ phase' = "fund" /\ index' \in 1..n /\ index' - 1 = index
         \/ phase' = "swap" /\ index' = 1 /\ index = n
  BY <1>1, Advanced
<1>3. orders \in [1..n -> Order] /\ z \in Sides /\ a \in Int
  BY <1>1, <1>2, RequestIs DEF AccountsInv
<1>4. ASSUME NEW t \in Sides
      PROVE  /\ A(t, index - 1) \in Int /\ A(t, index) \in Int
             /\ z = t => A(t, index) = A(t, index - 1) + a
             /\ z # t => A(t, index) = A(t, index - 1)
  BY <1>2, <1>3, RunningIs
<1>5. /\ deltas \in [{"router", "hook"} -> [Sides -> Int]]
      /\ \A t \in Sides : deltas["router"][t] = A(t, index - 1) /\ deltas["hook"][t] = 0
  BY <1>1 DEF AccountsInv, RouterSoFar, HookSoFar
<1> HIDE DEF A, z, a, n
<1>6. /\ deltas' \in [{"router", "hook"} -> [Sides -> Int]]
      /\ \A t \in Sides : deltas'["router"][t] = A(t, index) /\ deltas'["hook"][t] = 0
  <2>1. deltas["router"][z] + a \in Int
    BY <1>3, <1>5
  <2>2. deltas' = [deltas EXCEPT !["router"][z] = deltas["router"][z] + a]
    BY <1>1
  <2>3. /\ deltas' \in [{"router", "hook"} -> [Sides -> Int]]
        /\ deltas'["router"][z] = deltas["router"][z] + a
        /\ \A t \in Sides : t # z => deltas'["router"][t] = deltas["router"][t]
        /\ \A t \in Sides : deltas'["hook"][t] = deltas["hook"][t]
    BY <1>3, <1>5, <2>1, <2>2, OneMoves
  <2> QED BY <1>3, <1>4, <1>5, <2>3
<1>7. SortedRequest' /\ AtAnOrder' /\ SquareAllocations' /\ OutputsSoFar'
  <2>1. Balanced(allocations, orders, Len(orders)) /\ outputs = <<>>
    BY <1>1 DEF AccountsInv, SquareAllocations, OutputsSoFar
  <2>2. SquareAllocations'
    BY <1>1, <2>1 DEF SquareAllocations, Balanced
  <2>3. OutputsSoFar'
    BY <1>1, <1>2, <2>1 DEF OutputsSoFar
  <2>4. SortedRequest' /\ AtAnOrder'
    BY <1>1, <1>2 DEF AccountsInv, SortedRequest, AtAnOrder, n
  <2> QED BY <2>2, <2>3, <2>4
<1>8. RouterSoFar' /\ HookSoFar'
  <2>1. CASE phase' = "fund" /\ index' - 1 = index
    <3>1. RouterSoFar'
      BY <1>1, <1>6, <2>1 DEF RouterSoFar, A
    <3>2. HookSoFar'
      BY <1>6, <2>1 DEF HookSoFar
    <3> QED BY <3>1, <3>2
  <2>2. CASE phase' = "swap" /\ index' = 1 /\ index = n
    <3>0. index' - 1 = 0
      BY <2>2
    <3>1. \A f, t : Drawn(f, orders, t, 0) = 0
      BY DrawnFirst
    <3>2. \A t \in Sides : A(t, 0) = 0 /\ A(t, n) \in Int /\ deltas'["router"][t] = A(t, n)
      BY <1>4, <1>6, <2>2, <3>1 DEF A
    <3>3. \A t \in Sides : deltas'["router"][t] = A(t, n) - A(t, 0) + 0
      BY <3>2
    <3>4. RouterSoFar'
      BY <1>1, <2>2, <3>0, <3>1, <3>3 DEF RouterSoFar, A, n
    <3>5. HookSoFar'
      <4>1. /\ \A t \in Sides : Drawn(Inputs(allocations), orders, t, 0) = 0
            /\ \A t \in Sides : Drawn(Outputs(allocations), orders, t, 0) = 0
        BY DrawnFirst
      <4>2. \A t, s \in Sides :
               deltas'["hook"][t] = Drawn(Inputs(allocations), orders, t, 0)
                                    - Drawn(Outputs(allocations), orders, s, 0)
        BY <1>6, <4>1
      <4> QED BY <1>1, <2>2, <3>0, <4>2 DEF HookSoFar
    <3> QED BY <3>4, <3>5
  <2> QED BY <1>2, <2>1, <2>2
<1> QED BY <1>6, <1>7, <1>8 DEF AccountsInv

\* An order is paid on the other side.
LEMMA PayAccounts ==
    ASSUME CallInv, AccountsInv, Pay
    PROVE  AccountsInv'
<1> DEFINE n == Len(orders)
           z == orders[index].zeroForOne
           a == outputs[index]
           O(s, k) == Drawn(outputs, orders, s, k)
<1>1. /\ phase = "pay" /\ Advance("return")
      /\ UNCHANGED <<orders, outputs>>
      /\ deltas' = [deltas EXCEPT !["router"][~z] = @ - a]
  BY DEF Pay, context, request
<1>2. /\ index \in 1..n /\ n \in Nat /\ index - 1 \in Nat
      /\ \/ phase' = "pay" /\ index' \in 1..n /\ index' - 1 = index
         \/ phase' = "return" /\ index' = 1 /\ index = n
  BY <1>1, Advanced
<1>3. orders \in [1..n -> Order] /\ z \in Sides
  BY <1>1, <1>2, RequestIs DEF AccountsInv
<1>4. DOMAIN outputs = 1..n /\ \A i \in 1..n : outputs[i] \in Int
  BY <1>1 DEF AccountsInv, OutputsSoFar
<1>5. PICK y \in Sides : z # y
  BY <1>3 DEF Sides
<1>6. (~z) = y
  BY <1>3, <1>5, Opposite
<1>7. \A s \in Sides : O(s, index) \in Int /\ O(s, n) \in Int
  <2>1. index \in 0..n /\ n \in 0..n /\ n \in Nat
    BY <1>2
  <2> HIDE DEF n
  <2> QED BY <1>4, <2>1, DrawnIsInt
<1>8. \A s \in Sides : /\ O(s, index - 1) \in Int
                       /\ z = s => O(s, index) = O(s, index - 1) + a
                       /\ z # s => O(s, index) = O(s, index - 1)
  <2> DEFINE m == index - 1
  <2>1. m \in Nat /\ (\A i \in 1..m + 1 : outputs[i] \in Int) /\ m + 1 = index
    BY <1>2, <1>4
  <2> HIDE DEF m
  <2>2. \A s \in Sides :
           /\ Drawn(outputs, orders, s, m) \in Int
           /\ orders[m + 1].zeroForOne = s =>
                 Drawn(outputs, orders, s, m + 1) = Drawn(outputs, orders, s, m) + outputs[m + 1]
           /\ orders[m + 1].zeroForOne # s =>
                 Drawn(outputs, orders, s, m + 1) = Drawn(outputs, orders, s, m)
    BY <2>1, DrawnNext
  <2> QED BY <2>1, <2>2 DEF m
<1>9. /\ deltas \in [{"router", "hook"} -> [Sides -> Int]]
      /\ \A t, s \in Sides : t # s => deltas["router"][t] = O(s, n) - O(s, index - 1)
      /\ \A t \in Sides : deltas["hook"][t] = 0
  BY <1>1 DEF AccountsInv, RouterSoFar, HookSoFar
<1>10. a \in Int
  BY <1>2, <1>4
<1> HIDE DEF O, z, a, n
<1>11. /\ deltas' \in [{"router", "hook"} -> [Sides -> Int]]
       /\ \A t, s \in Sides : t # s => deltas'["router"][t] = O(s, n) - O(s, index)
       /\ \A t \in Sides : deltas'["hook"][t] = 0
  <2>1. deltas["router"][y] - a \in Int
    BY <1>9, <1>10
  <2>2. deltas' = [deltas EXCEPT !["router"][y] = deltas["router"][y] - a]
    BY <1>1, <1>6
  <2>3. /\ deltas' \in [{"router", "hook"} -> [Sides -> Int]]
        /\ deltas'["router"][y] = deltas["router"][y] - a
        /\ \A t \in Sides : t # y => deltas'["router"][t] = deltas["router"][t]
        /\ \A t \in Sides : deltas'["hook"][t] = deltas["hook"][t]
    BY <1>9, <2>1, <2>2, OneMoves
  <2>4. ASSUME NEW t \in Sides, NEW s \in Sides, t # s
        PROVE  deltas'["router"][t] = O(s, n) - O(s, index)
    <3>1. CASE t = y
      <4>1. s = z
        BY <1>3, <1>5, <2>4, <3>1, TwoSides
      <4>2. deltas["router"][y] = O(z, n) - O(z, index - 1)
        BY <1>3, <1>5, <1>9
      <4>3. O(z, index) = O(z, index - 1) + a
        BY <1>3, <1>8
      <4>4. O(z, index - 1) \in Int /\ O(z, n) \in Int
        BY <1>3, <1>7, <1>8
      <4>5. deltas'["router"][y] = O(z, n) - O(z, index)
        BY <1>10, <2>3, <4>2, <4>3, <4>4
      <4> QED BY <3>1, <4>1, <4>5
    <3>2. CASE t # y
      <4>1. z # s
        BY <1>3, <1>5, <2>4, <3>2, TwoSides
      <4>2. O(s, index) = O(s, index - 1)
        BY <1>8, <4>1
      <4> QED BY <1>9, <2>3, <2>4, <3>2, <4>2
    <3> QED BY <3>1, <3>2
  <2> QED BY <1>9, <2>3, <2>4
<1>12. SortedRequest' /\ AtAnOrder' /\ SquareAllocations' /\ OutputsSoFar'
  <2>1. OutputsSoFar'
    BY <1>1, <1>2 DEF AccountsInv, OutputsSoFar
  <2>2. SortedRequest' /\ AtAnOrder' /\ SquareAllocations'
    BY <1>1, <1>2 DEF AccountsInv, SortedRequest, AtAnOrder, SquareAllocations, n
  <2> QED BY <2>1, <2>2
<1>13. HookSoFar'
  BY <1>2, <1>11 DEF HookSoFar
<1>14. RouterSoFar'
  <2>1. CASE phase' = "pay" /\ index' - 1 = index
    BY <1>1, <1>11, <2>1 DEF RouterSoFar, O, n
  <2>2. CASE phase' = "return" /\ index = n
    <3>1. ASSUME NEW t \in Sides PROVE deltas'["router"][t] = 0
      <4>1. PICK s \in Sides : t # s
        BY <1>3, <1>5
      <4>2. deltas'["router"][t] = O(s, n) - O(s, n) /\ O(s, n) \in Int
        BY <1>7, <1>11, <2>2, <4>1
      <4> QED BY <4>2
    <3> QED BY <2>2, <3>1 DEF RouterSoFar
  <2> QED BY <1>2, <2>1, <2>2
<1> QED BY <1>11, <1>12, <1>13, <1>14 DEF AccountsInv

\* When all is swapped the accounts are square, and closing moves none.
LEMMA CloseAccounts ==
    ASSUME CallInv, AccountsInv, Close
    PROVE  AccountsInv'
<1> DEFINE n == Len(orders)
<1>1. /\ phase = "close" /\ phase' = "pay"
      /\ UNCHANGED <<orders, outputs, deltas, index>>
  BY DEF Close, request
<1>2. index = 1 /\ index - 1 = 0 /\ index \in 1..n /\ n \in Nat
  BY <1>1, RequestIs DEF AccountsInv, AtAnOrder
<1>3. DOMAIN outputs = 1..n /\ \A i \in 1..n : outputs[i] \in Int
  BY <1>1 DEF AccountsInv, OutputsSoFar
<1>4. /\ \A s \in Sides : Drawn(outputs, orders, s, n) \in Int
      /\ \A s \in Sides : Drawn(outputs, orders, s, 0) = 0
  <2>1. n \in 0..n /\ n \in Nat
    BY <1>2
  <2> HIDE DEF n
  <2> QED BY <1>3, <2>1, DrawnIsInt, DrawnFirst
<1>5. SortedRequest' /\ AtAnOrder' /\ SquareAllocations' /\ OutputsSoFar'
  BY <1>1, <1>2 DEF AccountsInv, SortedRequest, AtAnOrder, SquareAllocations, OutputsSoFar
<1>6. HookSoFar'
  BY <1>1 DEF AccountsInv, HookSoFar
<1>7. \A t, s \in Sides : t # s =>
         deltas["router"][t] = Drawn(outputs, orders, s, n) - Drawn(outputs, orders, s, 0)
  <2>1. \A t, s \in Sides : t # s => deltas["router"][t] = Drawn(outputs, orders, s, n)
    BY <1>1 DEF AccountsInv, RouterSoFar
  <2>2. \A s \in Sides : Drawn(outputs, orders, s, n) - Drawn(outputs, orders, s, 0)
                           = Drawn(outputs, orders, s, n)
    BY <1>4
  <2> QED BY <2>1, <2>2
<1>8. RouterSoFar'
  BY <1>1, <1>2, <1>7 DEF RouterSoFar
<1> QED BY <1>1, <1>5, <1>6, <1>8 DEF AccountsInv

\* Between two calls nothing of this moves.
LEMMA OutsideAccounts ==
    ASSUME CallInv, AccountsInv, Outside
    PROVE  AccountsInv'
<1>1. phase = "idle" /\ UNCHANGED <<phase, outputs, deltas>>
  BY DEF Outside, Tick, HookCancelNonce, Review
<1>2. deltas = NoDeltas /\ outputs = <<>>
  BY <1>1 DEF CallInv, AccountsInv, OutputsSoFar
<1>3. SortedRequest'
  BY <1>1 DEF SortedRequest
<1> QED BY <1>1, <1>2, <1>3, NothingOnAccount

\* One more output.
LEMMA OneMore ==
    ASSUME NEW s, NEW m \in Nat, s = [i \in DOMAIN s |-> s[i]], DOMAIN s = 1..m,
           \A i \in 1..m : s[i] \in Int, NEW x \in Int
    PROVE  LET r == Append(s, x) IN
           /\ r = [i \in DOMAIN r |-> r[i]] /\ DOMAIN r = 1..m + 1
           /\ \A i \in 1..m + 1 : r[i] \in Int
           /\ \A i \in 1..m : r[i] = s[i]
           /\ r[m + 1] = x
<1>1. s \in [1..m -> Int]
  OBVIOUS
<1>2. s \in Seq(Int) /\ Len(s) = m
  BY <1>1
<1> DEFINE r == Append(s, x)
<1>3. r \in Seq(Int) /\ Len(r) = m + 1
  BY <1>2
<1>4. (\A i \in 1..m : r[i] = s[i]) /\ r[m + 1] = x
  BY <1>2
<1> HIDE DEF r
<1>5. r \in [1..m + 1 -> Int]
  BY <1>3
<1>6. /\ r = [i \in DOMAIN r |-> r[i]] /\ DOMAIN r = 1..m + 1
      /\ \A i \in 1..m + 1 : r[i] \in Int
  BY <1>5
<1> QED BY <1>4, <1>6 DEF r

\* An order is swapped: its input leaves the router for an output on the other side, of
\* which the hook gives the matched part for the matched input.
LEMMA SwapAccounts ==
    ASSUME CallInv, AccountsInv, Swap
    PROVE  AccountsInv'
<1> DEFINE n == Len(orders)
           m == index - 1
           z == orders[index].zeroForOne
           amount == orders[index].amountIn
           taken == allocations[index].matchedInput
           given == allocations[index].matchedOutput
           A(t, k) == Drawn(AmountsIn(orders), orders, t, k)
           O(s, k) == Drawn(outputs, orders, s, k)
           P(s, k) == Drawn(outputs', orders, s, k)
           I(t, k) == Drawn(Inputs(allocations), orders, t, k)
           Q(s, k) == Drawn(Outputs(allocations), orders, s, k)
<1>1. PICK ammOutput \in AmmOutputs :
         /\ phase = "swap" /\ Advance("close")
         /\ UNCHANGED <<orders, allocations>>
         /\ outputs' = Append(outputs, given + ammOutput)
         /\ deltas' = [deltas EXCEPT !["router"][z] = @ - amount,
                                     !["router"][~z] = @ + (given + ammOutput),
                                     !["hook"][z] = @ + taken,
                                     !["hook"][~z] = @ - given]
  BY DEF Swap, request
<1>2. /\ index \in 1..n /\ n \in Nat /\ m \in Nat /\ m + 1 = index /\ m \in 0..n
      /\ \/ phase' = "swap" /\ index' \in 1..n /\ index' - 1 = index
         \/ phase' = "close" /\ index' = 1 /\ index = n
  BY <1>1, Advanced
<1>3. orders \in [1..n -> Order] /\ z \in Sides /\ amount \in Int
  BY <1>1, <1>2, RequestIs DEF AccountsInv
<1>4. Balanced(allocations, orders, n)
  BY <1>1 DEF AccountsInv, SquareAllocations
<1>5. /\ taken \in Int /\ given \in Int
      /\ \A i \in 1..n : /\ Inputs(allocations)[i] \in Int /\ Outputs(allocations)[i] \in Int
      /\ Inputs(allocations)[index] = taken /\ Outputs(allocations)[index] = given
  BY <1>2, <1>4 DEF Balanced, Inputs, Outputs
<1> DEFINE output == given + ammOutput
<1>6. output \in Int
  BY <1>5, ExecutionAssumption
<1>7. PICK y \in Sides : z # y
  BY <1>3 DEF Sides
<1>8. (~z) = y
  BY <1>3, <1>7, Opposite
<1>9. /\ outputs = [i \in DOMAIN outputs |-> outputs[i]] /\ DOMAIN outputs = 1..m
      /\ \A i \in 1..m : outputs[i] \in Int
  BY <1>1 DEF AccountsInv, OutputsSoFar
<1> HIDE DEF z, amount, taken, given, n, output, m
<1>10. /\ outputs' = [i \in DOMAIN outputs' |-> outputs'[i]] /\ DOMAIN outputs' = 1..m + 1
       /\ \A i \in 1..m + 1 : outputs'[i] \in Int
       /\ \A i \in 1..m : outputs'[i] = outputs[i]
       /\ outputs'[m + 1] = output
  <2>1. outputs' = Append(outputs, output)
    BY <1>1 DEF output
  <2> QED BY <1>2, <1>6, <1>9, <2>1, OneMore
<1>11. ASSUME NEW s \in Sides
       PROVE  /\ P(s, m) = O(s, m) /\ O(s, m) \in Int /\ P(s, m + 1) \in Int
              /\ z = s => P(s, m + 1) = O(s, m) + output
              /\ z # s => P(s, m + 1) = O(s, m)
  <2>1. P(s, m) = O(s, m)
    <3>1. \A i \in 1..m : outputs[i] \in Int /\ outputs'[i] = outputs[i]
      BY <1>9, <1>10
    <3>2. Drawn(outputs, orders, s, m) = Drawn(outputs', orders, s, m)
      BY <1>2, <3>1, DrawnSame
    <3> QED BY <3>2
  <2>2. \A i \in 1..m + 1 : outputs'[i] \in Int
    BY <1>10
  <2>3. /\ Drawn(outputs', orders, s, m) \in Int
        /\ orders[m + 1].zeroForOne = s =>
              Drawn(outputs', orders, s, m + 1) = Drawn(outputs', orders, s, m) + outputs'[m + 1]
        /\ orders[m + 1].zeroForOne # s =>
              Drawn(outputs', orders, s, m + 1) = Drawn(outputs', orders, s, m)
    BY <1>2, <2>2, DrawnNext
  <2>4. orders[m + 1].zeroForOne = z
    BY <1>2 DEF z
  <2>5. outputs'[m + 1] = output
    BY <1>10
  <2> QED BY <1>6, <2>1, <2>3, <2>4, <2>5
<1>12. ASSUME NEW s \in Sides
       PROVE  /\ A(s, m) \in Int /\ A(s, n) \in Int /\ A(s, m + 1) \in Int
              /\ z = s => A(s, m + 1) = A(s, m) + amount
              /\ z # s => A(s, m + 1) = A(s, m)
  <2>1. /\ n \in 0..Len(orders) /\ m \in 0..Len(orders) /\ Len(orders) \in Nat
        /\ index \in 0..Len(orders) /\ index \in 1..Len(orders) /\ index - 1 = m
    BY <1>2 DEF n
  <2>2. orders \in [1..Len(orders) -> Order]
    BY <1>3 DEF n
  <2>3. /\ A(s, m) \in Int /\ A(s, n) \in Int /\ A(s, index) \in Int
        /\ z = s => A(s, index) = A(s, index - 1) + amount
        /\ z # s => A(s, index) = A(s, index - 1)
    BY <2>1, <2>2, RunningIs DEF z, amount
  <2>4. m + 1 = index
    BY <1>2
  <2> QED BY <2>1, <2>3, <2>4
<1>13. ASSUME NEW s \in Sides
       PROVE  /\ I(s, m) \in Int /\ Q(s, m) \in Int
              /\ I(s, m + 1) \in Int /\ Q(s, m + 1) \in Int
              /\ z = s => I(s, m + 1) = I(s, m) + taken /\ Q(s, m + 1) = Q(s, m) + given
              /\ z # s => I(s, m + 1) = I(s, m) /\ Q(s, m + 1) = Q(s, m)
  <2>1. \A i \in 1..m + 1 : i \in 1..n
    BY <1>2
  <2>2. orders[m + 1].zeroForOne = z
    BY <1>2 DEF z
  <2>3. ASSUME NEW f, \A i \in 1..n : f[i] \in Int
        PROVE  /\ Drawn(f, orders, s, m) \in Int /\ Drawn(f, orders, s, m + 1) \in Int
               /\ z = s => Drawn(f, orders, s, m + 1) = Drawn(f, orders, s, m) + f[m + 1]
               /\ z # s => Drawn(f, orders, s, m + 1) = Drawn(f, orders, s, m)
    <3>1. \A i \in 1..m + 1 : f[i] \in Int
      BY <2>1, <2>3
    <3>2. f[m + 1] \in Int
      BY <1>2, <3>1
    <3>3. /\ Drawn(f, orders, s, m) \in Int
          /\ orders[m + 1].zeroForOne = s =>
                Drawn(f, orders, s, m + 1) = Drawn(f, orders, s, m) + f[m + 1]
          /\ orders[m + 1].zeroForOne # s =>
                Drawn(f, orders, s, m + 1) = Drawn(f, orders, s, m)
      BY <1>2, <3>1, DrawnNext
    <3> QED BY <2>2, <3>2, <3>3
  <2>4. Inputs(allocations)[m + 1] = taken /\ Outputs(allocations)[m + 1] = given
    BY <1>2, <1>5
  <2>5. /\ \A i \in 1..n : Inputs(allocations)[i] \in Int
        /\ \A i \in 1..n : Outputs(allocations)[i] \in Int
    BY <1>5
  <2> QED BY <2>3, <2>4, <2>5
<1>14. /\ deltas \in [{"router", "hook"} -> [Sides -> Int]]
       /\ \A t, s \in Sides : t # s =>
             /\ deltas["router"][t] = A(t, n) - A(t, m) + O(s, m)
             /\ deltas["hook"][t] = I(t, m) - Q(s, m)
  BY <1>1 DEF AccountsInv, RouterSoFar, HookSoFar, n, m
<1>15. /\ deltas' \in [{"router", "hook"} -> [Sides -> Int]]
       /\ deltas'["router"][z] = deltas["router"][z] - amount
       /\ deltas'["router"][y] = deltas["router"][y] + output
       /\ deltas'["hook"][z] = deltas["hook"][z] + taken
       /\ deltas'["hook"][y] = deltas["hook"][y] - given
  <2>1. deltas' = [deltas EXCEPT !["router"][z] = @ - amount, !["router"][y] = @ + output,
                                 !["hook"][z] = @ + taken, !["hook"][y] = @ - given]
    BY <1>1, <1>8 DEF output
  <2> QED BY <1>3, <1>5, <1>6, <1>7, <1>14, <2>1, FourMove
<1> HIDE DEF A, O, P, I, Q
<1>16. /\ deltas'["router"][z] = A(z, n) - A(z, m + 1) + P(y, m + 1)
       /\ deltas'["router"][y] = A(y, n) - A(y, m + 1) + P(z, m + 1)
       /\ deltas'["hook"][z] = I(z, m + 1) - Q(y, m + 1)
       /\ deltas'["hook"][y] = I(y, m + 1) - Q(z, m + 1)
  <2>1. /\ deltas["router"][z] = A(z, n) - A(z, m) + O(y, m)
        /\ deltas["router"][y] = A(y, n) - A(y, m) + O(z, m)
        /\ deltas["hook"][z] = I(z, m) - Q(y, m)
        /\ deltas["hook"][y] = I(y, m) - Q(z, m)
    BY <1>3, <1>7, <1>14
  <2>2. /\ A(z, m + 1) = A(z, m) + amount /\ P(y, m + 1) = O(y, m)
        /\ A(z, n) \in Int /\ A(z, m) \in Int /\ O(y, m) \in Int
    BY <1>3, <1>7, <1>11, <1>12
  <2>3. /\ A(y, m + 1) = A(y, m) /\ P(z, m + 1) = O(z, m) + output
        /\ A(y, n) \in Int /\ A(y, m) \in Int /\ O(z, m) \in Int
    BY <1>3, <1>7, <1>11, <1>12
  <2>4. /\ I(z, m + 1) = I(z, m) + taken /\ Q(y, m + 1) = Q(y, m)
        /\ I(y, m + 1) = I(y, m) /\ Q(z, m + 1) = Q(z, m) + given
        /\ I(z, m) \in Int /\ Q(y, m) \in Int /\ I(y, m) \in Int /\ Q(z, m) \in Int
    BY <1>3, <1>7, <1>13
  <2>5. deltas'["router"][z] = A(z, n) - A(z, m + 1) + P(y, m + 1)
    BY <1>3, <1>15, <2>1, <2>2
  <2>6. deltas'["router"][y] = A(y, n) - A(y, m + 1) + P(z, m + 1)
    BY <1>6, <1>15, <2>1, <2>3
  <2>7. deltas'["hook"][z] = I(z, m + 1) - Q(y, m + 1)
    BY <1>5, <1>15, <2>1, <2>4
  <2>8. deltas'["hook"][y] = I(y, m + 1) - Q(z, m + 1)
    BY <1>5, <1>15, <2>1, <2>4
  <2> QED BY <2>5, <2>6, <2>7, <2>8
<1>17. ASSUME NEW t \in Sides, NEW s \in Sides, t # s
       PROVE  /\ deltas'["router"][t] = A(t, n) - A(t, index) + P(s, index)
              /\ deltas'["hook"][t] = I(t, index) - Q(s, index)
  <2>1. (t = z /\ s = y) \/ (t = y /\ s = z)
    BY <1>3, <1>7, <1>17, TwoSides
  <2>2. m + 1 = index
    BY <1>2
  <2> QED BY <1>16, <2>1, <2>2
<1>18. SortedRequest' /\ AtAnOrder' /\ SquareAllocations' /\ OutputsSoFar'
  <2>1. SquareAllocations'
    BY <1>1, <1>2, <1>4 DEF SquareAllocations, Balanced, n
  <2>2. OutputsSoFar'
    <3>1. (phase' = "swap" /\ index' - 1 = m + 1) \/ (phase' = "close" /\ m + 1 = Len(orders'))
      BY <1>1, <1>2 DEF n
    <3> QED BY <1>10, <3>1 DEF OutputsSoFar
  <2>3. SortedRequest' /\ AtAnOrder'
    BY <1>1, <1>2 DEF AccountsInv, SortedRequest, AtAnOrder, n
  <2> QED BY <2>1, <2>2, <2>3
<1>19. RouterSoFar' /\ HookSoFar'
  <2>1. CASE phase' = "swap" /\ index' - 1 = index
    <3>1. RouterSoFar'
      <4>1. orders' = orders /\ phase' = "swap"
        BY <1>1, <2>1
      <4>2. \A t, s \in Sides : t # s =>
               deltas'["router"][t] = Drawn(AmountsIn(orders), orders, t, Len(orders))
                                      - Drawn(AmountsIn(orders), orders, t, index' - 1)
                                      + Drawn(outputs', orders, s, index' - 1)
        BY <1>17, <2>1 DEF A, P, n
      <4> QED BY <4>1, <4>2 DEF RouterSoFar
    <3>2. HookSoFar'
      BY <1>1, <1>17, <2>1 DEF HookSoFar, I, Q
    <3> QED BY <3>1, <3>2
  <2>2. CASE phase' = "close" /\ index = n
    <3>1. ASSUME NEW t \in Sides, NEW s \in Sides, t # s
          PROVE  deltas'["router"][t] = P(s, n) /\ deltas'["hook"][t] = 0
      <4>1. /\ deltas'["router"][t] = A(t, n) - A(t, n) + P(s, n)
            /\ deltas'["hook"][t] = I(t, n) - Q(s, n)
        BY <1>17, <2>2, <3>1
      <4>2. A(t, n) \in Int /\ P(s, n) \in Int /\ I(t, n) \in Int /\ Q(s, n) \in Int
        BY <1>2, <1>11, <1>12, <1>13, <2>2
      <4>3. I(t, n) = Q(s, n)
        BY <1>4, <3>1 DEF Balanced, I, Q
      <4> QED BY <4>1, <4>2, <4>3
    <3>2. \A t \in Sides : \E s \in Sides : t # s
      BY <1>3, <1>7
    <3>3. RouterSoFar'
      BY <1>1, <2>2, <3>1 DEF RouterSoFar, P, n
    <3>4. HookSoFar'
      BY <2>2, <3>1, <3>2 DEF HookSoFar
    <3> QED BY <3>3, <3>4
  <2> QED BY <1>2, <2>1, <2>2
<1> QED BY <1>15, <1>18, <1>19 DEF AccountsInv

\* Every step keeps the accounts.
LEMMA AccountsStepInv ==
    ASSUME CallInv, AccountsInv, [Next]_vars
    PROVE  AccountsInv'
<1>1. CASE UNCHANGED vars
  <2>1. UNCHANGED <<phase, index, orders, allocations, outputs, deltas>>
    BY <1>1 DEF vars, context, request
  <2> QED BY <2>1 DEF AccountsInv, SortedRequest, AtAnOrder, SquareAllocations, Balanced,
                      OutputsSoFar, RouterSoFar, HookSoFar
<1>2. CASE \E os \in Submissions, dir, quote \in BOOLEAN : Call(os, dir, quote)
  BY <1>2, CallAccounts
<1>3. CASE Step
  BY <1>3, OpenAccounts, FundAccounts, SwapAccounts, CloseAccounts, PayAccounts, EndAccounts
     DEF Step
<1>4. CASE Outside
  BY <1>4, OutsideAccounts
<1> QED BY <1>1, <1>2, <1>3, <1>4 DEF Next

-----------------------------------------------------------------------------
(* The theorems on the accounts and on the order of a batch. *)

\* The accounts are, at every step of every call, what the steps so far make them.
THEOREM AccountsInvariant == Spec => [](CallInv /\ AccountsInv)
<1>1. Init => CallInv /\ AccountsInv
  BY CallInitInv, AccountsInitInv
<1>2. CallInv /\ AccountsInv /\ [Next]_vars => CallInv' /\ AccountsInv'
  BY CallStepInv, AccountsStepInv
<1> QED BY <1>1, <1>2, PTL DEF Spec

\* When every order was swapped the hook is square with the pool manager in both tokens,
\* and the router has on account what it is about to pay out, and nothing at the end.
THEOREM AccountsAreSquare == Spec => []AccountsSquare
<1>1. ASSUME CallInv, AccountsInv PROVE AccountsSquare
  <2>1. deltas = [c \in {"router", "hook"} |-> [t \in Sides |-> deltas[c][t]]]
    BY <1>1 DEF AccountsInv
  <2>2. ASSUME phase \in {"close", "pay", "return"} PROVE deltas["hook"] = NoDeltas["hook"]
    <3>1. \A t \in Sides : deltas["hook"][t] = 0
      BY <1>1, <2>2 DEF AccountsInv, HookSoFar
    <3>2. deltas["hook"] = [t \in Sides |-> deltas["hook"][t]]
      BY <2>1
    <3>3. deltas["hook"] = [t \in Sides |-> 0]
      BY <3>1, <3>2
    <3> QED BY <3>3 DEF NoDeltas
  <2>3. ASSUME phase = "return" PROVE deltas = NoDeltas
    <3>1. \A t \in Sides : deltas["hook"][t] = 0 /\ deltas["router"][t] = 0
      BY <1>1, <2>3 DEF AccountsInv, HookSoFar, RouterSoFar
    <3>2. \A c \in {"router", "hook"} : [t \in Sides |-> deltas[c][t]] = [t \in Sides |-> 0]
      BY <3>1
    <3> QED BY <2>1, <3>2 DEF NoDeltas
  <2>4. ASSUME phase = "close", NEW t \in Sides
        PROVE  deltas["router"][t] = SumFunctionOnSet(outputs, OfSide(orders, ~t, Len(orders)))
    <3>1. PICK s \in Sides : t # s
      BY DEF Sides
    <3>2. (~t) = s
      BY <3>1, Opposite
    <3>3. deltas["router"][t] = Drawn(outputs, orders, s, Len(orders))
      BY <1>1, <2>4, <3>1 DEF AccountsInv, RouterSoFar
    <3> QED BY <3>2, <3>3 DEF Drawn
  <2> QED BY <2>2, <2>3, <2>4 DEF AccountsSquare
<1> QED BY <1>1, AccountsInvariant, PTL

\* Whoever submits a set of orders, and in whatever order, it is one and the same batch:
\* sorted, it is strictly ascending, and so is every other list of these orders, of which
\* there is but one.
THEOREM SubmittersHaveNoSay == Spec => []SubmitterHasNoSay
<1>1. ASSUME AccountsInv PROVE SubmitterHasNoSay
  <2>1. SUFFICES ASSUME phase = "open", IsInjective(orders) PROVE SubmitterHasNoSay
    BY DEF SubmitterHasNoSay
  <2>2. PICK k \in 1..MaxBatch : orders \in ListsOf(k) /\ AscendingTo(orders, k)
    BY <1>1, <2>1, RequestIsSorted DEF AccountsInv
  <2>3. k \in Nat \ {0} /\ Len(orders) = k
    BY <2>2, ExecutionAssumption, HashesAre
  <2>4. \A i \in 2..Len(orders) : HashOf[orders[i - 1]] < HashOf[orders[i]]
    <3>1. \A i, j \in 1..k : i < j => HashOf[orders[i]] < HashOf[orders[j]]
      BY <2>1, <2>2, <2>3, StrictlyAscending
    <3> QED BY <2>3, <3>1
  <2>5. ASSUME NEW os \in [DOMAIN orders -> ToSet(orders)], IsInjective(os)
        PROVE  Sorted(os) = orders
    <3>1. os \in ListsOf(k) /\ ToSet(os) = ToSet(orders)
      BY <2>1, <2>2, <2>3, <2>5, RearrangedIs
    <3>2. /\ Sorted(os) \in ListsOf(k) /\ ToSet(Sorted(os)) = ToSet(orders)
          /\ IsInjective(Sorted(os)) /\ AscendingTo(Sorted(os), k)
      BY <2>3, <2>5, <3>1, SortedIs
    <3> QED BY <2>1, <2>2, <2>3, <3>2, OneAscendingList
  <2> QED BY <2>4, <2>5 DEF SubmitterHasNoSay
<1> QED BY <1>1, AccountsInvariant, PTL

-----------------------------------------------------------------------------
(* Sums over the places of orders and over their fills. *)

\* What g gives at the members of S.
ImageOf(g, S) == {g[i] : i \in S}

\* A sum over distinct things is that over their places.
LEMMA SumOfImage ==
    ASSUME NEW S, IsFiniteSet(S), NEW f, NEW g, NEW h,
           \A i \in S : f[i] \in Int /\ h[g[i]] = f[i],
           \A i, j \in S : g[i] = g[j] => i = j
    PROVE  SumFunctionOnSet(h, ImageOf(g, S)) = SumFunctionOnSet(f, S)
<1> DEFINE Image(s) == {g[i] : i \in s}
           B == {s \in SUBSET S : SumFunctionOnSet(h, Image(s)) # SumFunctionOnSet(f, s)}
<1>1. B = {}
  <2> SUFFICES ASSUME B # {} PROVE FALSE
    OBVIOUS
  <2>1. B \in SUBSET (SUBSET S)
    OBVIOUS
  <2>2. \A s \in B : SumFunctionOnSet(h, Image(s)) # SumFunctionOnSet(f, s)
    OBVIOUS
  <2>3. \A s \in SUBSET S : s \notin B => SumFunctionOnSet(h, Image(s)) = SumFunctionOnSet(f, s)
    OBVIOUS
  <2> HIDE DEF B
  <2>4. PICK s \in B : \A t \in SUBSET s : t # s => t \notin B
    BY <2>1, SmallestSubset
  <2>5. s \in SUBSET S
    BY <2>1
  <2>6. s # {}
    <3>1. Image({}) = {}
      OBVIOUS
    <3> HIDE DEF Image
    <3> QED BY <2>2, <2>4, <3>1, SumOfNone
  <2>7. PICK x \in s : TRUE
    BY <2>6
  <2>8. s \ {x} \in SUBSET S /\ s \ {x} \notin B
    BY <2>4, <2>5, <2>7
  <2>9. SumFunctionOnSet(h, Image(s \ {x})) = SumFunctionOnSet(f, s \ {x})
    BY <2>3, <2>8
  <2>10. IsFiniteSet(s) /\ \A i \in s : f[i] \in Int
    BY <2>5, FS_Subset
  <2>11. SumFunctionOnSet(f, s) = f[x] + SumFunctionOnSet(f, s \ {x})
    BY <2>10, SumWithout
  <2>12. Image(s) \ {g[x]} = Image(s \ {x})
    BY <2>5, <2>7
  <2>13. IsFiniteSet(Image(s)) /\ g[x] \in Image(s) /\ \A y \in Image(s) : h[y] \in Int
    <3> DEFINE place == [i \in s |-> g[i]]
    <3>1. place \in Surjection(s, Image(s))
      <4>1. place \in [s -> Image(s)] /\ \A y \in Image(s) : \E i \in s : place[i] = y
        OBVIOUS
      <4> HIDE DEF place, Image
      <4> QED BY <4>1 DEF Surjection
    <3>2. IsFiniteSet(Image(s))
      BY <2>10, <3>1, FS_Surjection
    <3> QED BY <2>5, <2>7, <3>2
  <2> HIDE DEF Image
  <2>14. SumFunctionOnSet(h, Image(s)) = h[g[x]] + SumFunctionOnSet(h, Image(s) \ {g[x]})
    BY <2>13, SumWithout
  <2>15. h[g[x]] = f[x]
    BY <2>5, <2>7
  <2> QED BY <2>2, <2>4, <2>9, <2>11, <2>12, <2>14, <2>15
<1>2. S \in SUBSET S /\ S \notin B
  BY <1>1
<1> QED BY <1>2 DEF ImageOf

-----------------------------------------------------------------------------
(* A share is never negative, and no more than the step it is the share of. *)

\* The quotient is the number q with d*q <= a < d*(q+1).
LEMMA DivBounds ==
    ASSUME NEW a \in Nat, NEW d \in Nat \ {0}
    PROVE  /\ a \div d \in Nat
           /\ d * (a \div d) <= a
           /\ a < d * (a \div d) + d
OBVIOUS

\* A quotient is at most what its divisor times it does not exceed.
LEMMA QuotientBound ==
    ASSUME NEW q \in Nat, NEW r \in Nat, NEW d \in Nat \ {0}, d * q < d * r + d
    PROVE  q <= r
<1> SUFFICES ASSUME q >= r + 1 PROVE FALSE OBVIOUS
<1>1. d * q >= d * (r + 1) OBVIOUS
<1>2. QED BY <1>1

\* What a larger dividend adds to the quotient is bounded by any e with d*e at
\* least the difference.
LEMMA DivStep ==
    ASSUME NEW a \in Nat, NEW b \in Nat, NEW d \in Nat \ {0}, NEW e \in Nat,
           a <= b, b <= a + d * e
    PROVE  (b \div d) - (a \div d) \in 0..e
<1> DEFINE q == a \div d
           r == b \div d
<1>1. q \in Nat /\ d * q <= a /\ a < d * q + d
  BY DivBounds
<1>2. r \in Nat /\ d * r <= b /\ b < d * r + d
  BY DivBounds
<1> HIDE DEF q, r
<1>3. q <= r BY <1>1, <1>2, QuotientBound
<1>4. d * r < d * (q + e) + d
  <2>1. d * (q + e) = d * q + d * e BY <1>1
  <2>2. d * e \in Nat /\ d * q \in Nat /\ d * r \in Nat BY <1>1, <1>2
  <2>3. QED BY <1>1, <1>2, <2>1, <2>2
<1>5. r <= q + e BY <1>1, <1>2, <1>4, QuotientBound
<1>6. r - q \in 0..e BY <1>1, <1>2, <1>3, <1>5
<1>7. QED BY <1>6 DEF q, r

\* mulDiv of a step: never negative, and no more than the step when the factor is
\* at most the divisor.
LEMMA MulDivStep ==
    ASSUME NEW x \in Nat, NEW a \in Nat, NEW m \in Nat, NEW t \in Nat \ {0}
    PROVE  /\ MulDiv(x, m, t) \in Nat
           /\ MulDiv(x + a, m, t) - MulDiv(x, m, t) \in Nat
           /\ m <= t => MulDiv(x + a, m, t) - MulDiv(x, m, t) \in 0..a
<1>1. x * m \in Nat /\ (x + a) * m \in Nat /\ a * m \in Nat OBVIOUS
<1>2. (x + a) * m = x * m + a * m OBVIOUS
<1>3. a * m <= t * (a * m) BY <1>1
<1>4. ((x + a) * m) \div t - (x * m) \div t \in 0..(a * m)
  BY <1>1, <1>2, <1>3, DivStep
<1>5. ASSUME m <= t PROVE ((x + a) * m) \div t - (x * m) \div t \in 0..a
  <2>1. a * m <= t * a BY <1>5
  <2>2. QED BY <1>1, <1>2, <2>1, DivStep
<1>6. (x * m) \div t \in Nat BY <1>1, DivBounds
<1>7. QED BY <1>1, <1>4, <1>5, <1>6 DEF MulDiv

\* The match stays within both totals, whatever the price.
LEMMA MatchedWithinTotals ==
    ASSUME NEW total \in [Sides -> Nat \ {0}], NEW s \in Nat \ {0}
    PROVE  /\ Matched(total, s) \in [Sides -> Nat]
           /\ \A z \in Sides : Matched(total, s)[z] <= total[z]
<1> DEFINE n == Numerator(s)
           t0 == total[TRUE]
           t1 == total[FALSE]
           converted == MulDiv(t1, Q192, n)
           m0 == IF t0 < converted THEN t0 ELSE converted
           m1 == MulDiv(m0, n, Q192)
<1>1. n \in Nat \ {0} /\ Q192 \in Nat \ {0} /\ t0 \in Nat /\ t1 \in Nat
  <2>1. s * s >= s /\ s * s \in Nat OBVIOUS
  <2>2. n \in Nat \ {0} BY <2>1 DEF Numerator
  <2>3. t0 \in Nat /\ t1 \in Nat BY DEF Sides
  <2>4. QED BY <2>2, <2>3, MathAssumption
<1> HIDE DEF n, t0, t1
<1>2. converted \in Nat /\ n * converted <= t1 * Q192
  BY <1>1, DivBounds DEF MulDiv
<1> HIDE DEF converted
<1>3. m0 \in Nat /\ m0 <= t0 /\ m0 <= converted BY <1>1, <1>2
<1> HIDE DEF m0
<1>4. m0 * n <= n * converted BY <1>1, <1>2, <1>3
<1>5. m0 * n \in Nat /\ m0 * n <= t1 * Q192 BY <1>1, <1>2, <1>3, <1>4
<1>6. m1 \in Nat /\ Q192 * m1 <= m0 * n
  BY <1>1, <1>5, DivBounds DEF MulDiv
<1> HIDE DEF m1
<1>7. Q192 * m1 < Q192 * t1 + Q192 BY <1>1, <1>5, <1>6
<1>8. m1 <= t1 BY <1>1, <1>6, <1>7, QuotientBound
<1>9. Matched(total, s) = [z \in Sides |-> IF z THEN m0 ELSE m1]
  BY DEF Matched, n, converted, m0, m1, t0, t1
<1>10. QED BY <1>3, <1>6, <1>8, <1>9 DEF t0, t1, Sides

\* A sum of naturals is one.
LEMMA SumIsNat ==
    ASSUME NEW f, NEW S, IsFiniteSet(S), \A i \in S : f[i] \in Nat
    PROVE  SumFunctionOnSet(f, S) \in Nat
<1> DEFINE B == {s \in SUBSET S : SumFunctionOnSet(f, s) \notin Nat}
<1>1. B = {}
  <2> SUFFICES ASSUME B # {} PROVE FALSE
    OBVIOUS
  <2>1. B \in SUBSET (SUBSET S)
    OBVIOUS
  <2>2. \A s \in SUBSET S : s \in B <=> SumFunctionOnSet(f, s) \notin Nat
    OBVIOUS
  <2> HIDE DEF B
  <2>3. PICK s \in B : \A t \in SUBSET s : t # s => t \notin B
    BY <2>1, SmallestSubset
  <2>4. s \in SUBSET S
    BY <2>1
  <2>5. s # {}
    <3>1. SumFunctionOnSet(f, {}) = 0
      BY SumOfNone
    <3>2. SumFunctionOnSet(f, {}) \in Nat
      BY <3>1
    <3> QED BY <2>2, <2>3, <3>2
  <2>6. PICK x \in s : TRUE
    BY <2>5
  <2>7. s \ {x} \in SUBSET S /\ s \ {x} \notin B
    BY <2>3, <2>4, <2>6
  <2>8. IsFiniteSet(s) /\ (\A i \in s : f[i] \in Int) /\ f[x] \in Nat
    BY <2>4, FS_Subset
  <2>9. SumFunctionOnSet(f, s) = f[x] + SumFunctionOnSet(f, s \ {x})
    BY <2>8, SumWithout
  <2> QED BY <2>2, <2>3, <2>4, <2>7, <2>8, <2>9
<1>2. S \in SUBSET S /\ S \notin B
  BY <1>1
<1> QED BY <1>2

\* What an order is allocated is its input, split, and nothing of it is negative.
LEMMA AllocateIs ==
    ASSUME NEW b, b.total \in [Sides -> Nat \ {0}], b.matched \in [Sides -> Nat \ {0}],
           \A z \in Sides : b.matched[z] <= b.total[z],
           NEW z \in Sides, NEW before \in Nat, NEW amount \in Nat
    PROVE  LET a == Allocate(b, z, before, amount) IN
           /\ a.matchedInput \in Nat /\ a.matchedOutput \in Nat /\ a.residual \in Nat
           /\ a.matchedInput + a.residual = amount
<1> DEFINE m == b.matched[z]
           t == b.total[z]
           x == MulDiv(before, m, t)
           y == MulDiv(before + amount, m, t)
           e == y - x
           w == b.matched[~z]
<1>1. m \in Nat \ {0} /\ t \in Nat \ {0} /\ m <= t
  OBVIOUS
<1>2. w \in Nat
  <2>1. PICK s \in Sides : z # s
    BY DEF Sides
  <2>2. (~z) = s
    BY <2>1, Opposite
  <2> QED BY <2>2
<1>3. x \in Nat /\ e \in 0..amount
  BY <1>1, MulDivStep
<1>4. y \in Nat /\ y = x + e
  <2>1. before + amount \in Nat
    OBVIOUS
  <2>2. y \in Nat
    BY <1>1, <2>1, MulDivStep
  <2> QED BY <1>3, <2>2
<1> DEFINE a == Allocate(b, z, before, amount)
<1>5. /\ a.matchedInput = e /\ a.residual = amount - e
      /\ a.matchedOutput = MulDiv(y, w, m) - MulDiv(x, w, m)
  BY DEF Allocate, InputShare, OutputShare
<1> HIDE DEF m, t, x, y, e, w, a
<1>6. e \in Nat
  BY <1>3
<1>7. MulDiv(x + e, w, m) - MulDiv(x, w, m) \in Nat
  BY <1>1, <1>2, <1>3, <1>6, MulDivStep
<1>8. a.matchedInput \in Nat /\ a.matchedOutput \in Nat
  BY <1>4, <1>5, <1>6, <1>7
<1>9. a.residual \in Nat /\ a.matchedInput + a.residual = amount
  BY <1>3, <1>5
<1> QED BY <1>8, <1>9 DEF a

\* What openBatch allocates to an order.
Allocated(a, o) ==
    /\ a.matchedInput \in Nat /\ a.matchedOutput \in Nat /\ a.residual \in Nat
    /\ a.matchedInput + a.residual = o.amountIn
    /\ a.residual <= o.maxAmmInput

\* Each order is allocated what it allows.
LEMMA OpenedAsAllowed ==
    ASSUME NEW os, NEW n \in Nat, os \in [1..n -> Order], NEW dir,
           price \in Nat \ {0}, Matches(os, dir), NEW i \in 1..n
    PROVE  Allocated(AllocationsOf(os, dir)[i], os[i])
<1> DEFINE a == AllocationOf(os, dir, i)
<1>1. AllocationsOf(os, dir)[i] = a
  BY DEF AllocationsOf
<1>2. a.residual <= os[i].maxAmmInput
  BY DEF Matches, WithinOrder
<1>3. os[i] \in Order /\ os[i].amountIn \in Nat /\ os[i].zeroForOne \in Sides
  BY DEF Order
<1>4. CASE dir
  <2>1. a = [matchedInput |-> 0, matchedOutput |-> 0, residual |-> os[i].amountIn]
    BY <1>4 DEF AllocationOf
  <2> HIDE DEF a
  <2> QED BY <1>1, <1>2, <1>3, <2>1 DEF Allocated
<1>5. CASE ~dir
  <2> DEFINE total == [z \in Sides |-> Total(os, z)]
             b == Budget(total, price)
             m == Matched(total, price)
             before == Ahead(os, i)
  <2>1. BudgetDefined(total, price)
    BY <1>5 DEF Matches
  <2>2. BudgetOf(os, dir) = b
    BY <1>5 DEF BudgetOf
  <2>3. total = [z \in Sides |-> total[z]]
    OBVIOUS
  <2> HIDE DEF total
  <2>4. \A z \in Sides : total[z] \in Nat \ {0} /\ m[z] # 0
    BY <2>1, MathAssumption DEF BudgetDefined
  <2>5. total \in [Sides -> Nat \ {0}]
    BY <2>3, <2>4
  <2>6. m \in [Sides -> Nat] /\ \A z \in Sides : m[z] <= total[z]
    BY <2>5, MatchedWithinTotals
  <2>7. b.total = total /\ b.matched = m
    BY DEF Budget
  <2> HIDE DEF m, b
  <2>8. m \in [Sides -> Nat \ {0}]
    BY <2>4, <2>6
  <2>9. before \in Nat
    <3> DEFINE S == OfSide(os, os[i].zeroForOne, i - 1)
    <3>1. S \in SUBSET (1..i - 1) /\ i - 1 \in Nat /\ \A k \in 1..i - 1 : k \in 1..n
      BY DEF OfSide
    <3>2. \A k \in 1..n : AmountsIn(os)[k] \in Nat
      BY DEF AmountsIn, Order
    <3> HIDE DEF S
    <3>3. \A k \in S : AmountsIn(os)[k] \in Nat
      BY <3>1, <3>2
    <3>4. IsFiniteSet(S)
      <4>1. IsFiniteSet(1..i - 1)
        BY FS_Interval
      <4> QED BY <3>1, <4>1, FS_Subset
    <3>5. SumFunctionOnSet(AmountsIn(os), S) \in Nat
      BY <3>3, <3>4, SumIsNat
    <3> QED BY <3>5 DEF Ahead, S
  <2> HIDE DEF before
  <2>10. a = Allocate(b, os[i].zeroForOne, before, os[i].amountIn)
    BY <1>5, <2>2 DEF AllocationOf, before
  <2> HIDE DEF a
  <2>11. b.total \in [Sides -> Nat \ {0}] /\ b.matched \in [Sides -> Nat \ {0}]
         /\ \A z \in Sides : b.matched[z] <= b.total[z]
    BY <2>5, <2>6, <2>7, <2>8
  <2>12. /\ a.matchedInput \in Nat /\ a.matchedOutput \in Nat /\ a.residual \in Nat
         /\ a.matchedInput + a.residual = os[i].amountIn
    BY <1>3, <2>9, <2>10, <2>11, AllocateIs
  <2> QED BY <1>1, <1>2, <2>12 DEF Allocated
<1> HIDE DEF a
<1> QED BY <1>4, <1>5

-----------------------------------------------------------------------------
(* What a call has settled so far. *)

SpentOf(o) == <<o.user, o.space, o.nonce>>

\* Between two calls every fill has its authorization spent.
LedgerOf(w, r, s, F) ==
    /\ w \in [Users -> [Sides -> Int]] /\ r \in [Sides -> Int]
    /\ \A f \in F : SpentOf(f.order) \in s

LedgerInv ==
    /\ now \in Nat /\ eligible \subseteq Users
    /\ phase = "idle" => LedgerOf(wallet, reserve, nonces, fills)
    /\ phase # "idle" => LedgerOf(saved.wallet, saved.reserve, saved.nonces, saved.fills)

\* An execution spends the authorizations of its orders, each of them once, at the opening.
\* An order that is signed, in time, at a price the pool had before the call, of a user
\* who may trade.
Admissible(o) ==
    /\ o \in Signed /\ o.user \in eligible
    /\ now <= o.deadline
    /\ o.minSqrtPrice <= saved.price /\ saved.price <= o.maxSqrtPrice

AuthorizedInv ==
    phase # "idle" /\ ~quoting =>
        /\ phase = "open" => nonces = saved.nonces /\ price = saved.price
        /\ phase # "open" =>
              /\ \A i \in 1..Len(orders) : /\ Admissible(orders[i])
                                           /\ SpentOf(orders[i]) \notin saved.nonces
              /\ \A i, j \in 1..Len(orders) : SpentOf(orders[i]) = SpentOf(orders[j]) => i = j
              /\ nonces = saved.nonces \cup {SpentOf(orders[i]) : i \in 1..Len(orders)}

\* What the first n orders of user u on side z come to, by f.
Owners(os) == [i \in DOMAIN os |-> [zeroForOne |-> <<os[i].user, os[i].zeroForOne>>]]
Own(f, os, u, z, n) == Drawn(f, Owners(os), <<u, z>>, n)

\* Every wallet is short of what its orders were funded with, and has what they were paid.
WalletInv ==
    phase # "idle" /\ ~quoting =>
        /\ wallet \in [Users -> [Sides -> Int]]
        /\ phase = "open" => wallet = saved.wallet
        /\ phase = "fund" => \A u \in Users, t \in Sides :
              wallet[u][t] = saved.wallet[u][t] - Own(AmountsIn(orders), orders, u, t, index - 1)
        /\ phase \in {"swap", "close"} => \A u \in Users, t \in Sides :
              wallet[u][t] = saved.wallet[u][t] - Own(AmountsIn(orders), orders, u, t, Len(orders))
        /\ phase = "pay" => \A u \in Users, t, s \in Sides : t # s =>
              wallet[u][t] = saved.wallet[u][t] - Own(AmountsIn(orders), orders, u, t, Len(orders))
                             + Own(outputs, orders, u, s, index - 1)
        /\ phase = "return" => \A u \in Users, t, s \in Sides : t # s =>
              wallet[u][t] = saved.wallet[u][t] - Own(AmountsIn(orders), orders, u, t, Len(orders))
                             + Own(outputs, orders, u, s, Len(orders))

\* A fill f of order o for output out.
FilledAs(f, o, out) ==
    /\ f.order = o
    /\ f.matchedInput \in Nat /\ f.ammInput \in Nat
    /\ f.matchedOutput \in Nat /\ f.ammOutput \in Nat
    /\ f.matchedInput + f.ammInput = o.amountIn /\ f.ammInput <= o.maxAmmInput
    /\ f.matchedOutput + f.ammOutput = out /\ out >= o.minAmountOut

PoolInputs(g) == [i \in DOMAIN g |-> g[i].ammInput]
PoolOutputs(g) == [i \in DOMAIN g |-> g[i].ammOutput]

\* The first m orders were filled by g, the rest of the call through the liquidity.
Filled(g, m) ==
    /\ g = [i \in 1..m |-> g[i]]
    /\ \A i \in 1..m : FilledAs(g[i], orders[i], outputs[i])
    /\ fills = saved.fills \cup {g[i] : i \in 1..m}
    /\ reserve \in [Sides -> Int]
    /\ \A t, s \in Sides : t # s =>
          reserve[t] = saved.reserve[t] + Drawn(PoolInputs(g), orders, t, m)
                                        - Drawn(PoolOutputs(g), orders, s, m)

AsAllocated(g, m) ==
    \A i \in 1..m : /\ g[i].matchedInput = allocations[i].matchedInput
                    /\ g[i].matchedOutput = allocations[i].matchedOutput

FillsInv ==
    phase # "idle" /\ ~quoting =>
        /\ phase \in {"open", "fund"} => fills = saved.fills /\ reserve = saved.reserve
        /\ phase \in {"fund", "swap"} =>
              \A i \in 1..Len(orders) : Allocated(allocations[i], orders[i])
        /\ phase = "swap" => \E g : Filled(g, index - 1) /\ AsAllocated(g, index - 1)
        /\ phase \in {"close", "pay", "return"} =>
              \E g : Filled(g, Len(orders)) /\ Balanced(g, orders, Len(orders))

SettlementInv == LedgerInv /\ AuthorizedInv /\ WalletInv /\ FillsInv

\* Before the first call nothing was settled.
LEMMA SettlementInitInv == Init => SettlementInv
<1> SUFFICES ASSUME Init PROVE SettlementInv
  OBVIOUS
<1>1. /\ phase = "idle" /\ now = 1 /\ eligible = {} /\ fills = {}
      /\ wallet = Funds /\ reserve = Liquidity
  BY DEF Init, Grants!Init
<1>2. wallet \in [Users -> [Sides -> Int]] /\ reserve \in [Sides -> Int]
  BY <1>1, ExecutionAssumption
<1> QED BY <1>1, <1>2 DEF SettlementInv, LedgerInv, LedgerOf, AuthorizedInv, WalletInv, FillsInv

\* What is saved when a call begins.
LEMMA CallSettles ==
    ASSUME CallInv, SettlementInv, NEW os, NEW dir, NEW quote, Call(os, dir, quote)
    PROVE  SettlementInv'
<1>1. /\ phase = "idle" /\ phase' = "open" /\ saved' = Persistent
      /\ UNCHANGED <<now, eligible, nonces, wallet, reserve, fills, price>>
  BY DEF Call, accounts, outside
<1>2. /\ saved'.price = price /\ saved'.wallet = wallet /\ saved'.reserve = reserve
      /\ saved'.nonces = nonces /\ saved'.fills = fills
  BY <1>1 DEF Persistent
<1>3. LedgerOf(wallet, reserve, nonces, fills) /\ now \in Nat /\ eligible \subseteq Users
  BY <1>1 DEF SettlementInv, LedgerInv
<1>4. LedgerInv'
  BY <1>1, <1>2, <1>3 DEF LedgerInv, LedgerOf
<1>5. AuthorizedInv' /\ WalletInv' /\ FillsInv'
  BY <1>1, <1>2, <1>3 DEF AuthorizedInv, WalletInv, FillsInv, LedgerOf
<1> QED BY <1>4, <1>5 DEF SettlementInv

\* No step of a call but its last touches what was saved, the request or eligibility.
LEMMA WithinACall ==
    ASSUME Open \/ Fund \/ Swap \/ Close \/ Pay
    PROVE  /\ UNCHANGED <<saved, now, eligible, orders, direct, quoting>>
           /\ phase \in {"open", "fund", "swap", "close", "pay"}
           /\ phase' \in {"fund", "swap", "close", "pay", "return"}
           /\ phase # "open" => UNCHANGED nonces
<1>1. CASE Open
  BY <1>1 DEF Open, outside, request
<1>2. CASE Fund
  BY <1>2 DEF Fund, outside, request, Advance
<1>3. CASE Swap
  BY <1>3 DEF Swap, outside, request, Advance
<1>4. CASE Close
  BY <1>4 DEF Close, outside, request, accounts
<1>5. CASE Pay
  BY <1>5 DEF Pay, outside, request, Advance
<1> QED BY <1>1, <1>2, <1>3, <1>4, <1>5

\* They leave what was saved as it was.
LEMMA LedgerWithin ==
    ASSUME SettlementInv, Open \/ Fund \/ Swap \/ Close \/ Pay
    PROVE  LedgerInv'
<1>1. /\ UNCHANGED <<saved, now, eligible>> /\ phase # "idle" /\ phase' # "idle"
  BY WithinACall
<1> QED BY <1>1 DEF SettlementInv, LedgerInv, LedgerOf

\* The opening consumes the authorizations, which are distinct.
LEMMA OpenAuthorizes ==
    ASSUME CallInv, AccountsInv, SettlementInv, Open
    PROVE  AuthorizedInv'
<1> SUFFICES ASSUME ~quoting' PROVE AuthorizedInv'
  BY DEF AuthorizedInv
<1> DEFINE n == Len(orders)
           spent == {<<o.user, Space(direct), o.nonce>> : o \in ToSet(orders)}
<1>1. /\ phase = "open" /\ phase' = "fund"
      /\ UNCHANGED <<saved, orders, now, eligible, direct, quoting>> /\ ~quoting
  BY DEF Open, outside, request
<1>2. /\ Cardinality(spent) = n /\ spent \cap nonces = {} /\ nonces' = nonces \cup spent
      /\ \A i \in DOMAIN orders : Acceptable(orders[i])
  BY DEF Open, ConsumeAll
<1>3. nonces = saved.nonces /\ price = saved.price
  BY <1>1 DEF SettlementInv, AuthorizedInv
<1>4. n \in Nat /\ DOMAIN orders = 1..n
  BY <1>1, RequestIs DEF AccountsInv
<1>5. \A i \in 1..n : Admissible(orders[i]) /\ orders[i].space = Space(direct)
  BY <1>1, <1>2, <1>3, <1>4 DEF Acceptable, Authorized, InTime, Admissible
<1>6. spent = {SpentOf(orders[i]) : i \in 1..n}
  BY <1>4, <1>5 DEF SpentOf, ToSet
<1> HIDE DEF spent, n
<1>7. \A i, j \in 1..n : SpentOf(orders[i]) = SpentOf(orders[j]) => i = j
  <2> DEFINE f == [i \in 1..n |-> SpentOf(orders[i])]
  <2>1. f = [i \in 1..n |-> f[i]] /\ \A i \in 1..n : f[i] = SpentOf(orders[i])
    OBVIOUS
  <2> HIDE DEF f
  <2>2. f \in Surjection(1..n, spent)
    BY <1>6, <2>1 DEF Surjection
  <2>3. IsFiniteSet(1..n) /\ Cardinality(1..n) = n
    BY <1>4, FS_Interval
  <2>4. f \in Injection(1..n, spent)
    BY <1>2, <2>2, <2>3, FS_Surjection DEF n
  <2> QED BY <2>1, <2>4 DEF Injection, IsInjective
<1>8. \A i \in 1..n : SpentOf(orders[i]) \notin saved.nonces
  BY <1>2, <1>3, <1>6
<1> QED BY <1>1, <1>2, <1>3, <1>5, <1>6, <1>7, <1>8 DEF AuthorizedInv, Admissible, n

\* The other steps consume none.
LEMMA AuthorizedWithin ==
    ASSUME SettlementInv, Fund \/ Swap \/ Close \/ Pay
    PROVE  AuthorizedInv'
<1>1. /\ UNCHANGED <<saved, now, eligible, orders, direct, quoting>>
      /\ phase # "idle" /\ phase' \in {"fund", "swap", "close", "pay", "return"}
  BY WithinACall
<1>2. phase # "open"
  BY DEF Fund, Swap, Close, Pay
<1>3. UNCHANGED nonces
  BY <1>2, WithinACall
<1> QED BY <1>1, <1>2, <1>3 DEF SettlementInv, AuthorizedInv, Admissible

-----------------------------------------------------------------------------
(* The wallets. *)

\* What stands for the orders of one user on one side grows at these orders only.
LEMMA OwnNext ==
    ASSUME NEW os, NEW n \in Nat, DOMAIN os = 1..n, NEW f, NEW i \in 1..n,
           \A k \in 1..i : f[k] \in Int, NEW u, NEW z
    PROVE  /\ Own(f, os, u, z, i - 1) \in Int /\ Own(f, os, u, z, i) \in Int
           /\ os[i].user = u /\ os[i].zeroForOne = z =>
                 Own(f, os, u, z, i) = Own(f, os, u, z, i - 1) + f[i]
           /\ ~(os[i].user = u /\ os[i].zeroForOne = z) =>
                 Own(f, os, u, z, i) = Own(f, os, u, z, i - 1)
<1> DEFINE w == Owners(os)
           m == i - 1
           p == <<u, z>>
<1>1. m \in Nat /\ m + 1 = i
  OBVIOUS
<1>2. w[i].zeroForOne = <<os[i].user, os[i].zeroForOne>> /\ f[i] \in Int
  BY DEF Owners
<1> HIDE DEF w, m, p
<1>3. \A k \in 1..m + 1 : f[k] \in Int
  BY <1>1
<1>4. /\ Drawn(f, w, p, m) \in Int
      /\ w[m + 1].zeroForOne = p => Drawn(f, w, p, m + 1) = Drawn(f, w, p, m) + f[m + 1]
      /\ w[m + 1].zeroForOne # p => Drawn(f, w, p, m + 1) = Drawn(f, w, p, m)
  BY <1>1, <1>3, DrawnNext
<1>5. w[i].zeroForOne = p <=> os[i].user = u /\ os[i].zeroForOne = z
  BY <1>2 DEF p
<1>6. /\ Drawn(f, w, p, m) \in Int /\ Drawn(f, w, p, i) \in Int
      /\ os[i].user = u /\ os[i].zeroForOne = z => Drawn(f, w, p, i) = Drawn(f, w, p, m) + f[i]
      /\ ~(os[i].user = u /\ os[i].zeroForOne = z) => Drawn(f, w, p, i) = Drawn(f, w, p, m)
  <2> DEFINE x == Drawn(f, w, p, m)
             y == Drawn(f, w, p, i)
  <2>1. /\ x \in Int
        /\ w[i].zeroForOne = p => y = x + f[i]
        /\ w[i].zeroForOne # p => y = x
    BY <1>1, <1>4
  <2> HIDE DEF x, y
  <2>2. y \in Int
    BY <1>2, <2>1
  <2> QED BY <1>5, <2>1, <2>2 DEF x, y
<1> QED BY <1>6 DEF Own, w, m, p

\* Nothing stands for none of them.
LEMMA OwnFirst == ASSUME NEW f, NEW os, NEW u, NEW z PROVE Own(f, os, u, z, 0) = 0
BY DrawnFirst DEF Own

\* A sum of integers is one.
LEMMA OwnIsInt ==
    ASSUME NEW f, NEW os, NEW u, NEW z, NEW n \in Nat, \A i \in 1..n : f[i] \in Int
    PROVE  Own(f, os, u, z, n) \in Int
<1>1. n \in 0..n
  OBVIOUS
<1> QED BY <1>1, DrawnIsInt DEF Own

\* One user is funded from, or paid, one token.
LEMMA OneWallet ==
    ASSUME NEW w \in [Users -> [Sides -> Int]], NEW v \in Users, NEW z \in Sides, NEW x \in Int,
           NEW e, e = [w EXCEPT ![v][z] = x]
    PROVE  /\ e \in [Users -> [Sides -> Int]]
           /\ e[v][z] = x
           /\ \A u \in Users, t \in Sides : ~(v = u /\ z = t) => e[u][t] = w[u][t]
<1>1. e = [u \in Users |-> IF u = v THEN [w[v] EXCEPT ![z] = x] ELSE w[u]]
  OBVIOUS
<1>2. [w[v] EXCEPT ![z] = x] \in [Sides -> Int]
  OBVIOUS
<1>3. \A u \in Users : e[u] \in [Sides -> Int]
  BY <1>1, <1>2
<1>4. e \in [Users -> [Sides -> Int]]
  BY <1>1, <1>3
<1> QED BY <1>1, <1>4

\* The amounts of the request.
LEMMA AmountsAre ==
    ASSUME SortedRequest, phase # "idle"
    PROVE  /\ Len(orders) \in Nat \ {0} /\ DOMAIN orders = 1..Len(orders)
           /\ \A i \in 1..Len(orders) : /\ orders[i] \in Order /\ orders[i].user \in Users
                                        /\ orders[i].zeroForOne \in Sides
                                        /\ AmountsIn(orders)[i] = orders[i].amountIn
                                        /\ AmountsIn(orders)[i] \in Int
<1>1. /\ Len(orders) \in Nat \ {0} /\ DOMAIN orders = 1..Len(orders)
      /\ orders \in [1..Len(orders) -> Order]
  BY RequestIs
<1>2. \A i \in 1..Len(orders) : orders[i] \in Order
  BY <1>1
<1>3. \A i \in 1..Len(orders) : AmountsIn(orders)[i] = orders[i].amountIn
  BY <1>1 DEF AmountsIn
<1>4. \A o \in Order : o.user \in Users /\ o.zeroForOne \in Sides /\ o.amountIn \in Int
  BY DEF Order
<1> QED BY <1>1, <1>2, <1>3, <1>4

\* An order is funded from its wallet.
LEMMA FundWallet ==
    ASSUME AccountsInv, SettlementInv, Fund
    PROVE  WalletInv'
<1> SUFFICES ASSUME ~quoting' PROVE WalletInv'
  BY DEF WalletInv
<1> DEFINE n == Len(orders)
           o == orders[index]
           v == o.user
           z == o.zeroForOne
           a == o.amountIn
           P(u, t, k) == Own(AmountsIn(orders), orders, u, t, k)
<1>1. /\ phase = "fund" /\ Advance("swap") /\ UNCHANGED <<saved, orders, quoting>> /\ ~quoting
      /\ wallet' = [wallet EXCEPT ![v][z] = @ - a]
  BY WithinACall DEF Fund
<1>2. /\ index \in 1..n /\ n \in Nat
      /\ \/ phase' = "fund" /\ index' \in 1..n /\ index' - 1 = index
         \/ phase' = "swap" /\ index' = 1 /\ index = n
  BY <1>1, Advanced
<1>3. /\ DOMAIN orders = 1..n /\ v \in Users /\ z \in Sides /\ a \in Int
      /\ AmountsIn(orders)[index] = a /\ \A i \in 1..index : AmountsIn(orders)[i] \in Int
  BY <1>1, <1>2, AmountsAre DEF AccountsInv
<1>4. /\ wallet \in [Users -> [Sides -> Int]]
      /\ saved.wallet \in [Users -> [Sides -> Int]]
      /\ \A u \in Users, t \in Sides : wallet[u][t] = saved.wallet[u][t] - P(u, t, index - 1)
  BY <1>1 DEF SettlementInv, WalletInv, LedgerInv, LedgerOf
<1>5. ASSUME NEW u \in Users, NEW t \in Sides
      PROVE  /\ P(u, t, index - 1) \in Int
             /\ v = u /\ z = t => P(u, t, index) = P(u, t, index - 1) + a
             /\ ~(v = u /\ z = t) => P(u, t, index) = P(u, t, index - 1)
  <2> DEFINE f == AmountsIn(orders)
             os == orders
  <2>1. /\ n \in Nat /\ DOMAIN os = 1..n /\ index \in 1..n /\ f[index] = a
        /\ \A k \in 1..index : f[k] \in Int
    BY <1>2, <1>3
  <2> HIDE DEF f, os, n
  <2>2. /\ Own(f, os, u, t, index - 1) \in Int
        /\ os[index].user = u /\ os[index].zeroForOne = t =>
              Own(f, os, u, t, index) = Own(f, os, u, t, index - 1) + f[index]
        /\ ~(os[index].user = u /\ os[index].zeroForOne = t) =>
              Own(f, os, u, t, index) = Own(f, os, u, t, index - 1)
    BY <2>1, OwnNext
  <2> QED BY <2>1, <2>2 DEF f, os
<1> HIDE DEF P, n, v, z, a, o
<1>6. wallet[v][z] - a \in Int
  BY <1>3, <1>4
<1>7. /\ wallet' \in [Users -> [Sides -> Int]]
      /\ wallet'[v][z] = wallet[v][z] - a
      /\ \A u \in Users, t \in Sides : ~(v = u /\ z = t) => wallet'[u][t] = wallet[u][t]
  <2>1. wallet' = [wallet EXCEPT ![v][z] = wallet[v][z] - a]
    BY <1>1, <1>4
  <2> QED BY <1>3, <1>4, <1>6, <2>1, OneWallet
<1>8. ASSUME NEW u \in Users, NEW t \in Sides
      PROVE  wallet'[u][t] = saved.wallet[u][t] - P(u, t, index)
  <2>1. CASE v = u /\ z = t
    <3>1. wallet'[u][t] = (saved.wallet[u][t] - P(u, t, index - 1)) - a
      BY <1>4, <1>7, <2>1
    <3>2. saved.wallet[u][t] \in Int /\ P(u, t, index - 1) \in Int
      BY <1>4, <1>5
    <3>3. P(u, t, index) = P(u, t, index - 1) + a
      BY <1>5, <2>1
    <3> QED BY <1>3, <3>1, <3>2, <3>3
  <2>2. CASE ~(v = u /\ z = t)
    BY <1>4, <1>5, <1>7, <2>2
  <2> QED BY <2>1, <2>2
<1>9. CASE phase' = "fund" /\ index' - 1 = index
  BY <1>1, <1>7, <1>8, <1>9 DEF WalletInv, P
<1>10. CASE phase' = "swap" /\ index = n
  BY <1>1, <1>7, <1>8, <1>10 DEF WalletInv, P, n
<1> QED BY <1>2, <1>9, <1>10

\* The opening, the swaps and the closing move no wallet.
LEMMA SwapWallet ==
    ASSUME AccountsInv, SettlementInv, Open \/ Swap \/ Close
    PROVE  WalletInv'
<1> SUFFICES ASSUME ~quoting' PROVE WalletInv'
  BY DEF WalletInv
<1>1. UNCHANGED <<saved, orders, quoting>> /\ ~quoting /\ phase # "idle"
  BY WithinACall
<1>2. UNCHANGED wallet
  BY DEF Open, Swap, Close, accounts
<1>3. LedgerOf(saved.wallet, saved.reserve, saved.nonces, saved.fills)
  BY <1>1 DEF SettlementInv, LedgerInv
<1>4. wallet \in [Users -> [Sides -> Int]] /\ saved.wallet \in [Users -> [Sides -> Int]]
  BY <1>1, <1>3 DEF SettlementInv, WalletInv, LedgerOf
<1>5. /\ Len(orders) \in Nat
      /\ \A i \in 1..Len(orders) : AmountsIn(orders)[i] \in Int
  BY <1>1, AmountsAre DEF AccountsInv
<1>6. CASE Open
  <2>1. phase = "open" /\ phase' = "fund" /\ index' - 1 = 0 /\ wallet = saved.wallet
    BY <1>1, <1>6 DEF Open, SettlementInv, WalletInv
  <2>2. \A u \in Users, t \in Sides :
           wallet[u][t] = saved.wallet[u][t] - Own(AmountsIn(orders), orders, u, t, 0)
    BY <1>4, <2>1, OwnFirst
  <2> QED BY <1>1, <1>2, <1>4, <2>1, <2>2 DEF WalletInv
<1>7. CASE Swap
  <2>1. phase = "swap" /\ phase' \in {"swap", "close"}
    BY <1>7 DEF Swap, Advance
  <2> QED BY <1>1, <1>2, <2>1 DEF SettlementInv, WalletInv
<1>8. CASE Close
  <2>1. phase = "close" /\ phase' = "pay" /\ index' = index /\ index = 1
    BY <1>8 DEF Close, AccountsInv, AtAnOrder
  <2>2. index' - 1 = 0
    BY <2>1
  <2>3. \A u \in Users, t \in Sides :
           /\ wallet[u][t] = saved.wallet[u][t] - Own(AmountsIn(orders), orders, u, t, Len(orders))
           /\ wallet[u][t] \in Int
    BY <1>1, <1>4, <2>1 DEF SettlementInv, WalletInv
  <2>4. \A u \in Users, s \in Sides : Own(outputs', orders, u, s, 0) = 0
    BY OwnFirst
  <2>5. \A u \in Users, t, s \in Sides :
           wallet[u][t] = saved.wallet[u][t] - Own(AmountsIn(orders), orders, u, t, Len(orders))
                          + Own(outputs', orders, u, s, 0)
    BY <2>3, <2>4
  <2> QED BY <1>1, <1>2, <1>4, <2>1, <2>2, <2>5 DEF WalletInv
<1> QED BY <1>6, <1>7, <1>8

\* An order is paid to its wallet.
LEMMA PayWallet ==
    ASSUME AccountsInv, SettlementInv, Pay
    PROVE  WalletInv'
<1> SUFFICES ASSUME ~quoting' PROVE WalletInv'
  BY DEF WalletInv
<1> DEFINE n == Len(orders)
           v == orders[index].user
           z == orders[index].zeroForOne
           a == outputs[index]
           W(u, t) == saved.wallet[u][t] - Own(AmountsIn(orders), orders, u, t, n)
           P(u, s, k) == Own(outputs, orders, u, s, k)
<1>1. /\ phase = "pay" /\ Advance("return") /\ UNCHANGED <<saved, orders, quoting, outputs>>
      /\ ~quoting
      /\ wallet' = [wallet EXCEPT ![v][~z] = @ + a]
  BY WithinACall DEF Pay
<1>2. /\ index \in 1..n /\ n \in Nat
      /\ \/ phase' = "pay" /\ index' \in 1..n /\ index' - 1 = index
         \/ phase' = "return" /\ index' = 1 /\ index = n
  BY <1>1, Advanced
<1>3. /\ DOMAIN orders = 1..n /\ v \in Users /\ z \in Sides
      /\ \A i \in 1..n : AmountsIn(orders)[i] \in Int
  BY <1>1, <1>2, AmountsAre DEF AccountsInv
<1>4. PICK y \in Sides : z # y
  BY <1>3 DEF Sides
<1>5. (~z) = y
  BY <1>3, <1>4, Opposite
<1>6. \A i \in 1..n : outputs[i] \in Int
  BY <1>1 DEF AccountsInv, OutputsSoFar
<1>7. a \in Int /\ \A i \in 1..index : outputs[i] \in Int
  BY <1>2, <1>6
<1>8. /\ wallet \in [Users -> [Sides -> Int]]
      /\ saved.wallet \in [Users -> [Sides -> Int]]
      /\ \A u \in Users, t, s \in Sides : t # s => wallet[u][t] = W(u, t) + P(u, s, index - 1)
  BY <1>1 DEF SettlementInv, WalletInv, LedgerInv, LedgerOf
<1>9. ASSUME NEW u \in Users, NEW s \in Sides
      PROVE  /\ P(u, s, index - 1) \in Int
             /\ v = u /\ z = s => P(u, s, index) = P(u, s, index - 1) + a
             /\ ~(v = u /\ z = s) => P(u, s, index) = P(u, s, index - 1)
  <2> DEFINE os == orders
             f == outputs
  <2>1. /\ n \in Nat /\ DOMAIN os = 1..n /\ index \in 1..n
        /\ \A k \in 1..index : f[k] \in Int
    BY <1>2, <1>3, <1>7
  <2> HIDE DEF os, n, f
  <2>2. /\ Own(f, os, u, s, index - 1) \in Int
        /\ os[index].user = u /\ os[index].zeroForOne = s =>
              Own(f, os, u, s, index) = Own(f, os, u, s, index - 1) + f[index]
        /\ ~(os[index].user = u /\ os[index].zeroForOne = s) =>
              Own(f, os, u, s, index) = Own(f, os, u, s, index - 1)
    BY <2>1, OwnNext
  <2> QED BY <2>2 DEF os, f
<1>10. \A u \in Users, t \in Sides : W(u, t) \in Int
  <2>1. \A u \in Users, t \in Sides : Own(AmountsIn(orders), orders, u, t, n) \in Int
    BY <1>2, <1>3, OwnIsInt
  <2> QED BY <1>8, <2>1
<1> HIDE DEF P, W, n, v, z, a
<1>11. /\ wallet' \in [Users -> [Sides -> Int]]
       /\ wallet'[v][y] = wallet[v][y] + a
       /\ \A u \in Users, t \in Sides : ~(v = u /\ y = t) => wallet'[u][t] = wallet[u][t]
  <2>1. wallet' = [wallet EXCEPT ![v][y] = wallet[v][y] + a]
    BY <1>1, <1>5, <1>8
  <2>2. wallet[v][y] + a \in Int
    BY <1>3, <1>7, <1>8
  <2> QED BY <1>3, <1>4, <1>8, <2>1, <2>2, OneWallet
<1>12. ASSUME NEW u \in Users, NEW t \in Sides, NEW s \in Sides, t # s
       PROVE  wallet'[u][t] = W(u, t) + P(u, s, index)
  <2>1. y = t <=> z = s
    BY <1>3, <1>4, <1>12, TwoSides
  <2>2. wallet[u][t] = W(u, t) + P(u, s, index - 1) /\ P(u, s, index - 1) \in Int
        /\ W(u, t) \in Int
    BY <1>8, <1>9, <1>10, <1>12
  <2>3. CASE v = u /\ y = t
    <3>1. P(u, s, index) = P(u, s, index - 1) + a
      BY <1>9, <2>1, <2>3
    <3>2. wallet'[u][t] = wallet[u][t] + a
      BY <1>11, <2>3
    <3> QED BY <1>7, <2>2, <3>1, <3>2
  <2>4. CASE ~(v = u /\ y = t)
    <3>1. P(u, s, index) = P(u, s, index - 1)
      BY <1>9, <2>1, <2>4
    <3>2. wallet'[u][t] = wallet[u][t]
      BY <1>11, <2>4
    <3> QED BY <2>2, <3>1, <3>2
  <2> QED BY <2>3, <2>4
<1>13. CASE phase' = "pay" /\ index' - 1 = index
  BY <1>1, <1>11, <1>12, <1>13 DEF WalletInv, W, P, n
<1>14. CASE phase' = "return" /\ index = n
  BY <1>1, <1>11, <1>12, <1>14 DEF WalletInv, W, P, n
<1> QED BY <1>2, <1>13, <1>14

-----------------------------------------------------------------------------
(* The fills and the pool. *)

\* Nothing is filled before the first swap.
LEMMA NothingFilled ==
    ASSUME fills = saved.fills, reserve = saved.reserve, saved.reserve \in [Sides -> Int]
    PROVE  \E g : Filled(g, 0) /\ AsAllocated(g, 0)
<1> DEFINE g == [i \in 1..0 |-> i]
<1>1. g = [i \in 1..0 |-> g[i]]
  OBVIOUS
<1> HIDE DEF g
<1>2. \A t, s \in Sides :
         reserve[t] = saved.reserve[t] + Drawn(PoolInputs(g), orders, t, 0)
                                       - Drawn(PoolOutputs(g), orders, s, 0)
  BY DrawnFirst
<1>3. fills = saved.fills \cup {g[i] : i \in 1..0}
  OBVIOUS
<1>4. Filled(g, 0) /\ AsAllocated(g, 0)
  BY <1>1, <1>2, <1>3 DEF Filled, AsAllocated
<1> QED BY <1>4

\* The opening and the funding fill nothing.
LEMMA FundFills ==
    ASSUME CallInv, AccountsInv, SettlementInv, Open \/ Fund
    PROVE  FillsInv'
<1> SUFFICES ASSUME ~quoting' PROVE FillsInv'
  BY DEF FillsInv
<1>1. UNCHANGED <<saved, orders, quoting>> /\ ~quoting /\ phase # "idle"
  BY WithinACall
<1>2. phase \in {"open", "fund"} /\ UNCHANGED <<fills, reserve>>
  BY DEF Open, Fund
<1>3. fills' = saved'.fills /\ reserve' = saved'.reserve
  BY <1>1, <1>2 DEF SettlementInv, FillsInv
<1>4. saved.reserve \in [Sides -> Int]
  BY <1>1 DEF SettlementInv, LedgerInv, LedgerOf
<1>5. CASE Open
  <2> DEFINE n == Len(orders)
  <2>1. /\ phase' = "fund" /\ allocations' = AllocationsOf(orders, direct)
        /\ Matches(orders, direct)
    BY <1>5 DEF Open
  <2>2. n \in Nat /\ orders \in [1..n -> Order]
    BY <1>1, RequestIs DEF AccountsInv
  <2>3. price \in Nat \ {0}
    BY MathAssumption DEF CallInv, InBand, PriceSupported
  <2>4. \A i \in 1..n : Allocated(AllocationsOf(orders, direct)[i], orders[i])
    BY <2>1, <2>2, <2>3, OpenedAsAllowed
  <2> QED BY <1>1, <1>3, <2>1, <2>4 DEF FillsInv, Allocated
<1>6. CASE Fund
  <2>1. phase = "fund" /\ phase' \in {"fund", "swap"} /\ UNCHANGED allocations
        /\ (phase' = "swap" => index' - 1 = 0)
    BY <1>6 DEF Fund, Advance, context
  <2>2. \A i \in 1..Len(orders') : Allocated(allocations'[i], orders'[i])
    BY <1>1, <2>1 DEF SettlementInv, FillsInv
  <2>3. (\E g : Filled(g, 0) /\ AsAllocated(g, 0))'
    <3>1. PICK g : Filled(g, 0) /\ AsAllocated(g, 0)
      BY <1>1, <1>2, <1>4, NothingFilled DEF SettlementInv, FillsInv
    <3>2. UNCHANGED <<fills, reserve, outputs, orders, saved, allocations>>
      BY <1>1, <1>2, <1>6 DEF Fund, context
    <3>3. Filled(g, 0)' /\ AsAllocated(g, 0)'
      BY <3>1, <3>2 DEF Filled, AsAllocated
    <3> QED BY <3>3
  <2> QED BY <1>1, <1>3, <2>1, <2>2, <2>3 DEF FillsInv
<1> QED BY <1>5, <1>6

\* The closing and the payments fill nothing more.
LEMMA PayFills ==
    ASSUME AccountsInv, SettlementInv, Close \/ Pay
    PROVE  FillsInv'
<1> SUFFICES ASSUME ~quoting' PROVE FillsInv'
  BY DEF FillsInv
<1>1. UNCHANGED <<saved, orders, quoting>> /\ ~quoting /\ phase # "idle"
  BY WithinACall
<1>2. /\ phase \in {"close", "pay"} /\ phase' \in {"pay", "return"}
      /\ UNCHANGED <<fills, reserve, outputs>>
  BY DEF Close, Pay, Advance, accounts
<1>3. PICK g : Filled(g, Len(orders)) /\ Balanced(g, orders, Len(orders))
  BY <1>1, <1>2 DEF SettlementInv, FillsInv
<1>4. Filled(g, Len(orders))' /\ Balanced(g, orders, Len(orders))'
  BY <1>1, <1>2, <1>3 DEF Filled, Balanced
<1> QED BY <1>1, <1>2, <1>4 DEF FillsInv

\* A swap moves the liquidity of both tokens.
LEMMA BothMove ==
    ASSUME NEW r \in [Sides -> Int], NEW z \in Sides, NEW y \in Sides, z # y,
           NEW a \in Int, NEW b \in Int,
           NEW e, e = [r EXCEPT ![z] = @ + a, ![y] = @ - b]
    PROVE  e \in [Sides -> Int] /\ e[z] = r[z] + a /\ e[y] = r[y] - b
OBVIOUS

\* Fills h: the m fills g that were made, and r.
WithOneMore(h, g, m, r) ==
    /\ h = [i \in 1..m + 1 |-> h[i]] /\ DOMAIN h = 1..m + 1
    /\ \A i \in 1..m : h[i] = g[i]
    /\ h[m + 1] = r
    /\ {h[i] : i \in 1..m + 1} = {g[i] : i \in 1..m} \cup {r}

\* There are such fills.
LEMMA OneMoreFill ==
    ASSUME NEW g, NEW m \in Nat, NEW r
    PROVE  \E h : WithOneMore(h, g, m, r)
<1> DEFINE h == [i \in 1..m + 1 |-> IF i = m + 1 THEN r ELSE g[i]]
<1>1. h = [i \in 1..m + 1 |-> h[i]] /\ DOMAIN h = 1..m + 1
  OBVIOUS
<1>2. (\A i \in 1..m : i \in 1..m + 1 /\ i # m + 1) /\ m + 1 \in 1..m + 1
  OBVIOUS
<1>3. (\A i \in 1..m : h[i] = g[i]) /\ h[m + 1] = r
  BY <1>2
<1>4. \A i \in 1..m + 1 : i \in 1..m \/ i = m + 1
  OBVIOUS
<1> HIDE DEF h
<1>5. {h[i] : i \in 1..m + 1} = {g[i] : i \in 1..m} \cup {r}
  BY <1>2, <1>3, <1>4
<1>6. h = [i \in 1..m + 1 |-> h[i]] /\ DOMAIN h = 1..m + 1
  BY <1>1
<1> QED BY <1>3, <1>5, <1>6 DEF WithOneMore

\* A running total of a list that goes on as another did.
LEMMA DrawnOn ==
    ASSUME NEW f, NEW e, NEW os, NEW z, NEW m \in Nat,
           \A i \in 1..m + 1 : e[i] \in Int, \A i \in 1..m : e[i] = f[i]
    PROVE  /\ Drawn(f, os, z, m) \in Int
           /\ os[m + 1].zeroForOne = z => Drawn(e, os, z, m + 1) = Drawn(f, os, z, m) + e[m + 1]
           /\ os[m + 1].zeroForOne # z => Drawn(e, os, z, m + 1) = Drawn(f, os, z, m)
<1>1. \A i \in 1..m : e[i] \in Int /\ f[i] = e[i]
  OBVIOUS
<1>2. Drawn(e, os, z, m) = Drawn(f, os, z, m)
  BY <1>1, DrawnSame
<1>3. /\ Drawn(e, os, z, m) \in Int
      /\ os[m + 1].zeroForOne = z => Drawn(e, os, z, m + 1) = Drawn(e, os, z, m) + e[m + 1]
      /\ os[m + 1].zeroForOne # z => Drawn(e, os, z, m + 1) = Drawn(e, os, z, m)
  BY DrawnNext
<1> QED BY <1>2, <1>3

\* An order is filled: with what it was allocated, and what the liquidity returns for the
\* rest of it.
LEMMA SwapFills ==
    ASSUME AccountsInv, SettlementInv, Swap
    PROVE  FillsInv'
<1> SUFFICES ASSUME ~quoting' PROVE FillsInv'
  BY DEF FillsInv
<1> DEFINE n == Len(orders)
           m == index - 1
           o == orders[index]
           z == o.zeroForOne
           a == allocations[index]
<1>1. PICK ammOutput \in AmmOutputs, p \in Prices :
         LET output == a.matchedOutput + ammOutput IN
         /\ phase = "swap" /\ Advance("close") /\ UNCHANGED allocations
         /\ AmmSwap(z, a.residual, ammOutput, p)
         /\ output >= o.minAmountOut
         /\ outputs' = Append(outputs, output)
         /\ fills' = fills \cup
              {[ order |-> o, matchedInput |-> a.matchedInput, ammInput |-> a.residual,
                 matchedOutput |-> a.matchedOutput, ammOutput |-> ammOutput ]}
  BY DEF Swap
<1> DEFINE output == a.matchedOutput + ammOutput
           r == [ order |-> o, matchedInput |-> a.matchedInput, ammInput |-> a.residual,
                  matchedOutput |-> a.matchedOutput, ammOutput |-> ammOutput ]
<1>2. UNCHANGED <<saved, orders, quoting>> /\ ~quoting
  BY WithinACall
<1>3. /\ index \in 1..n /\ n \in Nat /\ m \in Nat /\ m + 1 = index
      /\ \/ phase' = "swap" /\ index' \in 1..n /\ index' - 1 = index
         \/ phase' = "close" /\ index' = 1 /\ index = n
  BY <1>1, Advanced
<1>4. o \in Order /\ z \in Sides /\ orders \in [1..n -> Order] /\ o.minAmountOut \in Nat
  <2>1. orders \in [1..n -> Order]
    BY <1>1, RequestIs DEF AccountsInv
  <2> QED BY <1>3, <2>1 DEF Order
<1>5. \A i \in 1..n : Allocated(allocations[i], orders[i])
  BY <1>1, <1>2 DEF SettlementInv, FillsInv
<1>6. ammOutput \in Nat
  BY ExecutionAssumption
<1>7. FilledAs(r, o, output) /\ output \in Int
  BY <1>1, <1>3, <1>5, <1>6 DEF Allocated, FilledAs
<1>8. PICK g : Filled(g, m) /\ AsAllocated(g, m)
  BY <1>1, <1>2 DEF SettlementInv, FillsInv
<1>9. r.matchedInput = a.matchedInput /\ r.matchedOutput = a.matchedOutput
      /\ r.ammInput = a.residual /\ r.ammOutput = ammOutput
  OBVIOUS
<1>10. fills' = fills \cup {r} /\ outputs' = Append(outputs, output)
  BY <1>1
<1>11. a = allocations[index] /\ o = orders[index] /\ z = orders[index].zeroForOne
  OBVIOUS
<1> HIDE DEF r, m, n, output
<1>25. PICK h : WithOneMore(h, g, m, r)
  BY <1>3, OneMoreFill
<1>12. /\ h = [i \in 1..m + 1 |-> h[i]] /\ DOMAIN h = 1..m + 1
       /\ \A i \in 1..m : h[i] = g[i]
       /\ h[m + 1] = r
       /\ {h[i] : i \in 1..m + 1} = {g[i] : i \in 1..m} \cup {r}
  BY <1>25 DEF WithOneMore
<1>26. PICK k \in Nat : k = m + 1
  BY <1>3
<1>13. (\A i \in 1..m : outputs'[i] = outputs[i]) /\ outputs'[m + 1] = output
  <2>1. /\ outputs = [i \in DOMAIN outputs |-> outputs[i]] /\ DOMAIN outputs = 1..m
        /\ \A i \in 1..m : outputs[i] \in Int
    BY <1>1 DEF AccountsInv, OutputsSoFar, m
  <2> QED BY <1>3, <1>7, <1>10, <2>1, OneMore
<1>14. \A i \in 1..m + 1 : FilledAs(h[i], orders'[i], outputs'[i])
  <2>1. \A i \in 1..m : FilledAs(h[i], orders[i], outputs'[i])
    BY <1>8, <1>12, <1>13 DEF Filled
  <2>2. FilledAs(h[m + 1], orders[m + 1], outputs'[m + 1])
    BY <1>3, <1>7, <1>11, <1>12, <1>13
  <2>3. \A i \in 1..m + 1 : i \in 1..m \/ i = m + 1
    BY <1>3
  <2> QED BY <1>2, <2>1, <2>2, <2>3
<1>15. fills' = saved'.fills \cup {h[i] : i \in 1..m + 1}
  BY <1>2, <1>8, <1>10, <1>12 DEF Filled
<1>16. PICK y \in Sides : z # y
  BY <1>4 DEF Sides
<1>17. /\ reserve \in [Sides -> Int] /\ saved.reserve \in [Sides -> Int]
       /\ \A t, s \in Sides : t # s =>
             reserve[t] = saved.reserve[t] + Drawn(PoolInputs(g), orders, t, m)
                                           - Drawn(PoolOutputs(g), orders, s, m)
  BY <1>1, <1>8 DEF Filled, SettlementInv, LedgerInv, LedgerOf
<1>18. /\ reserve' \in [Sides -> Int]
       /\ reserve'[z] = reserve[z] + a.residual /\ reserve'[y] = reserve[y] - ammOutput
  <2>1. (~z) = y
    BY <1>4, <1>16, Opposite
  <2>2. reserve' = [reserve EXCEPT ![z] = @ + a.residual, ![y] = @ - ammOutput]
    BY <1>1, <2>1 DEF AmmSwap
  <2>3. a.residual \in Int /\ ammOutput \in Int
    BY <1>3, <1>5, <1>6 DEF Allocated, n
  <2> QED BY <1>4, <1>16, <1>17, <2>2, <2>3, BothMove
<1>19. ASSUME NEW s \in Sides
       PROVE  /\ Drawn(PoolInputs(g), orders, s, m) \in Int
              /\ Drawn(PoolOutputs(g), orders, s, m) \in Int
              /\ z = s =>
                   /\ Drawn(PoolInputs(h), orders, s, m + 1)
                        = Drawn(PoolInputs(g), orders, s, m) + a.residual
                   /\ Drawn(PoolOutputs(h), orders, s, m + 1)
                        = Drawn(PoolOutputs(g), orders, s, m) + ammOutput
              /\ z # s =>
                   /\ Drawn(PoolInputs(h), orders, s, m + 1) = Drawn(PoolInputs(g), orders, s, m)
                   /\ Drawn(PoolOutputs(h), orders, s, m + 1) = Drawn(PoolOutputs(g), orders, s, m)
  <2>1. \A i \in 1..m + 1 : h[i].ammInput \in Int /\ h[i].ammOutput \in Int
    BY <1>14 DEF FilledAs
  <2>2. DOMAIN g = 1..m /\ \A i \in 1..m : i \in 1..m + 1
    BY <1>3, <1>8 DEF Filled
  <2>3. /\ \A i \in 1..m + 1 : PoolInputs(h)[i] \in Int /\ PoolOutputs(h)[i] \in Int
        /\ \A i \in 1..m : /\ PoolInputs(h)[i] = PoolInputs(g)[i]
                           /\ PoolOutputs(h)[i] = PoolOutputs(g)[i]
    BY <1>12, <2>1, <2>2 DEF PoolInputs, PoolOutputs
  <2>4. PoolInputs(h)[m + 1] = a.residual /\ PoolOutputs(h)[m + 1] = ammOutput
    <3>1. m + 1 \in 1..m + 1
      BY <1>3
    <3> QED BY <1>9, <1>12, <3>1 DEF PoolInputs, PoolOutputs
  <2>5. orders[m + 1].zeroForOne = z
    BY <1>3, <1>11
  <2>6. /\ Drawn(PoolInputs(g), orders, s, m) \in Int
        /\ orders[m + 1].zeroForOne = s =>
             Drawn(PoolInputs(h), orders, s, m + 1)
               = Drawn(PoolInputs(g), orders, s, m) + PoolInputs(h)[m + 1]
        /\ orders[m + 1].zeroForOne # s =>
             Drawn(PoolInputs(h), orders, s, m + 1) = Drawn(PoolInputs(g), orders, s, m)
    BY <1>3, <2>3, DrawnOn
  <2>7. /\ Drawn(PoolOutputs(g), orders, s, m) \in Int
        /\ orders[m + 1].zeroForOne = s =>
             Drawn(PoolOutputs(h), orders, s, m + 1)
               = Drawn(PoolOutputs(g), orders, s, m) + PoolOutputs(h)[m + 1]
        /\ orders[m + 1].zeroForOne # s =>
             Drawn(PoolOutputs(h), orders, s, m + 1) = Drawn(PoolOutputs(g), orders, s, m)
    BY <1>3, <2>3, DrawnOn
  <2> QED BY <2>4, <2>5, <2>6, <2>7
<1>20. ASSUME NEW t \in Sides, NEW s \in Sides, t # s
       PROVE  reserve'[t] = saved'.reserve[t] + Drawn(PoolInputs(h), orders', t, m + 1)
                                              - Drawn(PoolOutputs(h), orders', s, m + 1)
  <2>1. (t = z /\ s = y) \/ (t = y /\ s = z)
    BY <1>4, <1>16, <1>20, TwoSides
  <2>2. a.residual \in Int /\ ammOutput \in Int
    BY <1>3, <1>5, <1>6 DEF Allocated, n
  <2>3. /\ reserve[t] = saved.reserve[t] + Drawn(PoolInputs(g), orders, t, m)
                                         - Drawn(PoolOutputs(g), orders, s, m)
        /\ saved.reserve[t] \in Int
    BY <1>17, <1>20
  <2> DEFINE A == Drawn(PoolInputs(g), orders, t, m)
             B == Drawn(PoolOutputs(g), orders, s, m)
             C == Drawn(PoolInputs(h), orders, t, m + 1)
             D == Drawn(PoolOutputs(h), orders, s, m + 1)
  <2>4. A \in Int /\ B \in Int
    BY <1>19
  <2>5. reserve'[t] = saved.reserve[t] + C - D
    <3>1. CASE t = z /\ s = y
      <4>1. C = A + a.residual /\ D = B
        BY <1>16, <1>19, <3>1
      <4>2. reserve'[t] = reserve[t] + a.residual
        BY <1>18, <3>1
      <4> HIDE DEF A, B, C, D
      <4> QED BY <2>2, <2>3, <2>4, <4>1, <4>2 DEF A, B
    <3>2. CASE t = y /\ s = z
      <4>1. C = A /\ D = B + ammOutput
        BY <1>16, <1>19, <3>2
      <4>2. reserve'[t] = reserve[t] - ammOutput
        BY <1>18, <3>2
      <4> HIDE DEF A, B, C, D
      <4> QED BY <2>2, <2>3, <2>4, <4>1, <4>2 DEF A, B
    <3> QED BY <2>1, <3>1, <3>2
  <2> QED BY <1>2, <2>5
<1>21. Filled(h, k)'
  <2>1. h = [i \in 1..k |-> h[i]]
    BY <1>12, <1>26
  <2>2. \A i \in 1..k : FilledAs(h[i], orders'[i], outputs'[i])
    BY <1>14, <1>26
  <2>3. fills' = saved'.fills \cup {h[i] : i \in 1..k}
    BY <1>15, <1>26
  <2>4. \A t, s \in Sides : t # s =>
           reserve'[t] = saved'.reserve[t] + Drawn(PoolInputs(h), orders', t, k)
                                           - Drawn(PoolOutputs(h), orders', s, k)
    BY <1>20, <1>26
  <2> QED BY <1>18, <2>1, <2>2, <2>3, <2>4 DEF Filled
<1>22. \A i \in 1..k : /\ h[i].matchedInput = allocations[i].matchedInput
                       /\ h[i].matchedOutput = allocations[i].matchedOutput
  <2>1. \A i \in 1..m : /\ h[i].matchedInput = allocations[i].matchedInput
                        /\ h[i].matchedOutput = allocations[i].matchedOutput
    BY <1>8, <1>12 DEF AsAllocated
  <2>2. /\ h[m + 1].matchedInput = allocations[m + 1].matchedInput
        /\ h[m + 1].matchedOutput = allocations[m + 1].matchedOutput
    BY <1>3, <1>9, <1>11, <1>12
  <2>3. \A i \in 1..k : i \in 1..m \/ i = m + 1
    BY <1>3, <1>26
  <2> QED BY <2>1, <2>2, <2>3
<1>23. CASE phase' = "swap" /\ index' - 1 = index
  <2>1. index' - 1 = k
    BY <1>3, <1>26, <1>23
  <2>2. \A i \in 1..Len(orders') : Allocated(allocations'[i], orders'[i])
    BY <1>1, <1>2, <1>5 DEF n
  <2>3. Filled(h, index - 1)' /\ AsAllocated(h, index - 1)'
    <3>1. Filled(h, index - 1)'
      BY <1>21, <2>1 DEF Filled
    <3>2. AsAllocated(h, index - 1)'
      BY <1>1, <1>22, <2>1 DEF AsAllocated
    <3> QED BY <3>1, <3>2
  <2>4. (\E f : Filled(f, index - 1) /\ AsAllocated(f, index - 1))'
    BY <2>3
  <2> QED BY <1>23, <2>2, <2>4 DEF FillsInv
<1>24. CASE phase' = "close" /\ index = n
  <2>1. k = n /\ k = Len(orders')
    BY <1>2, <1>3, <1>26, <1>24 DEF n
  <2>2. Balanced(allocations, orders, k)
    BY <1>1, <2>1 DEF AccountsInv, SquareAllocations, n
  <2>3. Balanced(h, orders, k)
    <3>1. DOMAIN h = 1..k /\ DOMAIN allocations = 1..k
      BY <1>12, <1>26, <2>2 DEF Balanced
    <3>2. /\ \A i \in 1..k : /\ Inputs(allocations)[i] \in Int
                             /\ Inputs(h)[i] = Inputs(allocations)[i]
          /\ \A i \in 1..k : /\ Outputs(allocations)[i] \in Int
                             /\ Outputs(h)[i] = Outputs(allocations)[i]
      BY <1>22, <2>2, <3>1 DEF Balanced, Inputs, Outputs
    <3>3. \A t \in Sides :
             /\ Drawn(Inputs(allocations), orders, t, k) = Drawn(Inputs(h), orders, t, k)
             /\ Drawn(Outputs(allocations), orders, t, k) = Drawn(Outputs(h), orders, t, k)
      BY <3>2, DrawnSame
    <3> QED BY <1>22, <2>2, <3>1, <3>3 DEF Balanced
  <2>4. Balanced(h, orders, Len(orders))'
    BY <1>2, <2>1, <2>3
  <2>5. Filled(h, Len(orders))'
    BY <1>21, <2>1 DEF Filled
  <2>6. (\E f : Filled(f, Len(orders)) /\ Balanced(f, orders, Len(orders)))'
    BY <2>4, <2>5
  <2> QED BY <1>24, <2>6 DEF FillsInv
<1> QED BY <1>3, <1>23, <1>24

-----------------------------------------------------------------------------
(* The end of a call, what happens between calls, and the invariant. *)

\* An execution that returns leaves its authorizations spent.
LEMMA ReturnSettles ==
    ASSUME CallInv, SettlementInv, Return
    PROVE  SettlementInv'
<1>1. /\ phase = "return" /\ phase' = "idle" /\ ~quoting
      /\ UNCHANGED <<now, eligible, wallet, reserve, nonces, fills>>
  BY DEF Return, Returns, Finished, outside, accounts
<1>2. wallet \in [Users -> [Sides -> Int]]
  BY <1>1 DEF SettlementInv, WalletInv
<1> DEFINE n == Len(orders)
<1>3. PICK g : Filled(g, n)
  BY <1>1 DEF SettlementInv, FillsInv
<1>4. /\ \A f \in saved.fills : SpentOf(f.order) \in saved.nonces
      /\ nonces = saved.nonces \cup {SpentOf(orders[i]) : i \in 1..n}
  BY <1>1 DEF SettlementInv, LedgerInv, LedgerOf, AuthorizedInv
<1>5. /\ reserve \in [Sides -> Int] /\ fills = saved.fills \cup {g[i] : i \in 1..n}
      /\ \A i \in 1..n : g[i].order = orders[i]
  BY <1>3 DEF Filled, FilledAs
<1>6. \A f \in fills : SpentOf(f.order) \in nonces
  BY <1>4, <1>5
<1>7. LedgerInv'
  BY <1>1, <1>2, <1>5, <1>6 DEF SettlementInv, LedgerInv, LedgerOf
<1> QED BY <1>1, <1>7 DEF SettlementInv, AuthorizedInv, WalletInv, FillsInv

\* A call that is undone leaves what there was.
LEMMA AbortSettles ==
    ASSUME SettlementInv, Abort
    PROVE  SettlementInv'
<1>1. /\ phase # "idle" /\ phase' = "idle" /\ UNCHANGED <<now, eligible>>
      /\ wallet' = saved.wallet /\ reserve' = saved.reserve
      /\ nonces' = saved.nonces /\ fills' = saved.fills
  BY DEF Abort, Finished, outside
<1>2. LedgerInv'
  BY <1>1 DEF SettlementInv, LedgerInv, LedgerOf
<1> QED BY <1>1, <1>2 DEF SettlementInv, AuthorizedInv, WalletInv, FillsInv

\* Between calls nonces are only spent, and only users are ever eligible.
LEMMA OutsideSettles ==
    ASSUME SettlementInv, Outside
    PROVE  SettlementInv'
<1>1. /\ phase = "idle" /\ phase' = "idle" /\ UNCHANGED <<wallet, reserve, fills>>
      /\ nonces \subseteq nonces' /\ now' \in Nat /\ eligible' \subseteq Users
  <2>1. now \in Nat /\ eligible \subseteq Users
    BY DEF SettlementInv, LedgerInv
  <2>2. CASE Tick
    BY <2>1, <2>2 DEF Tick, accounts
  <2>3. CASE \E o \in Signed : HookCancelNonce(o.user, o.space, o.nonce)
    BY <2>1, <2>3 DEF HookCancelNonce, CancelNonce, Consume, outside
  <2>4. CASE Review
    BY <2>1, <2>4 DEF Review, outside, Grants!Admit, Grants!Lapse, accounts
  <2> QED BY <2>2, <2>3, <2>4 DEF Outside
<1>2. LedgerInv'
  BY <1>1 DEF SettlementInv, LedgerInv, LedgerOf
<1> QED BY <1>1, <1>2 DEF SettlementInv, AuthorizedInv, WalletInv, FillsInv

\* Every step keeps the settlement.
LEMMA SettlementStepInv ==
    ASSUME CallInv, AccountsInv, SettlementInv, [Next]_vars
    PROVE  SettlementInv'
<1>1. CASE UNCHANGED vars
  <2>1. UNCHANGED <<now, price, eligible, nonces, wallet, reserve, fills, allocations, phase,
                    orders, quoting, index, outputs, saved>>
    BY <1>1 DEF vars, outside, accounts, context, request
  <2>2. LedgerInv' /\ AuthorizedInv' /\ WalletInv'
    BY <2>1 DEF SettlementInv, LedgerInv, LedgerOf, AuthorizedInv, Admissible,
                   WalletInv
  <2>3. FillsInv'
    <3>1. \A g : /\ (Filled(g, index - 1) /\ AsAllocated(g, index - 1))
                     => (Filled(g, index - 1) /\ AsAllocated(g, index - 1))'
                 /\ (Filled(g, Len(orders)) /\ Balanced(g, orders, Len(orders)))
                     => (Filled(g, Len(orders)) /\ Balanced(g, orders, Len(orders)))'
      BY <2>1 DEF Filled, AsAllocated
    <3> QED BY <2>1, <3>1 DEF SettlementInv, FillsInv
  <2> QED BY <2>2, <2>3 DEF SettlementInv
<1>2. CASE \E os \in Submissions, dir, quote \in BOOLEAN : Call(os, dir, quote)
  BY <1>2, CallSettles
<1>3. CASE Open \/ Fund \/ Swap \/ Close \/ Pay
  <2>1. LedgerInv'
    BY <1>3, LedgerWithin
  <2>2. AuthorizedInv'
    BY <1>3, OpenAuthorizes, AuthorizedWithin
  <2>3. WalletInv'
    BY <1>3, FundWallet, SwapWallet, PayWallet
  <2>4. FillsInv'
    BY <1>3, FundFills, SwapFills, PayFills
  <2> QED BY <2>1, <2>2, <2>3, <2>4 DEF SettlementInv
<1>4. CASE Return \/ Abort
  BY <1>4, ReturnSettles, AbortSettles
<1>5. CASE Outside
  BY <1>5, OutsideSettles
<1> QED BY <1>1, <1>2, <1>3, <1>4, <1>5 DEF Next, Step

-----------------------------------------------------------------------------
(* Calls are settlements. *)

\* The promise sums as the router does.
LEMMA SumsAlike ==
    ASSUME NEW f, NEW S
    PROVE  Promise!SumFunctionOnSet(f, S) = SumFunctionOnSet(f, S)
<1>1. Promise!SumFunctionOnSet(f, S) = (CHOOSE it : IsSum(it, f, S))[S]
  BY DEF Promise!SumFunctionOnSet, Promise!FoldFunctionOnSet, Promise!MapThenFoldSet, IsSum, Pick
<1> QED BY <1>1, SumIsFold

\* What the fills at places S come to is what was counted over those places.
CountedAs(g, os, out, S) ==
    LET G == ImageOf(g, S) IN
    /\ Promise!Sold(G) = SumFunctionOnSet(AmountsIn(os), S)
    /\ Promise!Bought(G) = SumFunctionOnSet(out, S)
    /\ Promise!MatchedIn(G) = SumFunctionOnSet(Inputs(g), S)
    /\ Promise!MatchedOut(G) = SumFunctionOnSet(Outputs(g), S)
    /\ Promise!PoolIn(G) = SumFunctionOnSet(PoolInputs(g), S)
    /\ Promise!PoolOut(G) = SumFunctionOnSet(PoolOutputs(g), S)

\* It is so for fills of distinct orders.
LEMMA SumsOfFills ==
    ASSUME NEW n \in Nat, NEW g, NEW os, NEW out, NEW S \in SUBSET (1..n),
           DOMAIN g = 1..n, DOMAIN os = 1..n,
           \A i \in 1..n : FilledAs(g[i], os[i], out[i]),
           \A i \in 1..n : os[i].amountIn \in Int /\ out[i] \in Int,
           \A i, j \in 1..n : g[i] = g[j] => i = j
    PROVE  CountedAs(g, os, out, S)
<1> DEFINE G == ImageOf(g, S)
<1>1. IsFiniteSet(S)
  <2>1. IsFiniteSet(1..n)
    BY FS_Interval
  <2> QED BY <2>1, FS_Subset
<1>2. \A i, j \in S : g[i] = g[j] => i = j
  OBVIOUS
<1>3. ASSUME NEW f, NEW h, \A i \in S : f[i] \in Int /\ h[g[i]] = f[i]
      PROVE  Promise!SumFunctionOnSet(h, G) = SumFunctionOnSet(f, S)
  BY <1>1, <1>2, <1>3, SumOfImage, SumsAlike
<1>4. ASSUME NEW i \in S
      PROVE  /\ i \in 1..n /\ g[i] \in G /\ g[i].order = os[i]
             /\ g[i].matchedInput \in Int /\ g[i].matchedOutput \in Int
             /\ g[i].ammInput \in Int /\ g[i].ammOutput \in Int
             /\ g[i].matchedOutput + g[i].ammOutput = out[i]
  <2>1. i \in 1..n /\ g[i] \in G
    BY DEF ImageOf
  <2>2. FilledAs(g[i], os[i], out[i])
    BY <2>1
  <2> HIDE DEF G
  <2> QED BY <2>1, <2>2 DEF FilledAs
<1> HIDE DEF G
<1>5. Promise!Sold(G) = SumFunctionOnSet(AmountsIn(os), S)
  <2> DEFINE h == [f \in G |-> f.order.amountIn]
  <2>1. \A i \in S : AmountsIn(os)[i] \in Int /\ h[g[i]] = AmountsIn(os)[i]
    BY <1>4 DEF AmountsIn
  <2> HIDE DEF h
  <2>2. Promise!SumFunctionOnSet(h, G) = SumFunctionOnSet(AmountsIn(os), S)
    BY <1>3, <2>1
  <2> QED BY <2>2 DEF Promise!Sold, h
<1>6. Promise!Bought(G) = SumFunctionOnSet(out, S)
  <2> DEFINE h == [f \in G |-> f.matchedOutput + f.ammOutput]
  <2>1. \A i \in S : out[i] \in Int /\ h[g[i]] = out[i]
    BY <1>4
  <2> HIDE DEF h
  <2>2. Promise!SumFunctionOnSet(h, G) = SumFunctionOnSet(out, S)
    BY <1>3, <2>1
  <2> QED BY <2>2 DEF Promise!Bought, h
<1>7. Promise!MatchedIn(G) = SumFunctionOnSet(Inputs(g), S)
  <2> DEFINE h == [f \in G |-> f.matchedInput]
  <2>1. \A i \in S : Inputs(g)[i] \in Int /\ h[g[i]] = Inputs(g)[i]
    BY <1>4 DEF Inputs
  <2> HIDE DEF h
  <2>2. Promise!SumFunctionOnSet(h, G) = SumFunctionOnSet(Inputs(g), S)
    BY <1>3, <2>1
  <2> QED BY <2>2 DEF Promise!MatchedIn, h
<1>8. Promise!MatchedOut(G) = SumFunctionOnSet(Outputs(g), S)
  <2> DEFINE h == [f \in G |-> f.matchedOutput]
  <2>1. \A i \in S : Outputs(g)[i] \in Int /\ h[g[i]] = Outputs(g)[i]
    BY <1>4 DEF Outputs
  <2> HIDE DEF h
  <2>2. Promise!SumFunctionOnSet(h, G) = SumFunctionOnSet(Outputs(g), S)
    BY <1>3, <2>1
  <2> QED BY <2>2 DEF Promise!MatchedOut, h
<1>9. Promise!PoolIn(G) = SumFunctionOnSet(PoolInputs(g), S)
  <2> DEFINE h == [f \in G |-> f.ammInput]
  <2>1. \A i \in S : PoolInputs(g)[i] \in Int /\ h[g[i]] = PoolInputs(g)[i]
    BY <1>4 DEF PoolInputs
  <2> HIDE DEF h
  <2>2. Promise!SumFunctionOnSet(h, G) = SumFunctionOnSet(PoolInputs(g), S)
    BY <1>3, <2>1
  <2> QED BY <2>2 DEF Promise!PoolIn, h
<1>10. Promise!PoolOut(G) = SumFunctionOnSet(PoolOutputs(g), S)
  <2> DEFINE h == [f \in G |-> f.ammOutput]
  <2>1. \A i \in S : PoolOutputs(g)[i] \in Int /\ h[g[i]] = PoolOutputs(g)[i]
    BY <1>4 DEF PoolOutputs
  <2> HIDE DEF h
  <2>2. Promise!SumFunctionOnSet(h, G) = SumFunctionOnSet(PoolOutputs(g), S)
    BY <1>3, <2>1
  <2> QED BY <2>2 DEF Promise!PoolOut, h
<1> QED BY <1>5, <1>6, <1>7, <1>8, <1>9, <1>10 DEF G, CountedAs

\* The fills of one user.
FillsOf(F, u) == {f \in F : f.order.user = u}

\* The fills of one side, and those of one user on one side.
LEMMA FillsOfSide ==
    ASSUME NEW n \in Nat, NEW g, NEW os, DOMAIN os = 1..n, \A i \in 1..n : g[i].order = os[i]
    PROVE  LET F == ImageOf(g, 1..n) IN
           /\ \A z : Promise!OfSide(F, z) = ImageOf(g, OfSide(os, z, n))
           /\ \A u, z : Promise!OfSide(FillsOf(F, u), z)
                          = ImageOf(g, OfSide(Owners(os), <<u, z>>, n))
<1> DEFINE F == ImageOf(g, 1..n)
<1>1. ASSUME NEW z PROVE Promise!OfSide(F, z) = ImageOf(g, OfSide(os, z, n))
  BY DEF Promise!OfSide, OfSide, ImageOf
<1>2. ASSUME NEW u, NEW z
      PROVE  Promise!OfSide(FillsOf(F, u), z)
               = ImageOf(g, OfSide(Owners(os), <<u, z>>, n))
  <2>1. OfSide(Owners(os), <<u, z>>, n) = {i \in 1..n : os[i].user = u /\ os[i].zeroForOne = z}
    BY DEF OfSide, Owners
  <2>2. Promise!OfSide(FillsOf(F, u), z)
          = ImageOf(g, {i \in 1..n : os[i].user = u /\ os[i].zeroForOne = z})
    BY DEF Promise!OfSide, ImageOf, FillsOf
  <2> QED BY <2>1, <2>2
<1> QED BY <1>1, <1>2

\* The n orders of a call that returns were settled by g.
SettledBy(g, n) ==
    /\ n = Len(orders) /\ DOMAIN g = 1..n /\ DOMAIN orders = 1..n
    /\ Filled(g, n) /\ Balanced(g, orders, n)
    /\ \A i, j \in 1..n : SpentOf(g[i].order) = SpentOf(g[j].order) => i = j
    /\ \A i \in 1..n : /\ SpentOf(g[i].order) \notin saved.nonces
                       /\ Admissible(g[i].order) /\ orders[i] \in Order
    /\ fills \ saved.fills = ImageOf(g, 1..n) /\ saved.fills \subseteq fills
    /\ nonces = saved.nonces \cup {SpentOf(f.order) : f \in ImageOf(g, 1..n)}

\* Every call that returns settled its orders.
LEMMA ReturnedFills ==
    ASSUME CallInv, AccountsInv, SettlementInv, Return
    PROVE  \E n \in Nat \ {0} : \E g : SettledBy(g, n)
<1>1. phase = "return" /\ ~quoting
  BY DEF Return, Returns
<1>2. PICK n \in Nat \ {0} : n = Len(orders) /\ DOMAIN orders = 1..n /\ orders \in [1..n -> Order]
  BY <1>1, RequestIs DEF AccountsInv
<1>3. PICK g : Filled(g, n) /\ Balanced(g, orders, n)
  BY <1>1, <1>2 DEF SettlementInv, FillsInv
<1>4. /\ DOMAIN g = 1..n /\ fills = saved.fills \cup ImageOf(g, 1..n)
      /\ \A i \in 1..n : g[i].order = orders[i]
  BY <1>3 DEF Filled, FilledAs, ImageOf
<1>5. /\ \A i \in 1..n : Admissible(orders[i]) /\ SpentOf(orders[i]) \notin saved.nonces
      /\ \A i, j \in 1..n : SpentOf(orders[i]) = SpentOf(orders[j]) => i = j
      /\ nonces = saved.nonces \cup {SpentOf(orders[i]) : i \in 1..n}
      /\ \A f \in saved.fills : SpentOf(f.order) \in saved.nonces
  BY <1>1, <1>2 DEF SettlementInv, AuthorizedInv, LedgerInv, LedgerOf
<1>6. \A f \in ImageOf(g, 1..n) : f \notin saved.fills
  BY <1>4, <1>5 DEF ImageOf
<1>7. {SpentOf(orders[i]) : i \in 1..n} = {SpentOf(f.order) : f \in ImageOf(g, 1..n)}
  <2>1. \A i \in 1..n : g[i] \in ImageOf(g, 1..n)
    BY DEF ImageOf
  <2>2. \A f \in ImageOf(g, 1..n) : \E i \in 1..n : f = g[i]
    BY DEF ImageOf
  <2> QED BY <1>4, <2>1, <2>2
<1>8. /\ \A i, j \in 1..n : SpentOf(g[i].order) = SpentOf(g[j].order) => i = j
      /\ \A i \in 1..n : /\ SpentOf(g[i].order) \notin saved.nonces
                         /\ Admissible(g[i].order) /\ orders[i] \in Order
  BY <1>2, <1>4, <1>5
<1>9. fills \ saved.fills = ImageOf(g, 1..n) /\ saved.fills \subseteq fills
  BY <1>4, <1>6
<1>10. nonces = saved.nonces \cup {SpentOf(f.order) : f \in ImageOf(g, 1..n)}
  BY <1>5, <1>7
<1> QED BY <1>2, <1>3, <1>4, <1>8, <1>9, <1>10 DEF SettledBy

\* What is seen between calls: an execution that returns shows what it did, all at once.
LEMMA ReturnShows ==
    ASSUME Return
    PROVE  /\ Committed("wallet") = saved.wallet /\ Committed("wallet")' = wallet
           /\ Committed("reserve") = saved.reserve /\ Committed("reserve")' = reserve
           /\ Committed("nonces") = saved.nonces /\ Committed("nonces")' = nonces
           /\ Committed("fills") = saved.fills /\ Committed("fills")' = fills
           /\ Committed("price") = saved.price
           /\ UNCHANGED <<now, eligible>>
<1>1. /\ phase = "return" /\ phase' = "idle"
      /\ UNCHANGED <<now, eligible, wallet, reserve, nonces, fills>>
  BY DEF Return, Finished, outside, accounts
<1> QED BY <1>1 DEF Committed, Persistent

\* An execution that returns settles its orders, as signed.
LEMMA ReturnIsSettle ==
    ASSUME CallInv, AccountsInv, SettlementInv, Return
    PROVE  Promise!Settle
<1>a. PICK n \in Nat \ {0} : \E g : SettledBy(g, n)
  BY ReturnedFills
<1>b. PICK g : SettledBy(g, n)
  BY <1>a
<1>1. /\ n = Len(orders) /\ DOMAIN g = 1..n /\ DOMAIN orders = 1..n
      /\ Filled(g, n) /\ Balanced(g, orders, n)
      /\ \A i, j \in 1..n : SpentOf(g[i].order) = SpentOf(g[j].order) => i = j
      /\ \A i \in 1..n : /\ SpentOf(g[i].order) \notin saved.nonces
                         /\ Admissible(g[i].order) /\ orders[i] \in Order
      /\ fills \ saved.fills = ImageOf(g, 1..n) /\ saved.fills \subseteq fills
      /\ nonces = saved.nonces \cup {SpentOf(f.order) : f \in ImageOf(g, 1..n)}
  BY <1>b DEF SettledBy
<1> DEFINE F == ImageOf(g, 1..n)
           Of(u) == FillsOf(F, u)
<1>2. F # {} /\ \A f \in F : \E i \in 1..n : f = g[i]
  <2>1. 1 \in 1..n
    OBVIOUS
  <2> QED BY <2>1 DEF ImageOf
<1>3. \A i \in 1..n : FilledAs(g[i], orders[i], outputs[i])
  BY <1>1 DEF Filled
<1>4. phase = "return" /\ ~quoting
  BY DEF Return, Returns
<1>5. \A i \in 1..n : orders[i].amountIn \in Int /\ outputs[i] \in Int
  <2>1. \A i \in 1..n : orders[i].amountIn \in Int
    BY <1>1 DEF Order
  <2>2. \A i \in 1..n : outputs[i] \in Int
    BY <1>1, <1>4 DEF AccountsInv, OutputsSoFar
  <2> QED BY <2>1, <2>2
<1>6. ASSUME NEW S \in SUBSET (1..n)
      PROVE  CountedAs(g, orders, outputs, S)
  <2>1. \A i, j \in 1..n : g[i] = g[j] => i = j
    BY <1>1
  <2> QED BY <1>1, <1>3, <1>5, <2>1, SumsOfFills
<1>7. /\ \A z : Promise!OfSide(F, z) = ImageOf(g, OfSide(orders, z, n))
      /\ \A u, z : Promise!OfSide(Of(u), z) = ImageOf(g, OfSide(Owners(orders), <<u, z>>, n))
  <2>1. \A i \in 1..n : g[i].order = orders[i]
    BY <1>3 DEF FilledAs
  <2>2. DOMAIN orders = 1..n
    BY <1>1
  <2> QED BY <2>1, <2>2, FillsOfSide
<1>8. \A f \in F : /\ Promise!FillAsSigned(f) /\ Promise!SpentBy(f) = SpentOf(f.order)
                   /\ SpentOf(f.order) \notin saved.nonces
  <2>1. SUFFICES ASSUME NEW i \in 1..n
                 PROVE  /\ Promise!FillAsSigned(g[i])
                        /\ Promise!SpentBy(g[i]) = SpentOf(g[i].order)
                        /\ SpentOf(g[i].order) \notin saved.nonces
    BY <1>2
  <2>2. orders[i].maxAmmInput \in Nat
    BY <1>1 DEF Order
  <2>3. Committed("price") = saved.price
    BY ReturnShows
  <2>4. Promise!FillAsSigned(g[i])
    BY <1>1, <1>3, <2>2, <2>3 DEF Admissible, FilledAs, Promise!FillAsSigned
  <2> QED BY <1>1, <2>4 DEF Promise!SpentBy, SpentOf
<1>9. \A f, h \in F : Promise!SpentBy(f) = Promise!SpentBy(h) => f = h
  BY <1>1, <1>2, <1>8
<1>10. {Promise!SpentBy(f) : f \in F} = {SpentOf(f.order) : f \in F}
  BY <1>8
<1> HIDE DEF F
<1>11. ASSUME NEW z \in BOOLEAN
       PROVE  /\ Promise!MatchedIn(Promise!OfSide(F, z)) = Promise!MatchedOut(Promise!OfSide(F, ~z))
              /\ reserve[z] = saved.reserve[z] + Promise!PoolIn(Promise!OfSide(F, z))
                                              - Promise!PoolOut(Promise!OfSide(F, ~z))
              /\ \A u \in Users : wallet[u][z] = saved.wallet[u][z]
                    - Promise!Sold(Promise!OfSide(Of(u), z))
                    + Promise!Bought(Promise!OfSide(Of(u), ~z))
  <2>1. PICK y \in Sides : z # y
    BY DEF Sides
  <2>2. z \in Sides /\ (~z) = y
    BY <2>1, Opposite DEF Sides
  <2>3. /\ \A t : OfSide(orders, t, n) \in SUBSET (1..n)
        /\ \A t : OfSide(Owners(orders), t, n) \in SUBSET (1..n)
    BY DEF OfSide
  <2>4. Promise!MatchedIn(Promise!OfSide(F, z)) = Promise!MatchedOut(Promise!OfSide(F, y))
    <3>1. Drawn(Inputs(g), orders, z, n) = Drawn(Outputs(g), orders, y, n)
      BY <1>1, <2>1, <2>2 DEF Balanced
    <3> QED BY <1>6, <1>7, <2>3, <3>1 DEF Drawn, CountedAs
  <2>5. reserve[z] = saved.reserve[z] + Promise!PoolIn(Promise!OfSide(F, z))
                                      - Promise!PoolOut(Promise!OfSide(F, y))
    <3>1. reserve[z] = saved.reserve[z] + Drawn(PoolInputs(g), orders, z, n)
                                        - Drawn(PoolOutputs(g), orders, y, n)
      BY <1>1, <2>1, <2>2 DEF Filled
    <3> QED BY <1>6, <1>7, <2>3, <3>1 DEF Drawn, CountedAs
  <2>6. ASSUME NEW u \in Users
        PROVE  wallet[u][z] = saved.wallet[u][z] - Promise!Sold(Promise!OfSide(Of(u), z))
                                                 + Promise!Bought(Promise!OfSide(Of(u), y))
    <3>1. wallet[u][z] = saved.wallet[u][z] - Own(AmountsIn(orders), orders, u, z, n)
                                            + Own(outputs, orders, u, y, n)
      BY <1>1, <1>4, <2>1, <2>2 DEF SettlementInv, WalletInv
    <3>2. Promise!Sold(Promise!OfSide(Of(u), z)) = Own(AmountsIn(orders), orders, u, z, n)
      BY <1>6, <1>7, <2>3 DEF Own, Drawn, CountedAs
    <3>3. Promise!Bought(Promise!OfSide(Of(u), y)) = Own(outputs, orders, u, y, n)
      BY <1>6, <1>7, <2>3 DEF Own, Drawn, CountedAs
    <3> QED BY <3>1, <3>2, <3>3
  <2> QED BY <2>2, <2>4, <2>5, <2>6
<1>12. wallet = [u \in Users |-> [t \in BOOLEAN |->
           saved.wallet[u][t] - Promise!Sold(Promise!OfSide(Of(u), t))
                              + Promise!Bought(Promise!OfSide(Of(u), ~t))]]
  <2>1. wallet \in [Users -> [BOOLEAN -> Int]]
    BY <1>4 DEF SettlementInv, WalletInv, Sides
  <2> DEFINE w(u, t) == saved.wallet[u][t] - Promise!Sold(Promise!OfSide(Of(u), t))
                                           + Promise!Bought(Promise!OfSide(Of(u), ~t))
  <2>2. \A u \in Users, t \in BOOLEAN : wallet[u][t] = w(u, t)
    BY <1>11
  <2> HIDE DEF w
  <2>3. wallet = [u \in Users |-> [t \in BOOLEAN |-> w(u, t)]]
    <3>1. \A u \in Users : wallet[u] = [t \in BOOLEAN |-> w(u, t)]
      BY <2>1, <2>2
    <3> QED BY <2>1, <3>1
  <2> QED BY <2>3 DEF w
<1>13. reserve = [t \in BOOLEAN |->
           saved.reserve[t] + Promise!PoolIn(Promise!OfSide(F, t))
                            - Promise!PoolOut(Promise!OfSide(F, ~t))]
  <2>1. reserve \in [BOOLEAN -> Int]
    BY <1>1 DEF Filled, Sides
  <2> DEFINE r(t) == saved.reserve[t] + Promise!PoolIn(Promise!OfSide(F, t))
                                      - Promise!PoolOut(Promise!OfSide(F, ~t))
  <2>2. \A t \in BOOLEAN : reserve[t] = r(t)
    BY <1>11
  <2> HIDE DEF r
  <2>3. reserve = [t \in BOOLEAN |-> r(t)]
    BY <2>1, <2>2
  <2> QED BY <2>3 DEF r
<1>14. /\ fills \ saved.fills = F /\ saved.fills \subseteq fills
       /\ nonces = saved.nonces \cup {Promise!SpentBy(f) : f \in F}
  BY <1>1, <1>10 DEF F
<1>15. \A f \in F : Promise!FillAsSigned(f) /\ Promise!SpentBy(f) \notin saved.nonces
  BY <1>8
<1>16. \A z \in BOOLEAN :
          Promise!MatchedIn(Promise!OfSide(F, z)) = Promise!MatchedOut(Promise!OfSide(F, ~z))
  BY <1>11
<1> QED BY <1>2, <1>9, <1>12, <1>13, <1>14, <1>15, <1>16, ReturnShows
       DEF Promise!Settle, FillsOf

\* What is seen between calls does not change while nothing returns: a step of a call, its
\* beginning and its being undone change nothing of it.
LEMMA CallShowsNothing ==
    ASSUME \/ UNCHANGED vars
           \/ \E os \in Submissions, dir, quote \in BOOLEAN : Call(os, dir, quote)
           \/ Open \/ Fund \/ Swap \/ Close \/ Pay \/ Abort
    PROVE  /\ UNCHANGED <<now, eligible>>
           /\ Committed("price")' = Committed("price")
           /\ Committed("wallet")' = Committed("wallet")
           /\ Committed("reserve")' = Committed("reserve")
           /\ Committed("nonces")' = Committed("nonces")
           /\ Committed("fills")' = Committed("fills")
<1>1. CASE UNCHANGED vars
  <2>1. UNCHANGED <<now, price, eligible, nonces, wallet, reserve, fills, phase, saved>>
    BY <1>1 DEF vars, outside, accounts
  <2> QED BY <2>1 DEF Committed, Persistent
<1>2. CASE \E os \in Submissions, dir, quote \in BOOLEAN : Call(os, dir, quote)
  <2>1. /\ phase = "idle" /\ phase' = "open" /\ saved' = Persistent
        /\ UNCHANGED <<now, eligible>>
    BY <1>2 DEF Call, outside
  <2> QED BY <2>1 DEF Committed, Persistent
<1>3. CASE Open \/ Fund \/ Swap \/ Close \/ Pay
  <2>1. UNCHANGED <<saved, now, eligible>> /\ phase # "idle" /\ phase' # "idle"
    BY <1>3, WithinACall
  <2> QED BY <2>1 DEF Committed
<1>4. CASE Abort
  <2>1. /\ phase # "idle" /\ phase' = "idle" /\ UNCHANGED <<now, eligible>>
        /\ price' = saved.price /\ wallet' = saved.wallet /\ reserve' = saved.reserve
        /\ nonces' = saved.nonces /\ fills' = saved.fills
    BY <1>4 DEF Abort, Finished, outside
  <2> QED BY <2>1 DEF Committed, Persistent
<1> QED BY <1>1, <1>2, <1>3, <1>4

\* Between calls authorizations are voided and eligibility changes.
LEMMA OutsideShows ==
    ASSUME SettlementInv, Outside
    PROVE  \/ Promise!Cancel
           \/ Promise!Review
           \/ Promise!Tick
<1>1. phase = "idle" /\ phase' = "idle" /\ UNCHANGED <<price, wallet, reserve, fills>>
  BY DEF Outside, Tick, HookCancelNonce, Review, accounts
<1>2. /\ Committed("price")' = Committed("price")
      /\ Committed("wallet")' = Committed("wallet")
      /\ Committed("reserve")' = Committed("reserve")
      /\ Committed("fills")' = Committed("fills")
      /\ Committed("nonces") = nonces /\ Committed("nonces")' = nonces'
  BY <1>1 DEF Committed, Persistent
<1>3. eligible \subseteq Users
  BY DEF SettlementInv, LedgerInv
<1>4. CASE Tick
  <2>1. now' = now + 1 /\ now \in Nat /\ UNCHANGED <<eligible, nonces>>
    BY <1>4 DEF Tick, accounts, SettlementInv, LedgerInv
  <2> QED BY <1>2, <2>1 DEF Promise!Tick
<1>5. CASE \E o \in Signed : HookCancelNonce(o.user, o.space, o.nonce)
  BY <1>2, <1>5 DEF HookCancelNonce, CancelNonce, Consume, outside, Promise!Cancel
<1>6. CASE Review
  <2>1. UNCHANGED <<now, nonces>> /\ eligible' \subseteq Users
    BY <1>3, <1>6 DEF Review, accounts, Grants!Admit, Grants!Lapse
  <2> QED BY <1>2, <2>1 DEF Promise!Review
<1> QED BY <1>4, <1>5, <1>6 DEF Outside

\* At every step of every call wallets, pool, authorizations and fills are what the call
\* found, moved by what it has done so far.
THEOREM SettlementInvariant == Spec => [](CallInv /\ AccountsInv /\ SettlementInv)
<1>1. Init => CallInv /\ AccountsInv /\ SettlementInv
  BY CallInitInv, AccountsInitInv, SettlementInitInv
<1>2. CallInv /\ AccountsInv /\ SettlementInv /\ [Next]_vars
         => CallInv' /\ AccountsInv' /\ SettlementInv'
  BY CallStepInv, AccountsStepInv, SettlementStepInv
<1> QED BY <1>1, <1>2, PTL DEF Spec

\* To everybody who looks between calls, calls are atomic settlements of signed orders:
\* the router implements Settlement.
THEOREM CallsSettle == Spec => CallsAreSettlements
<1>1. Init => Promise!Init
  <2> SUFFICES ASSUME Init PROVE Promise!Init
    OBVIOUS
  <2>1. /\ phase = "idle" /\ eligible = {} /\ nonces = {} /\ fills = {}
        /\ now = 1 /\ price \in Prices
        /\ wallet = Funds /\ reserve = Liquidity
    BY DEF Init, Grants!Init
  <2>2. /\ Committed("wallet") = Funds /\ Committed("reserve") = Liquidity
        /\ Committed("price") = price
        /\ Committed("nonces") = {} /\ Committed("fills") = {}
    BY <2>1 DEF Committed, Persistent
  <2> QED BY <2>1, <2>2, ExecutionAssumption DEF Promise!Init, Sides
<1>2. CallInv /\ AccountsInv /\ SettlementInv /\ [Next]_vars
         => [Promise!Next]_<<now, Committed("price"), Committed("wallet"), Committed("reserve"),
                             Committed("nonces"), eligible, Committed("fills")>>
  <2> SUFFICES ASSUME CallInv, AccountsInv, SettlementInv, [Next]_vars
               PROVE  [Promise!Next]_<<now, Committed("price"), Committed("wallet"),
                                       Committed("reserve"), Committed("nonces"), eligible,
                                       Committed("fills")>>
    OBVIOUS
  <2>1. CASE Return
    BY <2>1, ReturnIsSettle DEF Promise!Next
  <2>2. CASE Outside
    BY <2>2, OutsideShows DEF Promise!Next
  <2>3. CASE \/ UNCHANGED vars
             \/ \E os \in Submissions, dir, quote \in BOOLEAN : Call(os, dir, quote)
             \/ Open \/ Fund \/ Swap \/ Close \/ Pay \/ Abort
    BY <2>3, CallShowsNothing
  <2> QED BY <2>1, <2>2, <2>3 DEF Next, Step
<1> QED BY <1>1, <1>2, SettlementInvariant, PTL DEF Spec, CallsAreSettlements, Promise!Spec
=============================================================================

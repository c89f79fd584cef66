----------------------- MODULE ConsoleChallengesProofs -----------------------
(***************************************************************************)
(* The limit of the console's pending authorizations, and what becomes of   *)
(* one, for any number of pages, any limit and any lifetime.                *)
(***************************************************************************)
EXTENDS ConsoleChallenges, FiniteSetTheorems, TLAPS

\* The map is finite, which is what makes its size a number.
CapInv ==
    /\ IsFiniteSet(DOMAIN challenges)
    /\ CapHolds

-----------------------------------------------------------------------------
\* A purge keeps what has not expired and invents nothing.
LEMMA PurgedKeepsUnexpired ==
    DOMAIN Purged = Unexpired /\ Unexpired \subseteq DOMAIN challenges
BY DEF Purged, Restrict, Unexpired

\* No more is left of a map by taking entries out of it.
LEMMA FewerIsFine ==
    ASSUME CapInv, DOMAIN challenges' \subseteq DOMAIN challenges
    PROVE  CapInv'
<1>1. /\ IsFiniteSet(DOMAIN challenges')
      /\ Cardinality(DOMAIN challenges') <= Cardinality(DOMAIN challenges)
  BY FS_Subset DEF CapInv
<1>2. Cardinality(DOMAIN challenges') \in Nat /\ Cardinality(DOMAIN challenges) \in Nat
  BY <1>1, FS_CardinalityType DEF CapInv
<1>3. Cardinality(DOMAIN challenges') <= MaxPending
  BY <1>1, <1>2, ConsoleAssumption DEF CapInv, CapHolds
<1> QED BY <1>1, <1>3 DEF CapInv, CapHolds

\* A registration purges, looks at the cap, and adds a single entry.
LEMMA OneMoreFits ==
    ASSUME CapInv, NEW p \in Pages, Register(p)
    PROVE  CapInv'
<1>1. PICK id \in Ids \ InUse : DOMAIN challenges' = DOMAIN Purged \cup {id}
  BY DEF Register
<1>2. IsFiniteSet(DOMAIN Purged)
  BY PurgedKeepsUnexpired, FS_Subset DEF CapInv
<1>3. id \notin DOMAIN Purged
  BY <1>1 DEF InUse
<1>4. /\ IsFiniteSet(DOMAIN challenges')
      /\ Cardinality(DOMAIN challenges') = Cardinality(DOMAIN Purged) + 1
  BY <1>1, <1>2, <1>3, FS_AddElement
<1>5. Cardinality(DOMAIN Purged) < MaxPending /\ Cardinality(DOMAIN Purged) \in Nat
  BY <1>2, FS_CardinalityType DEF Register, Room
<1>6. Cardinality(DOMAIN challenges') <= MaxPending
  BY <1>4, <1>5, ConsoleAssumption
<1> QED BY <1>4, <1>6 DEF CapInv, CapHolds

-----------------------------------------------------------------------------
(* Theorems. *)

\* The requests let in together never fill the map past its limit
\* (mixedConsole.ts:54-55), as part of an invariant with the map's finiteness.
THEOREM CapInvariant == Spec => []CapInv
<1>1. Init => CapInv
  <2> SUFFICES ASSUME Init PROVE CapInv
    OBVIOUS
  <2>1. DOMAIN challenges = {}
    BY DEF Init
  <2>2. IsFiniteSet(DOMAIN challenges) /\ Cardinality(DOMAIN challenges) = 0
    BY <2>1, FS_EmptySet
  <2> QED BY <2>2, ConsoleAssumption DEF CapInv, CapHolds
<1>2. CapInv /\ [Next]_vars => CapInv'
  <2> SUFFICES ASSUME CapInv, [Next]_vars PROVE CapInv'
    OBVIOUS
  <2>1. CASE Tick
    BY <2>1, FewerIsFine DEF Tick
  <2>2. ASSUME NEW p \in Pages, PreparePage(p) PROVE CapInv'
    <3>1. CASE Register(p)
      BY <3>1, OneMoreFits
    <3>2. CASE TooMany(p)
      BY <3>2, PurgedKeepsUnexpired, FewerIsFine DEF TooMany
    <3>3. CASE UNCHANGED challenges
      BY <3>3, FewerIsFine
    <3> QED BY <2>2, <3>1, <3>2, <3>3 DEF PreparePage, AskPrepare, PrepareFails
  <2>3. ASSUME NEW p \in Pages, SignPage(p) PROVE CapInv'
    <3>1. CASE Redeem(p)
      <4>1. DOMAIN challenges' \subseteq DOMAIN challenges
        BY <3>1 DEF Redeem, Restrict
      <4> QED BY <4>1, FewerIsFine
    <3>2. CASE UNCHANGED challenges
      BY <3>2, FewerIsFine
    <3> QED BY <2>3, <3>1, <3>2 DEF SignPage, RetrieveDraft, PostSigned, Decline, PostTooLate, Reject
  <2>4. CASE UNCHANGED vars
    BY <2>4, FewerIsFine DEF vars
  <2> QED BY <2>1, <2>2, <2>3, <2>4 DEF Next
<1> QED BY <1>1, <1>2, PTL DEF Spec

\* The limit itself, however many requests are let in together (mixedConsole.ts:55).
THEOREM Cap == Spec => []CapHolds
<1>1. CapInv => CapHolds
  BY DEF CapInv
<1> QED BY <1>1, CapInvariant, PTL

\* A challenge that can still be used goes only for a result its user's signature
\* obtained (mixedConsole.ts:63-64 and 69-74); the other ways out of the map take only
\* what has expired.
THEOREM Kept == Spec => KeptUntilSigned
<1> DEFINE Obtained(id) ==
      \E p \in Pages : pages[p].at = "checking" /\ pages[p].valid /\ pages[p].id = id
<1>1. ASSUME [Next]_vars, NEW id \in Unexpired, id \notin DOMAIN challenges'
      PROVE  Obtained(id)
  <2>1. id \in DOMAIN challenges
    BY PurgedKeepsUnexpired
  <2>2. ~Tick /\ ~(UNCHANGED challenges)
    BY <1>1, <2>1 DEF Tick
  <2>3. \A p \in Pages : ~TooMany(p) /\ ~Register(p)
    BY <1>1, PurgedKeepsUnexpired DEF TooMany, Register
  <2>4. PICK p \in Pages : Redeem(p)
    BY <1>1, <2>2, <2>3 DEF Next, vars, PreparePage, SignPage, AskPrepare, PrepareFails,
       RetrieveDraft, PostSigned, Decline, PostTooLate, Reject
  <2>5. DOMAIN challenges' = DOMAIN challenges \ {pages[p].id}
    BY <2>4 DEF Redeem, Restrict
  <2> QED BY <1>1, <2>1, <2>4, <2>5 DEF Redeem
<1>2. [Next]_vars => [\A id \in Unexpired : id \notin DOMAIN challenges' => Obtained(id)]_vars
  BY <1>1
<1> QED BY <1>2, PTL DEF Spec, KeptUntilSigned
=============================================================================

----------------------------- MODULE Eligibility -----------------------------
(***************************************************************************)
(* What the hook may assume of IMixedEligibility: a set of wallets that     *)
(* only an activation of the wallet's own extends, and that may shrink at   *)
(* any time, by expiry, revocation, a ban or a change of policy.            *)
(***************************************************************************)
EXTENDS Naturals

CONSTANT Users

VARIABLES
    eligible,       \* the wallets whose orders are accepted
    activations     \* how often each wallet activated a grant

Init ==
    /\ eligible = {}
    /\ activations = [u \in Users |-> 0]

\* An accepted activation makes its wallet, and no other, eligible.
Admit(u) ==
    /\ activations' = [activations EXCEPT ![u] = @ + 1]
    /\ eligible' = eligible \cup {u}

\* Everything else can only take eligibility away.
Lapse ==
    /\ eligible' \in SUBSET eligible
    /\ UNCHANGED activations

Next == (\E u \in Users : Admit(u)) \/ Lapse

Spec == Init /\ [][Next]_<<eligible, activations>>
=============================================================================

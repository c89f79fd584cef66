-------------------------- MODULE MixedAuthorization --------------------------
(***************************************************************************)
(* contracts/src/mixed/MixedAuthorization.sol, the base of the hook and of  *)
(* the grant manager: the unordered nonces a user has spent, one bitmap per *)
(* namespace, and the check of a signed authorization.                      *)
(***************************************************************************)
EXTENDS Integers

CONSTANTS Users, Nonces

VARIABLE nonces     \* the <<user, namespace, nonce>> whose bit is set

\* The namespaces of MixedTypes.sol.
BATCH_ORDER == 0
DIRECT_SWAP == 1
GRANT_ACTIVATION == 2
LP_ADD == 3
LP_EXIT == 4
LP_COLLECT == 5

Namespaces == 0..5

NonceUsed(u, space, n) == <<u, space, n>> \in nonces

\* _consume: reverts on a bit that is set, and sets it.
Consume(u, space, n) ==
    /\ ~NonceUsed(u, space, n)
    /\ nonces' = nonces \cup {<<u, space, n>>}

\* cancelNonce: the user spends a nonce of any of the six namespaces.
CancelNonce(u, space, n) ==
    /\ space \in Namespaces
    /\ Consume(u, space, n)

\* _authorize, for a message its user did sign.
InTime(time, deadline) == time <= deadline
=============================================================================

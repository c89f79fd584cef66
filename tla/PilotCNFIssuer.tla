---------------------------- MODULE PilotCNFIssuer ----------------------------
(***************************************************************************)
(* The credential source of the pilot, contracts/src/mocks/PilotCNFIssuer:  *)
(* each issuer contract gives a wallet one credential for good, and may     *)
(* revoke it.  Token ids count from 1; tokenByWallet 0 means none.          *)
(***************************************************************************)
EXTENDS Integers, Sequences

CONSTANTS
    Users,
    Issuers,
    TypeOf,         \* the immutable credentialType of each issuer
    MaxExpiry       \* bound: the latest expiry a credential is issued with

VARIABLES now, tokenByWallet, credentials

Credential == [ holder : Users, expiresAt : 1..MaxExpiry, revoked : BOOLEAN ]

IssuerInit ==
    /\ tokenByWallet = [i \in Issuers |-> [u \in Users |-> 0]]
    /\ credentials = [i \in Issuers |-> <<>>]

\* issue: once per wallet, even after its credential expired or was revoked.
Issue(i, u, expiresAt) ==
    /\ expiresAt > now
    /\ tokenByWallet[i][u] = 0
    /\ tokenByWallet' = [tokenByWallet EXCEPT ![i][u] = Len(credentials[i]) + 1]
    /\ credentials' = [credentials EXCEPT ![i] = Append(@,
           [holder |-> u, expiresAt |-> expiresAt, revoked |-> FALSE])]

RevokeCredential(i, u) ==
    LET id == tokenByWallet[i][u] IN
    /\ id # 0
    /\ ~credentials[i][id].revoked
    /\ credentials' = [credentials EXCEPT ![i][id].revoked = TRUE]
    /\ UNCHANGED tokenByWallet

\* isValid
CredentialValid(i, u) ==
    LET id == tokenByWallet[i][u] IN
    /\ id # 0
    /\ credentials[i][id].holder = u
    /\ ~credentials[i][id].revoked
    /\ credentials[i][id].expiresAt > now

\* getCredential(id) answers to a question about user, type and time: the checks
\* isEligible and _cnf make on the record itself.
CredentialMatches(i, id, u, type) ==
    /\ id \in 1..Len(credentials[i])
    /\ credentials[i][id].holder = u
    /\ TypeOf[i] = type
    /\ ~credentials[i][id].revoked
    /\ credentials[i][id].expiresAt > now
=============================================================================

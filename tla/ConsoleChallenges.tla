------------------------- MODULE ConsoleChallenges -------------------------
(***************************************************************************)
(* The pending authorizations of the local console: /api/prepare, challenge *)
(* and signed of cli/src/commands/mixedConsole.ts, as the pages of          *)
(* site/mixed.js call them.                                                 *)
(*                                                                         *)
(* One thread runs the handlers, but each gives way at every await: the     *)
(* requests of several pages interleave there.  A challenge is identified   *)
(* with its payload, whose nonce is random.  Its age is counted in ticks of *)
(* the clock: `left' is expires - now, and -1 stands for all that is past.  *)
(***************************************************************************)
EXTENDS Integers, FiniteSets, Functions

CONSTANTS
    Pages,          \* the pages open in browsers, each at one action at a time
    Ids,            \* challenge identifiers: random, so never one still in use
    MaxPending,     \* 256 pending authorizations
    Lifetime        \* the ticks of a challenge's 600000 milliseconds

ASSUME ConsoleAssumption ==
    /\ IsFiniteSet(Pages)
    /\ IsFiniteSet(Ids)
    /\ MaxPending \in Nat \ {0}
    /\ Cardinality(Ids) >= MaxPending + Cardinality(Pages) - 1
    /\ Lifetime \in Nat

Kinds == {"order", "grant", "liquidity"}

VARIABLES
    challenges,     \* the Map, a function on the identifiers in it
    pages,          \* what each page is at
    redeemed        \* history: the challenges that were answered with a result

vars == <<challenges, pages, redeemed>>

NoId == "none"
Idle == [at |-> "idle", kind |-> "none", id |-> NoId, valid |-> FALSE]
Becomes(p, state) == pages' = [pages EXCEPT ![p] = state]

Pending(id) == id \in DOMAIN challenges
Expired(c) == c.left < 0
Unexpired == {id \in DOMAIN challenges : ~Expired(challenges[id])}

\* The page's user chooses an action; the console reads the policy and a block.
AskPrepare(p, kind) ==
    /\ pages[p] = Idle
    /\ Becomes(p, [Idle EXCEPT !.at = "reading", !.kind = kind])
    /\ UNCHANGED <<challenges, redeemed>>

\* A read fails, or the action's fields do not parse.
PrepareFails(p) ==
    /\ pages[p].at = "reading"
    /\ Becomes(p, Idle)
    /\ UNCHANGED <<challenges, redeemed>>

\* As if the map were never purged.
NothingPurged == challenges

Purged == Restrict(challenges, Unexpired)

\* As if the limit were one more.
RoomForOneMore == Cardinality(DOMAIN Purged) <= MaxPending

Room == Cardinality(DOMAIN Purged) < MaxPending

TooMany(p) ==
    /\ pages[p].at = "reading"
    /\ ~Room
    /\ challenges' = Purged
    /\ Becomes(p, Idle)
    /\ UNCHANGED redeemed

InUse == DOMAIN Purged \cup {pages[q].id : q \in Pages}

\* A draft order is put among the page's orders; the rest is signed at once.
Register(p) ==
    /\ pages[p].at = "reading"
    /\ Room
    /\ \E id \in Ids \ InUse :
         /\ challenges' = [i \in DOMAIN Purged \cup {id} |->
                IF i = id THEN [kind |-> pages[p].kind, left |-> Lifetime] ELSE Purged[i]]
         /\ redeemed' = redeemed \ {id}
         /\ Becomes(p, IF pages[p].kind = "order" THEN Idle
                       ELSE [Idle EXCEPT !.at = "signing", !.id = id])

\* /api/challenge: the canonical draft, for a row the page holds or imported.
RetrieveDraft(p, id) ==
    /\ pages[p] = Idle
    /\ id \in Unexpired /\ challenges[id].kind = "order"
    /\ Becomes(p, [Idle EXCEPT !.at = "signing", !.id = id])
    /\ UNCHANGED <<challenges, redeemed>>

\* The wallet declines.
Decline(p) ==
    /\ pages[p].at = "signing"
    /\ Becomes(p, Idle)
    /\ UNCHANGED <<challenges, redeemed>>

\* As if the challenge were taken out before the signature is looked at.
TakeOut(p, valid) ==
    /\ pages[p].at = "signing" /\ pages[p].id \in Unexpired
    /\ challenges' = Restrict(challenges, DOMAIN challenges \ {pages[p].id})
    /\ Becomes(p, [pages[p] EXCEPT !.at = "checking", !.valid = valid])
    /\ UNCHANGED redeemed

\* /api/signed: the challenge is looked up and its signature, by the user over the
\* payload or not, goes to verifyTypedData or into a simulated call.
PostSigned(p, valid) ==
    /\ pages[p].at = "signing" /\ pages[p].id \in Unexpired
    /\ Becomes(p, [pages[p] EXCEPT !.at = "checking", !.valid = valid])
    /\ UNCHANGED <<challenges, redeemed>>

PostTooLate(p) ==
    /\ pages[p].at = "signing" /\ pages[p].id \notin Unexpired
    /\ Becomes(p, Idle)
    /\ UNCHANGED <<challenges, redeemed>>

\* The answer carries the signed order, or the transaction to send.
Redeem(p) ==
    /\ pages[p].at = "checking" /\ pages[p].valid
    /\ challenges' = Restrict(challenges, DOMAIN challenges \ {pages[p].id})
    /\ redeemed' = redeemed \cup {pages[p].id}
    /\ Becomes(p, Idle)

\* A wrong signature, a call the chain refuses, or no answer from the node.
Reject(p) ==
    /\ pages[p].at = "checking"
    /\ Becomes(p, Idle)
    /\ UNCHANGED <<challenges, redeemed>>

Tick ==
    /\ challenges' = [id \in DOMAIN challenges |->
          [challenges[id] EXCEPT !.left = IF @ < 0 THEN @ ELSE @ - 1]]
    /\ UNCHANGED <<pages, redeemed>>

Init ==
    /\ challenges = [id \in {} |-> Idle]
    /\ pages = [p \in Pages |-> Idle]
    /\ redeemed = {}

PreparePage(p) ==
    \/ \E kind \in Kinds : AskPrepare(p, kind)
    \/ PrepareFails(p) \/ TooMany(p) \/ Register(p)

SignPage(p) ==
    \/ \E id \in Ids : RetrieveDraft(p, id)
    \/ \E valid \in BOOLEAN : PostSigned(p, valid)
    \/ Decline(p) \/ PostTooLate(p) \/ Redeem(p) \/ Reject(p)

Next == Tick \/ \E p \in Pages : PreparePage(p) \/ SignPage(p)

\* Time passes, and a node that is asked again and again answers again.  That users
\* do anything is not assumed.
Fairness ==
    /\ WF_vars(Tick)
    /\ \A p \in Pages : SF_vars(TooMany(p) \/ Register(p))

Spec == Init /\ [][Next]_vars /\ Fairness

-----------------------------------------------------------------------------
(* Properties. *)

\* The requests that were let in together, at their awaits, never fill the map
\* past its limit (mixedConsole.ts:55).
CapHolds == Cardinality(DOMAIN challenges) <= MaxPending

\* A challenge that can still be used goes only for a result its user's signature
\* obtained: a wrong signature or a refused call leaves it for another attempt
\* (mixedConsole.ts:63-64 and 69-74).
KeptUntilSigned ==
    [][\A id \in Unexpired :
          id \notin DOMAIN challenges' =>
             \E p \in Pages : pages[p].at = "checking" /\ pages[p].valid /\ pages[p].id = id]_vars

\* While users go on asking, one is let in again and again, though no challenge is
\* ever signed: the purge at mixedConsole.ts:54 comes before the refusal.
RoomAgain ==
    []<>(\E p \in Pages : pages[p].at = "reading") => []<><<\E p \in Pages : Register(p)>>_vars

\* scripts/mixed/console-e2e.mjs:23 records 'single-use signing challenges': no
\* challenge is answered with a result twice.
SingleUse == [][\A p \in Pages : Redeem(p) => pages[p].id \notin redeemed]_vars
=============================================================================

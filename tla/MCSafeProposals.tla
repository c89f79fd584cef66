-------------------------- MODULE MCSafeProposals --------------------------
(* Two invocations at once of six kinds; a Safe that executes one transaction. *)
EXTENDS MCKeystores, SafeProposals

CONSTANTS ana, bob, eve, c1, c2

Call(name) == [name |-> name, to |-> "address", data |-> "hex", operation |-> 0]

Base == [entry |-> "propose", safe |-> "address", request |-> Call("pause"),
         output |-> NoValue, txService |-> "service", submit |-> TRUE,
         ownerKeystore |-> Keystore(ana), ownerPasswordFile |-> PasswordFile(<<"p", "w", "\n">>),
         terminal |-> NoTerminal, endpoint |-> "right", sameHash |-> TRUE]

Submitting == Base
Renamed == [Base EXCEPT !.request = Call("unpause"), !.output = <<"named", 1>>]
Rival == [Base EXCEPT !.request = Call("unpause"), !.ownerKeystore = Keystore(bob)]
Offline == [Base EXCEPT !.submit = FALSE, !.ownerKeystore = NoValue, !.request = Call("unpause")]
Stranger == [Base EXCEPT !.ownerKeystore = Keystore(eve), !.entry = "configured"]
Mistyped == [Base EXCEPT !.ownerPasswordFile = NoValue,
                         !.terminal = Typing(<<"p", "v", "backspace", "ctrl-c">>)]
NoService == [Base EXCEPT !.txService = NoValue, !.ownerPasswordFile = NoValue,
                          !.terminal = Typing(<<"p", "v", "backspace", "w", "return">>)]
Direct == [Base EXCEPT !.safe = NoValue, !.entry = "configured"]
BadTarget == [Base EXCEPT !.request.to = "malformed"]
OtherSafe == [Base EXCEPT !.sameHash = FALSE]
OtherChain == [Base EXCEPT !.endpoint = "wrong"]

MCInvocations == {Submitting, Renamed, Rival, Offline, Stranger, Mistyped, NoService,
                  Direct, BadTarget, OtherSafe, OtherChain}

Symmetry == Permutations(Runs)
=============================================================================

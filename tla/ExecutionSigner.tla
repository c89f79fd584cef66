-------------------------- MODULE ExecutionSigner --------------------------
(***************************************************************************)
(* The signer of an invocation of the command line (cli/src/signer.ts):    *)
(* which of the three sources is used, what each of them checks, and the   *)
(* account it yields.                                                      *)
(*                                                                         *)
(* A key is represented by the address it controls and a password by the   *)
(* sequence of its characters.  Key derivation and cipher are injective:   *)
(* a keystore opens with the password it was sealed with and no other.     *)
(* "refused" is the outcome of die and of an exception: the process ends.  *)
(***************************************************************************)
EXTENDS Naturals, Sequences, FiniteSets, SequencesExt

CONSTANT NoValue    \* an option, variable or field that is absent

Refused == "refused"
Newlines == {"\n", "\r"}

SignedAs(kind, address) == [kind |-> kind, address |-> address]
NoSigner == SignedAs("none", NoValue)

\* The options of one invocation replace those of the last one as a whole.
ConfigureSignerOptions(options) == options

\* An unsafe private key counts as a source only when both the option and the
\* variable are there.
SelectedSources(options, env) ==
    {source \in {"keystore", "rpc-account", "unsafe-private-key"} :
        \/ source = "keystore" /\ options.keystore # NoValue
        \/ source = "rpc-account" /\ options.rpcAccount # NoValue
        \/ source = "unsafe-private-key" /\ options.unsafePrivateKey /\ env # NoValue}

OneSource(options, env) == Cardinality(SelectedSources(options, env)) <= 1

TestNetwork(network) == network.testnet \/ network.id \in {31337, 1337}

\* A raw key is a record [form, of]: 64 hex digits with or without 0x, or neither.
ParsePrivateKey(raw) ==
    IF raw # NoValue /\ raw.form = "prefixed" THEN raw.of ELSE Refused

----------------------------------------------------------------------------
(* The password of a keystore: a file, or the keys typed at a terminal.    *)

PrivateToOwner(file) == file.readers \cap {"group", "other"} = {}

NoPassword == [read |-> FALSE, value |-> <<>>]
Password(value) == [read |-> TRUE, value |-> value]

ReadPasswordFile(file) ==
    LET kept == {i \in 1..Len(file.text) : \E j \in i..Len(file.text) : file.text[j] \notin Newlines}
    IN  IF PrivateToOwner(file) THEN Password(SubSeq(file.text, 1, Cardinality(kept))) ELSE NoPassword

OnKeypress(prompt, key) ==
    CASE prompt.outcome # "typing" -> prompt
      [] key = "ctrl-c" -> [prompt EXCEPT !.outcome = "cancelled"]
      [] key = "return" -> [prompt EXCEPT !.outcome = "entered"]
      [] key = "backspace" /\ prompt.value = <<>> -> prompt
      [] key = "backspace" /\ prompt.value # <<>> -> [prompt EXCEPT !.value = Front(@)]
      [] OTHER -> [prompt EXCEPT !.value = Append(@, key)]

\* A prompt that is never ended keeps the process waiting: it yields no account.
PromptHidden(terminal) ==
    LET after[n \in 0..Len(terminal.keys)] ==
            IF n = 0 THEN [value |-> <<>>, outcome |-> "typing"]
            ELSE OnKeypress(after[n - 1], terminal.keys[n])
        prompt == after[Len(terminal.keys)]
    IN  IF terminal.tty /\ prompt.outcome = "entered" THEN Password(prompt.value) ELSE NoPassword

----------------------------------------------------------------------------
(* Web3 Secret Storage, version 3.  The declared address is a record       *)
(* [prefixed, of], or absent.                                              *)

PowersOfTwo == {2^k : k \in 1..20}

ScryptParameters(kdf) == kdf.n \in PowersOfTwo /\ kdf.r \in 1..32 /\ kdf.p \in 1..16
Pbkdf2Parameters(kdf) == kdf.c \in 1..10000000 /\ kdf.prf = "hmac-sha256"

KdfSupported(kdf) ==
    /\ kdf.salt = "hex"
    /\ kdf.dklen \in 32..64
    /\ \/ kdf.name = "scrypt" /\ ScryptParameters(kdf)
       \/ kdf.name = "pbkdf2" /\ Pbkdf2Parameters(kdf)

MacMatches(crypto, password) == crypto.intact /\ password.read /\ password.value = crypto.password

\* As if the declared address were not looked at.
DeclaresAnything(keystore) == TRUE

\* The check puts "0x" in front of the declared address whatever it starts with.
DeclaresItsKey(keystore) ==
    \/ keystore.address = NoValue
    \/ ~keystore.address.prefixed /\ keystore.address.of = keystore.crypto.key

\* A key that is not 32 bytes long is no key of an address: NoValue.
DecryptKeystoreV3(keystore, password) ==
    IF /\ keystore.json
       /\ keystore.version = 3 /\ keystore.crypto # NoValue
       /\ keystore.crypto.cipher = "aes-128-ctr"
       /\ KdfSupported(keystore.crypto.kdf)
       /\ MacMatches(keystore.crypto, password)
       /\ keystore.crypto.key # NoValue
       /\ DeclaresItsKey(keystore)
    THEN keystore.crypto.key ELSE Refused

LoadKeystoreAccount(keystore, passwordFile, terminal) ==
    DecryptKeystoreV3(keystore, IF passwordFile # NoValue THEN ReadPasswordFile(passwordFile)
                                ELSE PromptHidden(terminal))

\* The same address read without opening the keystore.
AddressFromKeystore(keystore) ==
    IF keystore.json /\ keystore.version = 3 /\ keystore.address # NoValue
    THEN keystore.address.of ELSE Refused

----------------------------------------------------------------------------
(* An account the RPC endpoint manages.                                    *)

RpcAccount(account, network, rpc) ==
    IF account.valid /\ rpc.chainId = network.id /\ account.of \in rpc.accounts
    THEN account.of ELSE Refused

Outcome(kind, account) == IF account = Refused THEN NoSigner ELSE SignedAs(kind, account)

RawKey(legacy, env) == IF legacy # NoValue THEN legacy ELSE env

Source(options) ==
    IF options.keystore # NoValue THEN "keystore"
    ELSE IF options.rpcAccount # NoValue THEN "rpc-account" ELSE "unsafe-private-key"

UnsafeKeyAllowed(options, network) == options.unsafePrivateKey /\ TestNetwork(network)

\* The clients that sign inside the process.
CreateExecutionClients(options, at, network, rpc, legacy) ==
    CASE ~OneSource(options, at.env) -> NoSigner
      [] OneSource(options, at.env) /\ Source(options) = "keystore" ->
           Outcome("keystore", LoadKeystoreAccount(options.keystore, options.passwordFile, at.terminal))
      [] OneSource(options, at.env) /\ Source(options) = "rpc-account" ->
           Outcome("rpc-account", RpcAccount(options.rpcAccount, network, rpc))
      [] OTHER ->
           IF UnsafeKeyAllowed(options, network)
           THEN Outcome("unsafe-private-key", ParsePrivateKey(RawKey(legacy, at.env))) ELSE NoSigner

\* The signer handed to a forge process: the keystore stays closed.
ForgeSignerForExternalProcess(options, at, network, rpc, legacy) ==
    CASE ~OneSource(options, at.env) -> NoSigner
      [] OneSource(options, at.env) /\ Source(options) = "keystore" ->
           IF options.passwordFile = NoValue \/ PrivateToOwner(options.passwordFile)
           THEN Outcome("keystore", AddressFromKeystore(options.keystore)) ELSE NoSigner
      [] OneSource(options, at.env) /\ Source(options) = "rpc-account" ->
           Outcome("rpc-account", RpcAccount(options.rpcAccount, network, rpc))
      [] OTHER ->
           IF UnsafeKeyAllowed(options, network)
           THEN Outcome("unsafe-private-key", ParsePrivateKey(RawKey(legacy, at.env))) ELSE NoSigner
=============================================================================

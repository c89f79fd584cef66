---------------------------- MODULE MCKeystores ----------------------------
(* Keystores, password files and terminals for the instances. *)
EXTENDS ExecutionSigner

Scrypt == [name |-> "scrypt", salt |-> "hex", dklen |-> 32, n |-> 262144, r |-> 8, p |-> 1]

KeystoreOf(key, declared) ==
    [json |-> TRUE, version |-> 3, address |-> declared,
     crypto |-> [cipher |-> "aes-128-ctr", kdf |-> Scrypt, intact |-> TRUE,
                 password |-> <<"p", "w">>, key |-> key]]

Keystore(key) == KeystoreOf(key, [prefixed |-> FALSE, of |-> key])

PasswordFile(text) == [text |-> text, readers |-> {"owner"}]
SharedFile(text) == [text |-> text, readers |-> {"owner", "group"}]

NoTerminal == [tty |-> FALSE, keys |-> <<>>]
Typing(keys) == [tty |-> TRUE, keys |-> keys]
=============================================================================

--------------------------- MODULE SafeProposals ---------------------------
(***************************************************************************)
(* Proposals of Safe transactions (cli/src/safe.ts).  Several invocations  *)
(* of the command line run at once against one Safe, one directory and one *)
(* transaction service.  An invocation may stop at any step: the process   *)
(* is killed, or an await rejects.                                         *)
(*                                                                         *)
(* The Safe and the service are external: the Safe executes transactions   *)
(* and changes its owners between any two reads, the service accepts or    *)
(* refuses a proposal and its answer may be lost.  A file is written by    *)
(* truncating it and filling it, with a step of another process in between *)
(* where one comes.  A transaction is what the Safe hash binds: the        *)
(* request (target, value, data, operation) and the nonce.                 *)
(***************************************************************************)
EXTENDS ExecutionSigner

CONSTANTS
    Runs,          \* invocations of the command line
    Invocations,   \* what an invocation may be asked: records, see Start
    Owners,        \* accounts that may own the Safe
    MaxNonce       \* the Safe executes at most this many transactions

VARIABLES
    safe,       \* [owners, threshold, nonce] of the Safe, now
    files,      \* path |-> contents
    service,    \* transactions the service holds
    run         \* state of each invocation

vars == <<safe, files, service, run>>

ASSUME SafeAssumption ==
    MaxNonce \in Nat /\ Owners # {} /\ NoValue \notin Owners /\ NoValue \notin Nat

Absent == [kind |-> "absent"]
Torn == [kind |-> "torn"]           \* truncated, or the bytes of two writers
Irregular == [kind |-> "irregular"] \* a directory or a symbolic link

DefaultPaths == {<<"safe-transaction", n>> : n \in 0..MaxNonce}
Outputs == {i.output : i \in Invocations} \ {NoValue}
Paths == DefaultPaths \cup Outputs

SafeState == [owners : SUBSET Owners \ {{}}, threshold : 1..Cardinality(Owners), nonce : 0..MaxNonce]

\* What an invocation keeps between two steps; posted only observes that the service
\* accepted its proposal, which the invocation learns when the answer gets through.
Idle == [pc |-> "idle", asked |-> NoValue, owners |-> NoValue, threshold |-> NoValue,
         nonce |-> NoValue, sender |-> NoValue, submitted |-> FALSE, posted |-> FALSE]

Tx(r) == [request |-> run[r].asked.request, nonce |-> run[r].nonce]
OutputPath(r) == IF run[r].asked.output # NoValue THEN run[r].asked.output
                 ELSE <<"safe-transaction", run[r].nonce>>

Proposal(r) == [kind |-> "proposal", tx |-> Tx(r), owners |-> run[r].owners,
                threshold |-> run[r].threshold, sender |-> run[r].sender,
                submitted |-> run[r].submitted]

At(r, pc) == run[r].pc = pc
Goto(r, pc) == run' = [run EXCEPT ![r].pc = pc]
Running(r) == run[r].pc \notin {"idle", "returned", "died"}

----------------------------------------------------------------------------
(* Both entry points end in proposeSafeTransaction with the same options.  *)

WellFormed(asked) ==
    /\ asked.safe = "address"
    /\ asked.request.to = "address" /\ asked.request.data = "hex"
    /\ asked.request.operation \in {0, 1}

\* safe propose dies without a Safe; a configured call then takes the direct
\* path and returns at once.
Start(r) == \E asked \in Invocations :
    /\ At(r, "idle")
    /\ run' = [run EXCEPT ![r] =
         [Idle EXCEPT !.asked = asked,
                      !.pc = CASE asked.safe = NoValue /\ asked.entry = "configured" -> "returned"
                               [] WellFormed(asked) -> "checking"
                               [] OTHER -> "died"]]
    /\ UNCHANGED <<safe, files, service>>

\* getChainId and getCode of the endpoint the invocation was given.
CheckEndpoint(r) ==
    /\ At(r, "checking")
    /\ Goto(r, IF run[r].asked.endpoint = "right" THEN "reading" ELSE "died")
    /\ UNCHANGED <<safe, files, service>>

\* The three reads of Promise.all are separate requests: any order, any blocks.
Read(r, field) ==
    /\ At(r, "reading") /\ run[r][field] = NoValue
    /\ run' = [run EXCEPT ![r][field] = safe[field]]
    /\ UNCHANGED <<safe, files, service>>

\* The hash is recomputed by the contract; another version of the Safe gives another.
CompareHash(r) ==
    /\ At(r, "reading")
    /\ \A field \in {"owners", "threshold", "nonce"} : run[r][field] # NoValue
    /\ Goto(r, IF run[r].asked.sameHash THEN "signing" ELSE "died")
    /\ UNCHANGED <<safe, files, service>>

OwnerAccount(asked) ==
    LoadKeystoreAccount(asked.ownerKeystore, asked.ownerPasswordFile, asked.terminal)

\* The signer has to be among the owners that were read, not those of now.
Sign(r) ==
    LET asked == run[r].asked IN
    /\ At(r, "signing")
    /\ run' = [run EXCEPT
         ![r].sender = IF asked.ownerKeystore = NoValue \/ OwnerAccount(asked) \notin run[r].owners
                       THEN NoValue ELSE OwnerAccount(asked),
         ![r].pc = IF asked.ownerKeystore = NoValue \/ OwnerAccount(asked) \in run[r].owners
                   THEN "filing" ELSE "died"]
    /\ UNCHANGED <<safe, files, service>>

----------------------------------------------------------------------------
(* The file.                                                               *)

\* writeFileSync opens the file and truncates it.
Truncate(r, next) ==
    /\ files' = [files EXCEPT ![OutputPath(r)] = Torn]
    /\ Goto(r, next)
    /\ UNCHANGED <<safe, service>>

OpenFile(r) ==
    /\ At(r, "filing")
    /\ IF files[OutputPath(r)] = Irregular
       THEN Goto(r, "died") /\ UNCHANGED <<safe, files, service>>
       ELSE Truncate(r, "filling")

\* What is in the file after r wrote all its bytes: another writer that filled
\* it since r truncated it may have left a longer text.
Filled(r) ==
    IF files[OutputPath(r)] = Torn THEN {Proposal(r)} ELSE {Proposal(r), Torn}

\* Submitting takes a service, a sender and a signature; that is found out here,
\* after the offline proposal was written.
AfterFiling(r) ==
    IF ~run[r].asked.submit THEN "returned"
    ELSE IF run[r].asked.txService = NoValue \/ run[r].sender = NoValue THEN "died"
    ELSE "announcing"

\* As if the proposal were written only once it is submitted.
FillAfterPosting(r) ==
    /\ At(r, "filling")
    /\ Goto(r, AfterFiling(r))
    /\ UNCHANGED <<safe, files, service>>

FillFile(r) ==
    /\ At(r, "filling")
    /\ \E contents \in Filled(r) : files' = [files EXCEPT ![OutputPath(r)] = contents]
    /\ Goto(r, AfterFiling(r))
    /\ UNCHANGED <<safe, service>>

----------------------------------------------------------------------------
(* The transaction service.                                                *)

\* GET of the Safe: the service may not know it.
SafeInfo(r) == \E known \in BOOLEAN :
    /\ At(r, "announcing")
    /\ Goto(r, IF known THEN "posting" ELSE "died")
    /\ UNCHANGED <<safe, files, service>>

\* As if the status of the answer were not looked at.
PostUnchecked(r) == \E accepted \in BOOLEAN :
    /\ At(r, "posting")
    /\ service' = IF accepted THEN service \cup {Tx(r)} ELSE service
    /\ run' = [run EXCEPT ![r].posted = accepted, ![r].pc = "accepted"]
    /\ UNCHANGED <<safe, files>>

\* The POST arrives and is accepted, or it is refused or does not arrive.  The
\* invocation is told of an acceptance only when the answer gets through.
Post(r) == \E accepted, answered \in BOOLEAN :
    /\ At(r, "posting")
    /\ service' = IF accepted THEN service \cup {Tx(r)} ELSE service
    /\ run' = [run EXCEPT ![r].posted = accepted,
                          ![r].pc = IF accepted /\ answered THEN "accepted" ELSE "died"]
    /\ UNCHANGED <<safe, files>>

MarkSubmitted(r) ==
    /\ At(r, "accepted")
    /\ run' = [run EXCEPT ![r].submitted = TRUE, ![r].pc = "rewriting"]
    /\ files' = [files EXCEPT ![OutputPath(r)] = Torn]
    /\ UNCHANGED <<safe, service>>

RefillFile(r) ==
    /\ At(r, "rewriting")
    /\ \E contents \in Filled(r) : files' = [files EXCEPT ![OutputPath(r)] = contents]
    /\ Goto(r, "returned")
    /\ UNCHANGED <<safe, service>>

----------------------------------------------------------------------------
\* The process is killed, or an await rejects.
Die(r) ==
    /\ Running(r)
    /\ Goto(r, "died")
    /\ UNCHANGED <<safe, files, service>>

\* The Safe executes a transaction, which may change its owners and threshold.
SafeExecutes == \E owners \in SUBSET Owners \ {{}} : \E threshold \in 1..Cardinality(owners) :
    /\ safe.nonce < MaxNonce
    /\ safe' = [owners |-> owners, threshold |-> threshold, nonce |-> safe.nonce + 1]
    /\ UNCHANGED <<files, service, run>>

Init ==
    /\ safe = [owners |-> Owners, threshold |-> 1, nonce |-> 0]
    /\ files \in [Paths -> {Absent}] \cup {[p \in Paths |-> IF p \in Outputs THEN Irregular ELSE Absent]}
    /\ service = {}
    /\ run = [r \in Runs |-> Idle]

ReadStep(r) == \E field \in {"owners", "threshold", "nonce"} : Read(r, field)

RunStep(r) ==
    \/ Start(r) \/ CheckEndpoint(r) \/ ReadStep(r) \/ CompareHash(r) \/ Sign(r)
    \/ OpenFile(r) \/ FillFile(r) \/ SafeInfo(r) \/ Post(r) \/ MarkSubmitted(r)
    \/ RefillFile(r) \/ Die(r)

Next == SafeExecutes \/ \E r \in Runs : RunStep(r)

Spec == Init /\ [][Next]_vars

----------------------------------------------------------------------------
(* Properties.                                                             *)

Whole(path) == files[path].kind = "proposal"

\* A file that says "submitted" describes a transaction the service holds, whatever
\* was killed and whoever wrote the file last (safe.ts:252-257: the flag is set after
\* the service answered, and it is the flag of the proposal that is written with it).
SubmittedIsAccepted == \A path \in Paths :
    Whole(path) /\ files[path].submitted => files[path].tx \in service

\* Nobody else has named, or defaulted to, the file of r.
Alone(r) == \A q \in Runs \ {r} : run[q].pc = "idle" \/ run[q].nonce = NoValue
                                  \/ OutputPath(q) # OutputPath(r)

\* An invocation with a file of its own that got a proposal accepted has left the same
\* transaction in the file, with the signing owner among the owners listed there; only
\* the rewriting of the file that follows can lose it (safe.ts:250-256: the file comes
\* first, and the second write truncates it).
PostedIsOnFile == \A r \in Runs :
    run[r].posted /\ Alone(r) =>
        LET file == files[OutputPath(r)] IN
        \/ file = Torn /\ run[r].submitted
        \/ file.kind = "proposal" /\ file.tx = Tx(r) /\ file.sender \in file.owners
=============================================================================

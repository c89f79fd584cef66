------------------------- MODULE SafeProposalsProofs -------------------------
(***************************************************************************)
(* A file that says submitted is right, and a proposal that was posted is  *)
(* on file: for any number of invocations, any requests and options, and   *)
(* any number of executions by the Safe.                                   *)
(***************************************************************************)
EXTENDS SafeProposals, TLAPS

-----------------------------------------------------------------------------
(* The inductive invariant. *)

IsRun(s) ==
    s = [pc |-> s.pc, asked |-> s.asked, owners |-> s.owners, threshold |-> s.threshold,
         nonce |-> s.nonce, sender |-> s.sender, submitted |-> s.submitted, posted |-> s.posted]

TxOf(s) == [request |-> s.asked.request, nonce |-> s.nonce]

\* What an invocation believes of its own proposal is so, and once it does it no longer
\* reads anything that could change the transaction.
Believes(s) ==
    /\ s.submitted => s.pc \in {"rewriting", "returned", "died"}
    /\ s.submitted \/ s.pc = "accepted" => TxOf(s) \in service

SubmissionInv ==
    /\ run = [r \in Runs |-> run[r]]
    /\ files = [path \in DOMAIN files |-> files[path]]
    /\ \A r \in Runs : IsRun(run[r]) /\ Believes(run[r])
    /\ \A path \in DOMAIN files : Whole(path) /\ files[path].submitted => files[path].tx \in service
    /\ DOMAIN files = Paths

-----------------------------------------------------------------------------
(* How a step changes the three pieces of state. *)

Becomes(r, s) == run' = [q \in Runs |-> IF q = r THEN s ELSE run[q]]

\* The service forgets nothing, so what others believe remains so.
LEMMA OneRunMoves ==
    ASSUME SubmissionInv, NEW r \in Runs, NEW STATE s, Becomes(r, s), IsRun(s),
           s.submitted => s.pc \in {"rewriting", "returned", "died"},
           s.submitted \/ s.pc = "accepted" => TxOf(s) \in service',
           service \subseteq service'
    PROVE  /\ run' = [q \in Runs |-> run'[q]]
           /\ \A q \in Runs : IsRun(run'[q]) /\ Believes(run[q])'
<1>1. \A q \in Runs : run'[q] = IF q = r THEN s ELSE run[q]
  BY DEF Becomes
<1>2. run' = [q \in Runs |-> run'[q]]
  BY <1>1 DEF Becomes
<1>3. ASSUME NEW q \in Runs PROVE IsRun(run'[q]) /\ Believes(run[q])'
  <2>1. CASE q = r
    BY <1>1, <2>1 DEF Believes, TxOf
  <2>2. CASE q # r
    BY <1>1, <2>2 DEF SubmissionInv, Believes, TxOf
  <2> QED BY <2>1, <2>2
<1> QED BY <1>2, <1>3

\* Files that nobody writes stay right: the service forgets nothing.
LEMMA FilesKept ==
    ASSUME SubmissionInv, UNCHANGED files, service \subseteq service'
    PROVE  /\ files' = [path \in DOMAIN files' |-> files'[path]]
           /\ DOMAIN files' = Paths
           /\ \A path \in DOMAIN files' :
                 Whole(path)' /\ files'[path].submitted => files'[path].tx \in service'
BY DEF SubmissionInv, Whole

\* What is written is torn, or a proposal whose flag is right.
LEMMA FileWritten ==
    ASSUME SubmissionInv, NEW STATE at, NEW STATE contents, files' = [files EXCEPT ![at] = contents],
           contents.kind = "proposal" /\ contents.submitted => contents.tx \in service',
           service \subseteq service'
    PROVE  /\ files' = [path \in DOMAIN files' |-> files'[path]]
           /\ DOMAIN files' = Paths
           /\ \A path \in DOMAIN files' :
                 Whole(path)' /\ files'[path].submitted => files'[path].tx \in service'
<1>1. /\ DOMAIN files' = DOMAIN files
      /\ files' = [path \in DOMAIN files' |-> files'[path]]
      /\ \A path \in DOMAIN files : files'[path] = IF path = at THEN contents ELSE files[path]
  OBVIOUS
<1>2. ASSUME NEW path \in DOMAIN files, files'[path].kind = "proposal", files'[path].submitted
      PROVE  files'[path].tx \in service'
  BY <1>1, <1>2 DEF SubmissionInv, Whole
<1> QED BY <1>1, <1>2 DEF SubmissionInv, Whole

\* An invocation goes on with one more field of its state.
LEMMA FieldAndPlace ==
    ASSUME SubmissionInv, NEW r \in Runs, NEW f \in {"sender", "submitted", "posted"},
           NEW STATE a, NEW STATE p,
           run' = [run EXCEPT ![r][f] = a, ![r].pc = p]
    PROVE  Becomes(r, [[run[r] EXCEPT ![f] = a] EXCEPT !.pc = p])
<1> DEFINE named == [run[r] EXCEPT ![f] = a]
           between == [run EXCEPT ![r] = named]
<1>1. run' = [between EXCEPT ![r] = [between[r] EXCEPT !.pc = p]]
  OBVIOUS
<1> HIDE DEF named
<1>2. /\ between = [q \in Runs |-> IF q = r THEN named ELSE run[q]]
      /\ between[r] = named
  BY DEF SubmissionInv
<1> HIDE DEF between
<1>3. run' = [between EXCEPT ![r] = [named EXCEPT !.pc = p]]
  BY <1>1, <1>2
<1> QED BY <1>2, <1>3 DEF Becomes, named

\* The invariant from its parts after a step.
LEMMA Together ==
    ASSUME /\ run' = [q \in Runs |-> run'[q]]
           /\ \A q \in Runs : IsRun(run'[q]) /\ Believes(run[q])',
           /\ files' = [path \in DOMAIN files' |-> files'[path]]
           /\ DOMAIN files' = Paths
           /\ \A path \in DOMAIN files' :
                 Whole(path)' /\ files'[path].submitted => files'[path].tx \in service'
    PROVE  SubmissionInv'
BY DEF SubmissionInv

\* An invocation goes on to another point of its program and has not submitted yet, or
\* ends.
LEMMA RunGoesOn ==
    ASSUME SubmissionInv, NEW r \in Runs, NEW STATE next, Goto(r, next),
           UNCHANGED service,
           next # "accepted",
           run[r].submitted => next \in {"rewriting", "returned", "died"}
    PROVE  /\ run' = [q \in Runs |-> run'[q]]
           /\ \A q \in Runs : IsRun(run'[q]) /\ Believes(run[q])'
<1> DEFINE s == [run[r] EXCEPT !.pc = next]
<1>1. Becomes(r, s)
  BY DEF Goto, Becomes, SubmissionInv
<1>2. IsRun(run[r]) /\ Believes(run[r])
  BY DEF SubmissionInv
<1>3. IsRun(s) /\ s.submitted = run[r].submitted /\ s.pc = next /\ TxOf(s) = TxOf(run[r])
  BY <1>2 DEF IsRun, TxOf
<1> HIDE DEF s
<1>4. s.submitted => s.pc \in {"rewriting", "returned", "died"}
  BY <1>3
<1>5. s.submitted \/ s.pc = "accepted" => TxOf(s) \in service'
  BY <1>2, <1>3 DEF Believes
<1> QED BY <1>1, <1>3, <1>4, <1>5, OneRunMoves

-----------------------------------------------------------------------------
\* At first no invocation has begun and no file says submitted.
LEMMA StartInv == ASSUME Init PROVE SubmissionInv
<1>1. /\ run = [r \in Runs |-> run[r]]
      /\ \A r \in Runs : IsRun(run[r]) /\ Believes(run[r])
  BY DEF Init, Idle, IsRun, Believes
<1>2. /\ files = [path \in DOMAIN files |-> files[path]]
      /\ DOMAIN files = Paths
      /\ \A path \in Paths : files[path] \in {Absent, Irregular}
  BY DEF Init
<1>3. \A path \in DOMAIN files : ~Whole(path)
  BY <1>2 DEF Whole, Absent, Irregular
<1> QED BY <1>1, <1>2, <1>3 DEF SubmissionInv

\* Up to the file nothing is submitted, and the file and the service are left alone.
LEMMA PreparingKeepsInv ==
    ASSUME SubmissionInv, NEW r \in Runs,
           Start(r) \/ CheckEndpoint(r) \/ ReadStep(r) \/ CompareHash(r) \/ Sign(r)
    PROVE  SubmissionInv'
<1>1. UNCHANGED <<files, service>>
  BY DEF Start, CheckEndpoint, ReadStep, Read, CompareHash, Sign
<1>2. IsRun(run[r]) /\ Believes(run[r])
  BY DEF SubmissionInv
<1>3. run[r].pc \in {"idle", "checking", "reading", "signing"} /\ ~run[r].submitted
  BY <1>2 DEF Start, CheckEndpoint, ReadStep, Read, CompareHash, Sign, At, Believes
<1>4. PICK s : Becomes(r, s) /\ IsRun(s) /\ ~s.submitted /\ s.pc # "accepted"
  <2>1. CASE Start(r)
    <3>1. PICK a \in Invocations, p \in {"returned", "checking", "died"} :
             run' = [run EXCEPT ![r] = [Idle EXCEPT !.asked = a, !.pc = p]]
      <4>1. PICK a \in Invocations : run' = [run EXCEPT ![r] =
               [Idle EXCEPT !.asked = a,
                  !.pc = CASE a.safe = NoValue /\ a.entry = "configured" -> "returned"
                           [] WellFormed(a) -> "checking"
                           [] OTHER -> "died"]]
        BY <2>1 DEF Start
      <4> DEFINE p == CASE a.safe = NoValue /\ a.entry = "configured" -> "returned"
                        [] WellFormed(a) -> "checking"
                        [] OTHER -> "died"
      <4>2. p \in {"returned", "checking", "died"}
        OBVIOUS
      <4>3. run' = [run EXCEPT ![r] = [Idle EXCEPT !.asked = a, !.pc = p]]
        BY <4>1
      <4> HIDE DEF p
      <4> QED BY <4>2, <4>3
    <3> DEFINE s == [Idle EXCEPT !.asked = a, !.pc = p]
    <3>2. IsRun(s) /\ ~s.submitted /\ s.pc # "accepted"
      <4> DEFINE asking == [Idle EXCEPT !.asked = a]
      <4>1. IsRun(asking) /\ ~asking.submitted
        <5>1. IsRun(Idle) /\ ~Idle.submitted
          BY DEF IsRun, Idle
        <5> QED BY <5>1 DEF IsRun
      <4>2. s = [asking EXCEPT !.pc = p]
        OBVIOUS
      <4> HIDE DEF asking
      <4>3. IsRun([asking EXCEPT !.pc = p])
        BY <4>1 DEF IsRun
      <4>4. [asking EXCEPT !.pc = p].pc = p /\ ~[asking EXCEPT !.pc = p].submitted
        BY <4>1 DEF IsRun
      <4> QED BY <3>1, <4>2, <4>3, <4>4
    <3> HIDE DEF s
    <3>3. Becomes(r, s)
      BY <3>1 DEF SubmissionInv, Becomes, s
    <3> QED BY <3>2, <3>3
  <2>2. CASE CheckEndpoint(r) \/ CompareHash(r)
    <3>1. PICK next \in {"reading", "signing", "died"} : Goto(r, next)
      BY <2>2 DEF CheckEndpoint, CompareHash
    <3> DEFINE s == [run[r] EXCEPT !.pc = next]
    <3>2. IsRun(s) /\ ~s.submitted /\ s.pc # "accepted"
      BY <1>2, <1>3 DEF IsRun
    <3>3. Becomes(r, s)
      BY <3>1 DEF Goto, SubmissionInv, Becomes
    <3> QED BY <3>2, <3>3
  <2>3. CASE ReadStep(r)
    <3>1. PICK field \in {"owners", "threshold", "nonce"} :
             run' = [run EXCEPT ![r][field] = safe[field]] /\ run[r].pc = "reading"
      BY <2>3 DEF ReadStep, Read, At
    <3> DEFINE s == [run[r] EXCEPT ![field] = safe[field]]
    <3>2. IsRun(s) /\ ~s.submitted /\ s.pc # "accepted"
      BY <1>2, <1>3, <3>1 DEF IsRun
    <3>3. Becomes(r, s)
      BY <3>1 DEF SubmissionInv, Becomes
    <3> QED BY <3>2, <3>3
  <2>4. CASE Sign(r)
    <3> DEFINE a == IF run[r].asked.ownerKeystore = NoValue \/ OwnerAccount(run[r].asked) \notin run[r].owners
                    THEN NoValue ELSE OwnerAccount(run[r].asked)
               p == IF run[r].asked.ownerKeystore = NoValue \/ OwnerAccount(run[r].asked) \in run[r].owners
                    THEN "filing" ELSE "died"
    <3>1. run' = [run EXCEPT ![r].sender = a, ![r].pc = p] /\ p # "accepted"
      BY <2>4 DEF Sign
    <3> HIDE DEF a, p
    <3> DEFINE named == [run[r] EXCEPT !.sender = a]
               s == [named EXCEPT !.pc = p]
    <3>2. IsRun(named) /\ ~named.submitted
      BY <1>2, <1>3 DEF IsRun
    <3>3. Becomes(r, s)
      BY <3>1, FieldAndPlace
    <3> HIDE DEF named
    <3>4. IsRun(s) /\ ~s.submitted /\ s.pc # "accepted"
      BY <3>1, <3>2 DEF IsRun
    <3> QED BY <3>3, <3>4
  <2> QED BY <2>1, <2>2, <2>3, <2>4
<1>5. /\ run' = [q \in Runs |-> run'[q]]
      /\ \A q \in Runs : IsRun(run'[q]) /\ Believes(run[q])'
  BY <1>1, <1>4, OneRunMoves
<1>6. SubmissionInv'
  BY <1>1, <1>5, FilesKept, Together
<1> QED BY <1>6

\* The steps that only move the invocation on, or end it.
LEMMA MovingKeepsInv ==
    ASSUME SubmissionInv, NEW r \in Runs, SafeInfo(r) \/ Die(r)
    PROVE  SubmissionInv'
<1>1. UNCHANGED <<files, service>>
  BY DEF SafeInfo, Die
<1>2. Believes(run[r])
  BY DEF SubmissionInv
<1>3. \/ Goto(r, "died")
      \/ Goto(r, "posting") /\ ~run[r].submitted
  BY <1>2 DEF SafeInfo, Die, At, Believes
<1>4. /\ run' = [q \in Runs |-> run'[q]]
      /\ \A q \in Runs : IsRun(run'[q]) /\ Believes(run[q])'
  BY <1>1, <1>3, RunGoesOn
<1> QED BY <1>1, <1>4, FilesKept, Together

\* Truncating the file loses what it said and claims nothing.
LEMMA OpeningKeepsInv ==
    ASSUME SubmissionInv, NEW r \in Runs, OpenFile(r)
    PROVE  SubmissionInv'
<1>1. UNCHANGED service /\ ~run[r].submitted
  BY DEF OpenFile, Truncate, At, SubmissionInv, Believes
<1>2. PICK next \in {"died", "filling"} : Goto(r, next)
  BY DEF OpenFile, Truncate
<1>3. /\ run' = [q \in Runs |-> run'[q]]
      /\ \A q \in Runs : IsRun(run'[q]) /\ Believes(run[q])'
  BY <1>1, <1>2, RunGoesOn
<1>4. UNCHANGED files \/ files' = [files EXCEPT ![OutputPath(r)] = Torn]
  BY DEF OpenFile, Truncate
<1>5. ~(Torn.kind = "proposal")
  BY DEF Torn
<1>6. /\ files' = [path \in DOMAIN files' |-> files'[path]]
      /\ DOMAIN files' = Paths
      /\ \A path \in DOMAIN files' :
            Whole(path)' /\ files'[path].submitted => files'[path].tx \in service'
  BY <1>1, <1>4, <1>5, FilesKept, FileWritten
<1> QED BY <1>3, <1>6, Together

\* The flag written is the flag of the run that writes.
LEMMA FillingIsRight ==
    ASSUME SubmissionInv, NEW r \in Runs, NEW STATE contents, contents \in Filled(r), UNCHANGED service
    PROVE  contents.kind = "proposal" /\ contents.submitted => contents.tx \in service'
<1>1. contents = Torn \/ contents = Proposal(r)
  BY DEF Filled
<1>2. CASE contents = Torn
  BY <1>2 DEF Torn
<1>3. CASE contents = Proposal(r)
  <2>1. contents.submitted = run[r].submitted /\ contents.tx = TxOf(run[r])
    BY <1>3 DEF Proposal, Tx, TxOf
  <2> QED BY <2>1 DEF SubmissionInv, Believes
<1> QED BY <1>1, <1>2, <1>3

\* What is filled in, the first time or the second, is the proposal as its invocation has it.
LEMMA FillingKeepsInv ==
    ASSUME SubmissionInv, NEW r \in Runs, FillFile(r) \/ RefillFile(r)
    PROVE  SubmissionInv'
<1>1. UNCHANGED service
  BY DEF FillFile, RefillFile
<1>2. PICK contents \in Filled(r) : files' = [files EXCEPT ![OutputPath(r)] = contents]
  BY DEF FillFile, RefillFile
<1>3. PICK next \in {"returned", "died", "announcing"} :
         Goto(r, next) /\ (run[r].submitted => next = "returned")
  <2>1. CASE FillFile(r)
    <3>1. ~run[r].submitted
      BY <2>1 DEF FillFile, At, SubmissionInv, Believes
    <3>2. AfterFiling(r) \in {"returned", "died", "announcing"}
      BY DEF AfterFiling
    <3> QED BY <2>1, <3>1, <3>2 DEF FillFile
  <2>2. CASE RefillFile(r)
    BY <2>2 DEF RefillFile
  <2> QED BY <2>1, <2>2
<1>4. /\ run' = [q \in Runs |-> run'[q]]
      /\ \A q \in Runs : IsRun(run'[q]) /\ Believes(run[q])'
  BY <1>1, <1>3, RunGoesOn
<1>5. contents.kind = "proposal" /\ contents.submitted => contents.tx \in service'
  BY <1>1, <1>2, FillingIsRight
<1>6. /\ files' = [path \in DOMAIN files' |-> files'[path]]
      /\ DOMAIN files' = Paths
      /\ \A path \in DOMAIN files' :
            Whole(path)' /\ files'[path].submitted => files'[path].tx \in service'
  BY <1>1, <1>2, <1>5, FileWritten
<1> QED BY <1>4, <1>6, Together

\* Only an accepted proposal moves the invocation to where it marks the file.
LEMMA PostingKeepsInv ==
    ASSUME SubmissionInv, NEW r \in Runs, Post(r)
    PROVE  SubmissionInv'
<1>1. PICK accepted \in BOOLEAN, answered \in BOOLEAN :
        /\ service' = IF accepted THEN service \cup {Tx(r)} ELSE service
        /\ run' = [run EXCEPT ![r].posted = accepted,
                              ![r].pc = IF accepted /\ answered THEN "accepted" ELSE "died"]
  BY DEF Post
<1> DEFINE p == IF accepted /\ answered THEN "accepted" ELSE "died"
           noted == [run[r] EXCEPT !.posted = accepted]
           s == [noted EXCEPT !.pc = p]
<1>2. UNCHANGED files /\ ~run[r].submitted /\ IsRun(run[r])
  BY DEF Post, At, SubmissionInv, Believes
<1>3. Becomes(r, s)
  BY <1>1, FieldAndPlace
<1>4. IsRun(noted) /\ ~noted.submitted /\ TxOf(noted) = Tx(r)
  BY <1>2 DEF IsRun, TxOf, Tx
<1>5. p \in {"accepted", "died"} /\ (p = "accepted" => Tx(r) \in service')
  BY <1>1
<1>6. service \subseteq service'
  BY <1>1
<1> HIDE DEF noted, p
<1>7. IsRun(s) /\ ~s.submitted /\ TxOf(s) = Tx(r) /\ s.pc = p
  BY <1>4 DEF IsRun, TxOf
<1>8. /\ run' = [q \in Runs |-> run'[q]]
      /\ \A q \in Runs : IsRun(run'[q]) /\ Believes(run[q])'
  <2> HIDE DEF s
  <2> QED BY <1>3, <1>5, <1>6, <1>7, OneRunMoves
<1> QED BY <1>2, <1>6, <1>8, FilesKept, Together

\* Setting the flag keeps the shape of an invocation.
LEMMA FlaggedIsRun ==
    ASSUME NEW STATE s, IsRun(s), NEW STATE flag
    PROVE  /\ IsRun([s EXCEPT !.submitted = flag])
           /\ TxOf([s EXCEPT !.submitted = flag]) = TxOf(s)
BY DEF IsRun, TxOf

\* The flag is set after the service accepted the same transaction.
LEMMA MarkingKeepsInv ==
    ASSUME SubmissionInv, NEW r \in Runs, MarkSubmitted(r)
    PROVE  SubmissionInv'
<1> DEFINE flagged == [run[r] EXCEPT !.submitted = TRUE]
           s == [flagged EXCEPT !.pc = "rewriting"]
<1>1. UNCHANGED service /\ IsRun(run[r]) /\ TxOf(run[r]) \in service
  BY DEF MarkSubmitted, At, SubmissionInv, Believes
<1>2. Becomes(r, s)
  <2>1. run' = [run EXCEPT ![r].submitted = TRUE, ![r].pc = "rewriting"]
    BY DEF MarkSubmitted
  <2>2. Becomes(r, [[run[r] EXCEPT !.submitted = TRUE] EXCEPT !.pc = "rewriting"])
    BY <2>1, FieldAndPlace
  <2> QED BY <2>2
<1>3. IsRun(flagged) /\ TxOf(flagged) = TxOf(run[r])
  BY <1>1, FlaggedIsRun
<1> HIDE DEF flagged
<1>4. IsRun(s) /\ TxOf(s) = TxOf(run[r]) /\ s.pc = "rewriting"
  BY <1>3 DEF IsRun, TxOf
<1>5. /\ run' = [q \in Runs |-> run'[q]]
      /\ \A q \in Runs : IsRun(run'[q]) /\ Believes(run[q])'
  <2> HIDE DEF s
  <2> QED BY <1>1, <1>2, <1>4, OneRunMoves
<1>6. /\ files' = [path \in DOMAIN files' |-> files'[path]]
      /\ DOMAIN files' = Paths
      /\ \A path \in DOMAIN files' :
            Whole(path)' /\ files'[path].submitted => files'[path].tx \in service'
  <2>1. Torn.kind # "proposal"
    BY DEF Torn
  <2> QED BY <1>1, <2>1, FileWritten DEF MarkSubmitted
<1> QED BY <1>5, <1>6, Together

\* What becomes of the Safe itself concerns neither files nor flags.
LEMMA OthersKeepInv ==
    ASSUME SubmissionInv, UNCHANGED <<files, service, run>>
    PROVE  SubmissionInv'
BY DEF SubmissionInv, Whole, Believes, IsRun, TxOf

-----------------------------------------------------------------------------
(* The file of an invocation that has it to itself. *)
\* The path that a settled invocation writes, and a file that describes its transaction.
PathOf(s) == IF s.asked.output # NoValue THEN s.asked.output ELSE <<"safe-transaction", s.nonce>>

Describes(file, s) == file.kind = "proposal" /\ file.tx = TxOf(s) /\ file.sender \in file.owners

Signed == {"announcing", "posting", "accepted", "rewriting"}
Settling == {"signing", "filing", "filling"} \cup Signed
Engaged(s) == s.pc \in Settling \/ s.posted

\* What an invocation has found out by the time it comes to its file and its proposal.
Settled(s) ==
    /\ s.pc # "idle" => s.asked \in Invocations
    /\ s.nonce \in (0..MaxNonce) \cup {NoValue}
    /\ Engaged(s) => s.nonce # NoValue
    /\ s.pc \in {"filing", "filling"} /\ s.sender # NoValue => s.sender \in s.owners
    /\ s.pc \in Signed => s.sender \in s.owners
    /\ s.posted => s.pc \in {"accepted", "rewriting", "returned", "died"}

\* What an invocation that has its file to itself has left in it.
Left(s, file) ==
    /\ s.pc = "filling" => file = Torn
    /\ s.pc \in {"announcing", "posting", "accepted"} => Describes(file, s)
    /\ s.pc = "rewriting" => file = Torn /\ s.submitted
    /\ s.posted => (file = Torn /\ s.submitted) \/ Describes(file, s)

FileInv ==
    /\ safe.nonce \in 0..MaxNonce
    /\ \A r \in Runs : Settled(run[r])
    /\ \A r \in Runs : Engaged(run[r]) /\ Alone(r) => Left(run[r], files[PathOf(run[r])])

\* A step of one invocation.  Others keep their files: who has its file to itself had it
\* before, so nobody who moves now writes it.
LEMMA OneSettles ==
    ASSUME SubmissionInv, FileInv, NEW r \in Runs, NEW STATE s, Becomes(r, s), UNCHANGED safe,
           Settled(s), s.pc # "idle",
           run[r].pc # "idle" /\ run[r].nonce # NoValue
              => s.asked = run[r].asked /\ s.nonce = run[r].nonce,
           \/ UNCHANGED files
           \/ /\ run[r].pc # "idle" /\ run[r].nonce # NoValue
              /\ \E contents : files' = [files EXCEPT ![PathOf(run[r])] = contents],
           Engaged(s) => /\ run[r].pc # "idle" /\ run[r].nonce # NoValue
                         /\ Alone(r) => Left(s, files'[PathOf(run[r])])
    PROVE  FileInv'
<1>1. \A q \in Runs : run'[q] = IF q = r THEN s ELSE run[q]
  BY DEF Becomes
<1>2. \A q \in Runs : OutputPath(q) = PathOf(run[q]) /\ OutputPath(q)' = PathOf(run'[q])
  BY DEF OutputPath, PathOf
<1>3. \A q \in Runs : run[q].pc # "idle" /\ run[q].nonce # NoValue
                        => /\ run'[q].pc # "idle" /\ run'[q].nonce # NoValue
                           /\ PathOf(run'[q]) = PathOf(run[q])
  BY <1>1 DEF PathOf
<1>4. \A q \in Runs : Settled(run'[q])
  BY <1>1 DEF FileInv
<1>5. \A q \in Runs : run[q].pc # "idle" /\ run[q].nonce # NoValue /\ Alone(q)' => Alone(q)
  BY <1>2, <1>3 DEF Alone
<1>6. ASSUME NEW q \in Runs, Engaged(run'[q]), Alone(q)'
      PROVE  Left(run'[q], files'[PathOf(run'[q])])
  <2>1. CASE q = r
    <3>1. s = run'[q] /\ Engaged(s)
      BY <1>1, <1>6, <2>1
    <3>2. Alone(r) /\ PathOf(run'[q]) = PathOf(run[r])
      BY <1>3, <1>5, <1>6, <2>1, <3>1
    <3> QED BY <3>1, <3>2
  <2>2. CASE q # r
    <3>1. run'[q] = run[q] /\ Engaged(run[q])
      BY <1>1, <1>6, <2>2
    <3>2. run[q].pc # "idle" /\ run[q].nonce # NoValue
      BY <3>1 DEF FileInv, Settled, Engaged, Settling, Signed
    <3>3. Alone(q) /\ Left(run[q], files[PathOf(run[q])])
      BY <1>5, <1>6, <3>1, <3>2 DEF FileInv
    <3>4. files'[PathOf(run[q])] = files[PathOf(run[q])]
      <4>1. CASE UNCHANGED files
        BY <4>1
      <4>2. CASE run[r].pc # "idle" /\ run[r].nonce # NoValue
                   /\ \E contents : files' = [files EXCEPT ![PathOf(run[r])] = contents]
        <5>1. PathOf(run[r]) # PathOf(run[q])
          BY <1>2, <2>2, <3>3, <4>2 DEF Alone
        <5>2. PICK contents : files' = [files EXCEPT ![PathOf(run[r])] = contents]
          BY <4>2
        <5>3. run[q].asked \in Invocations /\ run[q].nonce \in 0..MaxNonce
          BY <3>2 DEF FileInv, Settled
        <5>4. PathOf(run[q]) \in DOMAIN files
          BY <5>3 DEF SubmissionInv, PathOf, Paths, Outputs, DefaultPaths
        <5> QED BY <5>1, <5>2, <5>4
      <4> QED BY <4>1, <4>2
    <3> QED BY <3>1, <3>3, <3>4
  <2> QED BY <2>1, <2>2
<1>7. safe'.nonce \in 0..MaxNonce
  BY DEF FileInv
<1> QED BY <1>4, <1>6, <1>7 DEF FileInv

\* An invocation that only goes on to another point keeps what it has found out.
LEMMA MovedOn ==
    ASSUME SubmissionInv, NEW r \in Runs, NEW STATE next, Goto(r, next)
    PROVE  \E s : /\ Becomes(r, s)
                  /\ s = [run[r] EXCEPT !.pc = next]
                  /\ s.pc = next /\ s.asked = run[r].asked /\ s.owners = run[r].owners
                  /\ s.nonce = run[r].nonce /\ s.sender = run[r].sender
                  /\ s.submitted = run[r].submitted /\ s.posted = run[r].posted
                  /\ TxOf(s) = TxOf(run[r])
<1> DEFINE s == [run[r] EXCEPT !.pc = next]
<1>1. Becomes(r, s)
  BY DEF Goto, Becomes, SubmissionInv
<1>2. IsRun(run[r])
  BY DEF SubmissionInv
<1>3. /\ s.pc = next /\ s.asked = run[r].asked /\ s.owners = run[r].owners
      /\ s.nonce = run[r].nonce /\ s.sender = run[r].sender
      /\ s.submitted = run[r].submitted /\ s.posted = run[r].posted
      /\ TxOf(s) = TxOf(run[r])
  BY <1>2 DEF IsRun, TxOf
<1> QED BY <1>1, <1>3

\* The path of an invocation that knows its nonce is one of the paths there are.
LEMMA PathIsThere ==
    ASSUME SubmissionInv, FileInv, NEW r \in Runs, run[r].pc # "idle", run[r].nonce # NoValue
    PROVE  PathOf(run[r]) \in DOMAIN files
<1>1. run[r].asked \in Invocations /\ run[r].nonce \in 0..MaxNonce
  BY DEF FileInv, Settled
<1> QED BY <1>1 DEF SubmissionInv, PathOf, Paths, Outputs, DefaultPaths

\* The proposal of a signing owner describes the transaction.
LEMMA ProposalDescribes ==
    ASSUME NEW r \in Runs, NEW STATE s, TxOf(s) = TxOf(run[r]), run[r].sender \in run[r].owners
    PROVE  Describes(Proposal(r), s)
BY DEF Describes, Proposal, Tx, TxOf

-----------------------------------------------------------------------------
\* At first nothing is posted or written.
LEMMA FilesStart == ASSUME Init PROVE FileInv
<1>1. \A r \in Runs : Settled(run[r]) /\ ~Engaged(run[r])
  BY DEF Init, Idle, Settled, Engaged, Settling, Signed
<1>2. safe.nonce \in 0..MaxNonce
  BY SafeAssumption DEF Init
<1> QED BY <1>1, <1>2 DEF FileInv

\* Before it knows its nonce an invocation has no file.
LEMMA StartingKeepsFiles ==
    ASSUME SubmissionInv, FileInv, NEW r \in Runs, Start(r)
    PROVE  FileInv'
<1>1. PICK a \in Invocations, p \in {"returned", "checking", "died"} :
         run' = [run EXCEPT ![r] = [Idle EXCEPT !.asked = a, !.pc = p]]
  <2>1. PICK a \in Invocations : run' = [run EXCEPT ![r] =
           [Idle EXCEPT !.asked = a,
              !.pc = CASE a.safe = NoValue /\ a.entry = "configured" -> "returned"
                       [] WellFormed(a) -> "checking"
                       [] OTHER -> "died"]]
    BY DEF Start
  <2> DEFINE p == CASE a.safe = NoValue /\ a.entry = "configured" -> "returned"
                    [] WellFormed(a) -> "checking"
                    [] OTHER -> "died"
  <2>2. p \in {"returned", "checking", "died"}
    OBVIOUS
  <2>3. run' = [run EXCEPT ![r] = [Idle EXCEPT !.asked = a, !.pc = p]]
    BY <2>1
  <2> HIDE DEF p
  <2> QED BY <2>2, <2>3
<1> DEFINE s == [Idle EXCEPT !.asked = a, !.pc = p]
<1>2. s.pc = p /\ s.asked = a /\ s.nonce = NoValue /\ s.posted = FALSE
  BY DEF Idle
<1>3. Becomes(r, s)
  BY <1>1 DEF SubmissionInv, Becomes
<1>4. UNCHANGED <<safe, files>> /\ run[r].pc = "idle"
  BY DEF Start, At
<1> HIDE DEF s
<1>5. Settled(s) /\ ~Engaged(s) /\ s.pc # "idle"
  BY <1>1, <1>2 DEF Settled, Engaged, Settling, Signed
<1> QED BY <1>3, <1>4, <1>5, OneSettles

\* The reads come before the file; the nonce that is read is a nonce of the Safe.
LEMMA ReadingKeepsFiles ==
    ASSUME SubmissionInv, FileInv, NEW r \in Runs, ReadStep(r)
    PROVE  FileInv'
<1>1. PICK field \in {"owners", "threshold", "nonce"} :
         /\ run' = [run EXCEPT ![r][field] = safe[field]]
         /\ run[r].pc = "reading" /\ run[r][field] = NoValue
  BY DEF ReadStep, Read, At
<1> DEFINE s == [run[r] EXCEPT ![field] = safe[field]]
<1>2. Becomes(r, s)
  BY <1>1 DEF SubmissionInv, Becomes
<1>3. IsRun(run[r]) /\ Settled(run[r])
  BY DEF SubmissionInv, FileInv
<1>4. /\ s.pc = "reading" /\ s.asked = run[r].asked /\ s.posted = run[r].posted
      /\ s.nonce = IF field = "nonce" THEN safe.nonce ELSE run[r].nonce
  BY <1>1, <1>3 DEF IsRun
<1>5. safe.nonce \in 0..MaxNonce
  BY DEF FileInv
<1>6. UNCHANGED <<safe, files>>
  BY DEF ReadStep, Read
<1> HIDE DEF s
<1>7. Settled(s) /\ ~Engaged(s)
  BY <1>1, <1>3, <1>4, <1>5 DEF Settled, Engaged, Settling, Signed
<1>8. run[r].nonce # NoValue => s.nonce = run[r].nonce
  BY <1>1, <1>4
<1> QED BY <1>2, <1>4, <1>6, <1>7, <1>8, OneSettles

\* The moves that leave the file alone and carry on: the endpoint, the hash, the service's
\* knowledge of the Safe, and the end.
LEMMA GoingOnKeepsFiles ==
    ASSUME SubmissionInv, FileInv, NEW r \in Runs,
           CheckEndpoint(r) \/ CompareHash(r) \/ SafeInfo(r) \/ Die(r)
    PROVE  FileInv'
<1>1. UNCHANGED <<safe, files>> /\ Settled(run[r])
  BY DEF CheckEndpoint, CompareHash, SafeInfo, Die, FileInv
<1>2. PICK next \in {"reading", "signing", "posting", "died"} :
         /\ Goto(r, next) /\ run[r].pc # "idle"
         /\ next = "reading" => run[r].pc = "checking"
         /\ next = "signing" => run[r].pc = "reading" /\ run[r].nonce # NoValue
         /\ next = "posting" => run[r].pc = "announcing"
  <2>1. CASE CheckEndpoint(r)
    BY <2>1 DEF CheckEndpoint, At
  <2>2. CASE CompareHash(r)
    BY <2>2 DEF CompareHash, At
  <2>3. CASE SafeInfo(r)
    BY <2>3 DEF SafeInfo, At
  <2>4. CASE Die(r)
    BY <2>4 DEF Die, Running
  <2> QED BY <2>1, <2>2, <2>3, <2>4
<1>3. PICK s : /\ Becomes(r, s)
               /\ s.pc = next /\ s.asked = run[r].asked /\ s.owners = run[r].owners
               /\ s.nonce = run[r].nonce /\ s.sender = run[r].sender
               /\ s.submitted = run[r].submitted /\ s.posted = run[r].posted
               /\ TxOf(s) = TxOf(run[r])
  BY <1>2, MovedOn
<1>4. Settled(s) /\ s.pc # "idle"
  BY <1>1, <1>2, <1>3 DEF Settled, Engaged, Settling, Signed
<1>5. ASSUME Engaged(s), Alone(r) PROVE Left(s, files[PathOf(run[r])])
  <2>1. CASE next = "signing"
    BY <1>1, <1>2, <1>3, <2>1 DEF Left, Settled
  <2>2. CASE next = "posting"
    BY <1>1, <1>2, <1>3, <1>5, <2>2
       DEF FileInv, Left, Describes, Settled, Engaged, Settling, Signed
  <2>3. CASE next = "died"
    <3>1. run[r].posted
      BY <1>3, <1>5, <2>3 DEF Engaged, Settling, Signed
    <3>2. Left(run[r], files[PathOf(run[r])])
      BY <1>5, <3>1 DEF FileInv, Engaged
    <3> QED BY <1>3, <2>3, <3>1, <3>2 DEF Left, Describes
  <2>4. CASE next = "reading"
    BY <1>1, <1>2, <1>3, <1>5, <2>4 DEF Settled, Engaged, Settling, Signed
  <2> QED BY <1>2, <2>1, <2>2, <2>3, <2>4
<1>6. Engaged(s) => run[r].nonce # NoValue
  BY <1>3, <1>4 DEF Settled
<1> QED BY <1>1, <1>2, <1>3, <1>4, <1>5, <1>6, OneSettles

\* Who signs is an owner that was read; without an owner there is no signature.
LEMMA SigningKeepsFiles ==
    ASSUME SubmissionInv, FileInv, NEW r \in Runs, Sign(r)
    PROVE  FileInv'
<1> DEFINE a == IF run[r].asked.ownerKeystore = NoValue \/ OwnerAccount(run[r].asked) \notin run[r].owners
                THEN NoValue ELSE OwnerAccount(run[r].asked)
           p == IF run[r].asked.ownerKeystore = NoValue \/ OwnerAccount(run[r].asked) \in run[r].owners
                THEN "filing" ELSE "died"
<1>1. run' = [run EXCEPT ![r].sender = a, ![r].pc = p]
  BY DEF Sign
<1>2. p \in {"filing", "died"} /\ (a # NoValue => a \in run[r].owners)
  OBVIOUS
<1>3. UNCHANGED <<safe, files>> /\ run[r].pc = "signing" /\ IsRun(run[r]) /\ Settled(run[r])
  BY DEF Sign, At, SubmissionInv, FileInv
<1> HIDE DEF a, p
<1> DEFINE named == [run[r] EXCEPT !.sender = a]
           s == [named EXCEPT !.pc = p]
<1>4. Becomes(r, s)
  BY <1>1, FieldAndPlace
<1>5. /\ IsRun(named)
      /\ named.asked = run[r].asked /\ named.owners = run[r].owners /\ named.sender = a
      /\ named.nonce = run[r].nonce /\ named.posted = run[r].posted
  BY <1>3 DEF IsRun
<1> HIDE DEF named
<1>6. /\ s.pc = p /\ s.asked = run[r].asked /\ s.owners = run[r].owners /\ s.sender = a
      /\ s.nonce = run[r].nonce /\ s.posted = run[r].posted
  BY <1>5 DEF IsRun
<1> HIDE DEF s
<1>7. Settled(s) /\ s.pc # "idle" /\ run[r].nonce # NoValue /\ ~s.posted
  BY <1>2, <1>3, <1>6 DEF Settled, Engaged, Settling, Signed
<1>8. Left(s, files[PathOf(run[r])])
  BY <1>2, <1>6, <1>7 DEF Left
<1> QED BY <1>3, <1>4, <1>6, <1>7, <1>8, OneSettles

\* The file is opened, and empty from then on.
LEMMA OpeningKeepsFiles ==
    ASSUME SubmissionInv, FileInv, NEW r \in Runs, OpenFile(r)
    PROVE  FileInv'
<1>1. /\ UNCHANGED safe /\ run[r].pc = "filing" /\ Settled(run[r])
      /\ run[r].nonce # NoValue /\ ~run[r].posted
  BY DEF OpenFile, Truncate, At, FileInv, Settled, Engaged, Settling
<1>2. PICK next \in {"died", "filling"} :
         /\ Goto(r, next)
         /\ next = "died" => UNCHANGED files
         /\ next = "filling" => files' = [files EXCEPT ![PathOf(run[r])] = Torn]
  BY DEF OpenFile, Truncate, OutputPath, PathOf
<1>3. PICK s : /\ Becomes(r, s)
               /\ s.pc = next /\ s.asked = run[r].asked /\ s.owners = run[r].owners
               /\ s.nonce = run[r].nonce /\ s.sender = run[r].sender
               /\ s.submitted = run[r].submitted /\ s.posted = run[r].posted
               /\ TxOf(s) = TxOf(run[r])
  BY <1>2, MovedOn
<1>4. Settled(s) /\ s.pc # "idle"
  BY <1>1, <1>2, <1>3 DEF Settled, Engaged, Settling, Signed
<1>5. next = "filling" => files'[PathOf(run[r])] = Torn
  BY <1>1, <1>2, PathIsThere DEF SubmissionInv
<1>6. Left(s, files'[PathOf(run[r])])
  BY <1>1, <1>2, <1>3, <1>5 DEF Left
<1> QED BY <1>1, <1>2, <1>3, <1>4, <1>6, OneSettles

\* The file is filled with the proposal, the first time and the second.
LEMMA FillingKeepsFiles ==
    ASSUME SubmissionInv, FileInv, NEW r \in Runs, FillFile(r) \/ RefillFile(r)
    PROVE  FileInv'
<1>1. /\ UNCHANGED safe /\ run[r].pc \in {"filling", "rewriting"} /\ Settled(run[r])
      /\ run[r].nonce # NoValue /\ Engaged(run[r])
  BY DEF FillFile, RefillFile, At, FileInv, Settled, Engaged, Settling, Signed
<1>2. PICK contents \in Filled(r) : files' = [files EXCEPT ![PathOf(run[r])] = contents]
  BY DEF FillFile, RefillFile, OutputPath, PathOf
<1>3. PICK next \in {"returned", "died", "announcing"} :
         /\ Goto(r, next)
         /\ next = "announcing" => run[r].pc = "filling" /\ run[r].sender # NoValue
  <2>1. CASE FillFile(r)
    BY <2>1 DEF FillFile, AfterFiling, At
  <2>2. CASE RefillFile(r)
    BY <2>2 DEF RefillFile
  <2> QED BY <2>1, <2>2
<1>4. PICK s : /\ Becomes(r, s)
               /\ s.pc = next /\ s.asked = run[r].asked /\ s.owners = run[r].owners
               /\ s.nonce = run[r].nonce /\ s.sender = run[r].sender
               /\ s.submitted = run[r].submitted /\ s.posted = run[r].posted
               /\ TxOf(s) = TxOf(run[r])
  BY <1>3, MovedOn
<1>5. s.pc = "announcing" \/ s.posted => run[r].sender \in run[r].owners
  BY <1>1, <1>3, <1>4 DEF Settled, Signed
<1>6. Settled(s) /\ s.pc # "idle"
  BY <1>1, <1>3, <1>4, <1>5 DEF Settled, Engaged, Settling, Signed
<1>7. ASSUME Engaged(s), Alone(r) PROVE Left(s, files'[PathOf(run[r])])
  <2>1. files[PathOf(run[r])] = Torn
    BY <1>1, <1>7 DEF FileInv, Left
  <2>2. contents = Proposal(r)
    BY <1>2, <2>1 DEF Filled, OutputPath, PathOf
  <2>3. files'[PathOf(run[r])] = Proposal(r)
    BY <1>1, <1>2, <2>2, PathIsThere DEF SubmissionInv
  <2>4. s.pc = "announcing" \/ s.posted
    BY <1>3, <1>4, <1>7 DEF Engaged, Settling, Signed
  <2>5. Describes(Proposal(r), s)
    BY <1>4, <1>5, <2>4, ProposalDescribes
  <2> QED BY <1>3, <1>4, <2>3, <2>5 DEF Left
<1> QED BY <1>1, <1>2, <1>4, <1>6, <1>7, OneSettles

\* The proposal is on file when it is posted, whatever becomes of the answer.
LEMMA PostingKeepsFiles ==
    ASSUME SubmissionInv, FileInv, NEW r \in Runs, Post(r)
    PROVE  FileInv'
<1>1. PICK accepted \in BOOLEAN, answered \in BOOLEAN :
         run' = [run EXCEPT ![r].posted = accepted,
                            ![r].pc = IF accepted /\ answered THEN "accepted" ELSE "died"]
  BY DEF Post
<1> DEFINE p == IF accepted /\ answered THEN "accepted" ELSE "died"
           noted == [run[r] EXCEPT !.posted = accepted]
           s == [noted EXCEPT !.pc = p]
<1>2. /\ UNCHANGED <<safe, files>> /\ run[r].pc = "posting"
      /\ IsRun(run[r]) /\ Settled(run[r]) /\ run[r].nonce # NoValue
  BY DEF Post, At, SubmissionInv, FileInv, Settled, Engaged, Settling, Signed
<1>3. Becomes(r, s)
  BY <1>1, FieldAndPlace
<1>4. p \in {"accepted", "died"}
  OBVIOUS
<1>5. /\ IsRun(noted) /\ TxOf(noted) = TxOf(run[r])
      /\ noted.asked = run[r].asked /\ noted.owners = run[r].owners
      /\ noted.sender = run[r].sender /\ noted.nonce = run[r].nonce
  BY <1>2 DEF IsRun, TxOf
<1> HIDE DEF noted, p
<1>6. /\ s.pc = p /\ TxOf(s) = TxOf(run[r])
      /\ s.asked = run[r].asked /\ s.owners = run[r].owners
      /\ s.sender = run[r].sender /\ s.nonce = run[r].nonce
  BY <1>5 DEF IsRun, TxOf
<1> HIDE DEF s
<1>7. Settled(s) /\ s.pc # "idle"
  BY <1>2, <1>4, <1>6 DEF Settled, Engaged, Settling, Signed
<1>8. ASSUME Alone(r) PROVE Left(s, files[PathOf(run[r])])
  <2>1. Describes(files[PathOf(run[r])], run[r])
    BY <1>2, <1>8 DEF FileInv, Left, Engaged, Settling, Signed
  <2>2. Describes(files[PathOf(run[r])], s)
    BY <1>6, <2>1 DEF Describes
  <2> QED BY <1>4, <1>6, <2>2 DEF Left
<1> QED BY <1>2, <1>3, <1>6, <1>7, <1>8, OneSettles

\* The flag is set and the file opened anew.
LEMMA MarkingKeepsFiles ==
    ASSUME SubmissionInv, FileInv, NEW r \in Runs, MarkSubmitted(r)
    PROVE  FileInv'
<1> DEFINE flagged == [run[r] EXCEPT !.submitted = TRUE]
           s == [flagged EXCEPT !.pc = "rewriting"]
<1>1. /\ UNCHANGED safe /\ run[r].pc = "accepted" /\ IsRun(run[r]) /\ Settled(run[r])
      /\ run[r].nonce # NoValue
  BY DEF MarkSubmitted, At, SubmissionInv, FileInv, Settled, Engaged, Settling, Signed
<1>2. Becomes(r, s)
  <2>1. run' = [run EXCEPT ![r].submitted = TRUE, ![r].pc = "rewriting"]
    BY DEF MarkSubmitted
  <2>2. Becomes(r, [[run[r] EXCEPT !.submitted = TRUE] EXCEPT !.pc = "rewriting"])
    BY <2>1, FieldAndPlace
  <2> QED BY <2>2
<1>3. files' = [files EXCEPT ![PathOf(run[r])] = Torn]
  BY DEF MarkSubmitted, OutputPath, PathOf
<1>4. files'[PathOf(run[r])] = Torn
  BY <1>1, <1>3, PathIsThere DEF SubmissionInv
<1>5. /\ IsRun(flagged) /\ flagged.submitted = TRUE /\ flagged.posted = run[r].posted
      /\ flagged.asked = run[r].asked /\ flagged.owners = run[r].owners
      /\ flagged.sender = run[r].sender /\ flagged.nonce = run[r].nonce
  <2>1. IsRun(flagged)
    BY <1>1, FlaggedIsRun
  <2>2. flagged.submitted = TRUE
    BY <1>1 DEF IsRun
  <2>3. flagged.posted = run[r].posted
    BY <1>1 DEF IsRun
  <2>4. /\ flagged.asked = run[r].asked /\ flagged.owners = run[r].owners
        /\ flagged.sender = run[r].sender /\ flagged.nonce = run[r].nonce
    BY <1>1 DEF IsRun
  <2> QED BY <2>1, <2>2, <2>3, <2>4
<1> HIDE DEF flagged
<1>6. /\ s.pc = "rewriting" /\ s.submitted = TRUE /\ s.posted = run[r].posted
      /\ s.asked = run[r].asked /\ s.owners = run[r].owners
      /\ s.sender = run[r].sender /\ s.nonce = run[r].nonce
  BY <1>5 DEF IsRun
<1> HIDE DEF s
<1>7. Settled(s)
  BY <1>1, <1>6 DEF Settled, Engaged, Settling, Signed
<1>8. Left(s, files'[PathOf(run[r])])
  BY <1>4, <1>6 DEF Left
<1> QED BY <1>1, <1>2, <1>3, <1>6, <1>7, <1>8, OneSettles

\* Nothing an invocation knows of is changed by the Safe.
LEMMA SafeKeepsFiles ==
    ASSUME FileInv, UNCHANGED <<files, run>>, safe'.nonce \in 0..MaxNonce
    PROVE  FileInv'
<1>1. \A r \in Runs : Alone(r)' = Alone(r)
  BY DEF Alone, OutputPath
<1> QED BY <1>1 DEF FileInv

-----------------------------------------------------------------------------
(* Theorems. *)

\* What an invocation believes is so, and what a file says is so (safe.ts:250-257).
THEOREM SubmissionInvariant == Spec => []SubmissionInv
<1>1. Init => SubmissionInv
  BY StartInv
<1>2. SubmissionInv /\ [Next]_vars => SubmissionInv'
  <2> SUFFICES ASSUME SubmissionInv, [Next]_vars PROVE SubmissionInv'
    OBVIOUS
  <2>1. CASE SafeExecutes
    BY <2>1, OthersKeepInv DEF SafeExecutes
  <2>2. ASSUME NEW r \in Runs, RunStep(r) PROVE SubmissionInv'
    <3>1. CASE Start(r) \/ CheckEndpoint(r) \/ ReadStep(r) \/ CompareHash(r) \/ Sign(r)
      BY <3>1, PreparingKeepsInv
    <3>2. CASE SafeInfo(r) \/ Die(r)
      BY <3>2, MovingKeepsInv
    <3>3. CASE OpenFile(r)
      BY <3>3, OpeningKeepsInv
    <3>4. CASE FillFile(r) \/ RefillFile(r)
      BY <3>4, FillingKeepsInv
    <3>5. CASE Post(r)
      BY <3>5, PostingKeepsInv
    <3>6. CASE MarkSubmitted(r)
      BY <3>6, MarkingKeepsInv
    <3> QED BY <2>2, <3>1, <3>2, <3>3, <3>4, <3>5, <3>6 DEF RunStep
  <2>3. CASE UNCHANGED vars
    BY <2>3, OthersKeepInv DEF vars
  <2> QED BY <2>1, <2>2, <2>3 DEF Next
<1> QED BY <1>1, <1>2, PTL DEF Spec

\* A file that says submitted describes a transaction the service holds, whatever was
\* killed and whoever wrote the file last (safe.ts:252-257).
THEOREM SubmittedFilesAreRight == Spec => []SubmittedIsAccepted
<1>1. SubmissionInv => SubmittedIsAccepted
  BY DEF SubmissionInv, SubmittedIsAccepted
<1> QED BY <1>1, SubmissionInvariant, PTL

\* What an invocation has to itself on file is its proposal (safe.ts:186-257).
THEOREM FilesInvariant == Spec => []FileInv
<1>1. Init => FileInv
  BY FilesStart
<1>2. SubmissionInv /\ FileInv /\ [Next]_vars => FileInv'
  <2> SUFFICES ASSUME SubmissionInv, FileInv, [Next]_vars PROVE FileInv'
    OBVIOUS
  <2>1. CASE SafeExecutes
    <3>1. UNCHANGED <<files, run>> /\ safe'.nonce = safe.nonce + 1 /\ safe.nonce < MaxNonce
      BY <2>1 DEF SafeExecutes
    <3>2. safe'.nonce \in 0..MaxNonce
      BY <3>1, SafeAssumption DEF FileInv
    <3> QED BY <3>1, <3>2, SafeKeepsFiles
  <2>2. ASSUME NEW r \in Runs, RunStep(r) PROVE FileInv'
    <3>1. CASE Start(r)
      BY <3>1, StartingKeepsFiles
    <3>2. CASE CheckEndpoint(r) \/ CompareHash(r) \/ SafeInfo(r) \/ Die(r)
      BY <3>2, GoingOnKeepsFiles
    <3>3. CASE ReadStep(r)
      BY <3>3, ReadingKeepsFiles
    <3>4. CASE Sign(r)
      BY <3>4, SigningKeepsFiles
    <3>5. CASE OpenFile(r)
      BY <3>5, OpeningKeepsFiles
    <3>6. CASE FillFile(r) \/ RefillFile(r)
      BY <3>6, FillingKeepsFiles
    <3>7. CASE Post(r)
      BY <3>7, PostingKeepsFiles
    <3>8. CASE MarkSubmitted(r)
      BY <3>8, MarkingKeepsFiles
    <3> QED BY <2>2, <3>1, <3>2, <3>3, <3>4, <3>5, <3>6, <3>7, <3>8 DEF RunStep
  <2>3. CASE UNCHANGED vars
    <3>1. UNCHANGED <<safe, files, run>>
      BY <2>3 DEF vars
    <3>2. safe'.nonce \in 0..MaxNonce
      BY <3>1 DEF FileInv
    <3> QED BY <3>1, <3>2, SafeKeepsFiles
  <2> QED BY <2>1, <2>2, <2>3 DEF Next
<1> QED BY <1>1, <1>2, SubmissionInvariant, PTL DEF Spec

\* An invocation with a file of its own that got a proposal accepted has left the same
\* transaction there, with the signing owner among the owners listed; only the rewriting
\* that follows can lose it (safe.ts:250-256).
THEOREM PostedProposalsAreOnFile == Spec => []PostedIsOnFile
<1>1. FileInv => PostedIsOnFile
  <2> SUFFICES ASSUME FileInv, NEW r \in Runs, run[r].posted, Alone(r)
               PROVE  LET file == files[OutputPath(r)] IN
                      \/ file = Torn /\ run[r].submitted
                      \/ file.kind = "proposal" /\ file.tx = Tx(r) /\ file.sender \in file.owners
    BY DEF PostedIsOnFile
  <2>1. Left(run[r], files[PathOf(run[r])])
    BY DEF FileInv, Engaged
  <2>2. OutputPath(r) = PathOf(run[r]) /\ Tx(r) = TxOf(run[r])
    BY DEF OutputPath, PathOf, Tx, TxOf
  <2> QED BY <2>1, <2>2 DEF Left, Describes
<1> QED BY <1>1, FilesInvariant, PTL
=============================================================================

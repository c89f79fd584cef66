------------------------ MODULE PilotLifecycleProofs ------------------------
(***************************************************************************)
(* No step of the rehearsal is broadcast twice, and no evidence is verified *)
(* or refused for anything but what it says: for every set-up, every        *)
(* foreign use of the accounts, and any number of mishaps at any time.      *)
(***************************************************************************)
EXTENDS PilotLifecycle, TLAPS

\* The journal binds a label to its signed transaction before the bytes leave the process.
BoundInJournal(t) == Journaled(t.label) /\ StepOf(t.label).tx = t

\* A run that broadcasts, waits or looks at a receipt is at a step of the journal.
AtJournaledStep ==
    run.at \in {"broadcast", "waiting", "receipt"} => Journaled(Current.label)

JournalInv ==
    /\ journal = [steps |-> journal.steps, once |-> journal.once]
    /\ run = [k |-> run.k, at |-> run.at, receipt |-> run.receipt]
    /\ \A label \in DOMAIN journal.steps : StepOf(label).tx.label = label
    /\ \A t \in broadcast : BoundInJournal(t)
    /\ AtJournaledStep

-----------------------------------------------------------------------------
\* A step put into the journal leaves the cached authorizations.
LEMMA JournalPut ==
    ASSUME JournalInv, NEW STATE label, NEW STATE entry,
           journal' = [journal EXCEPT !.steps = Put(@, label, entry)]
    PROVE  journal' = [steps |-> Put(journal.steps, label, entry), once |-> journal.once]
BY DEF JournalInv

\* The two tables of a journal, one by one.
LEMMA JournalParts ==
    ASSUME NEW STATE table, NEW STATE cache, journal' = [steps |-> table, once |-> cache]
    PROVE  journal'.steps = table /\ journal' = [steps |-> journal'.steps, once |-> journal'.once]
<1>1. journal'.steps = table
  OBVIOUS
<1>2. journal'.once = cache
  OBVIOUS
<1> QED BY <1>1, <1>2

\* A step of the journal that is new, or keeps its transaction, loses nothing.
LEMMA PutKeepsBindings ==
    ASSUME JournalInv, NEW STATE label, NEW STATE entry,
           journal' = [journal EXCEPT !.steps = Put(@, label, entry)],
           entry.tx.label = label,
           Journaled(label) => entry.tx = StepOf(label).tx
    PROVE  /\ journal' = [steps |-> journal'.steps, once |-> journal'.once]
           /\ \A l \in DOMAIN journal'.steps : journal'.steps[l].tx.label = l
           /\ \A t \in broadcast :
                 t.label \in DOMAIN journal'.steps /\ journal'.steps[t.label].tx = t
           /\ DOMAIN journal'.steps = DOMAIN journal.steps \cup {label}
<1> DEFINE old == journal.steps
<1>1. PICK table : table = Put(old, label, entry)
  OBVIOUS
<1>2. /\ DOMAIN table = DOMAIN old \cup {label}
      /\ table[label] = entry
      /\ \A l \in DOMAIN old \ {label} : table[l] = old[l]
  <2>1. table = [z \in DOMAIN old \cup {label} |-> IF z = label THEN entry ELSE old[z]]
    BY <1>1 DEF Put
  <2> HIDE DEF old
  <2> QED BY <2>1
<1>3. journal'.steps = table /\ journal' = [steps |-> journal'.steps, once |-> journal'.once]
  <2>1. journal' = [steps |-> table, once |-> journal.once]
    BY <1>1, JournalPut
  <2> QED BY <2>1, JournalParts
<1>4. \A l \in DOMAIN journal.steps : journal.steps[l].tx.label = l
  BY DEF JournalInv, StepOf
<1>5. \A t \in broadcast : t.label \in DOMAIN journal.steps /\ journal.steps[t.label].tx = t
  BY DEF JournalInv, BoundInJournal, Journaled, StepOf
<1>6. label \in DOMAIN journal.steps => entry.tx = journal.steps[label].tx
  BY DEF Journaled, StepOf
<1> QED BY <1>2, <1>3, <1>4, <1>5, <1>6

\* Steps that neither write the journal nor broadcast preserve the invariant where the
\* run goes to no step that needs an entry in the journal.
LEMMA JournalUntouched ==
    ASSUME JournalInv, UNCHANGED <<journal, broadcast>>, AtJournaledStep',
           run' = [k |-> run'.k, at |-> run'.at, receipt |-> run'.receipt]
    PROVE  JournalInv'
BY DEF JournalInv, BoundInJournal, Journaled, StepOf

\* A run that ends leaves the journal and what was broadcast.
LEMMA Aborting ==
    ASSUME JournalInv, UNCHANGED <<journal, broadcast>>, Throw
    PROVE  JournalInv'
<1>1. run' = [k |-> run'.k, at |-> run'.at, receipt |-> run'.receipt] /\ AtJournaledStep'
  BY DEF Throw, Off, AtJournaledStep
<1> QED BY <1>1, JournalUntouched

\* Going on to the next step of the script.
LEMMA NextStepIsNext ==
    ASSUME NextStep
    PROVE  run' = [k |-> run'.k, at |-> run'.at, receipt |-> run'.receipt] /\ AtJournaledStep'
BY DEF NextStep, AtJournaledStep

\* What is not a step of the run leaves where the run is.
LEMMA Elsewhere ==
    ASSUME JournalInv, UNCHANGED <<journal, broadcast, run>>
    PROVE  JournalInv'
BY DEF JournalInv, BoundInJournal, Journaled, StepOf, AtJournaledStep, Current

\* At first nothing is journaled and nothing was broadcast.
LEMMA StartHasNothing == ASSUME Init PROVE JournalInv
BY DEF Init, JournalInv, AtJournaledStep, Off, BoundInJournal, Journaled, StepOf

-----------------------------------------------------------------------------
\* Signing a step binds its label, once.
LEMMA SigningBinds ==
    ASSUME JournalInv, SignAndSave
    PROVE  JournalInv'
<1>1. CASE Overwrites(Current.label)
  <2>1. Throw /\ UNCHANGED <<journal, broadcast>>
    BY <1>1 DEF SignAndSave
  <2> QED BY <2>1, Aborting
<1>2. CASE ~Overwrites(Current.label)
  <2> DEFINE entry == [tx |-> SignedTransaction, block |-> NoBlock]
             label == Current.label
  <2>1. /\ journal' = [journal EXCEPT !.steps = Put(@, label, entry)]
        /\ UNCHANGED <<run, broadcast>>
        /\ ~Journaled(label)
        /\ run.at = "next"
    BY <1>2 DEF SignAndSave, At
  <2>2. entry.tx.label = label
    BY DEF SignedTransaction, Transaction
  <2> HIDE DEF entry, label
  <2>3. /\ journal' = [steps |-> journal'.steps, once |-> journal'.once]
        /\ \A l \in DOMAIN journal'.steps : journal'.steps[l].tx.label = l
        /\ \A t \in broadcast :
              t.label \in DOMAIN journal'.steps /\ journal'.steps[t.label].tx = t
    BY <2>1, <2>2, PutKeepsBindings
  <2> QED BY <2>1, <2>3 DEF JournalInv, BoundInJournal, Journaled, StepOf, AtJournaledStep
<1> QED BY <1>1, <1>2

\* What is broadcast is what the journal has for the step.
LEMMA SendingIsBound ==
    ASSUME JournalInv, SendRawTransaction
    PROVE  JournalInv'
<1> DEFINE tx == StepOf(Current.label).tx
<1>1. Journaled(Current.label) /\ UNCHANGED journal
  BY DEF JournalInv, AtJournaledStep, SendRawTransaction, At
<1>2. BoundInJournal(tx)
  BY <1>1 DEF JournalInv, BoundInJournal, Journaled, StepOf
<1>3. \/ broadcast' = broadcast \cup {tx} /\ Goto("waiting")
      \/ Throw /\ UNCHANGED broadcast
  BY DEF SendRawTransaction
<1>4. CASE Throw /\ UNCHANGED broadcast
  BY <1>1, <1>4, Aborting
<1>5. CASE broadcast' = broadcast \cup {tx} /\ Goto("waiting")
  <2>1. /\ run' = [k |-> run'.k, at |-> run'.at, receipt |-> run'.receipt]
        /\ run'.k = run.k
    BY <1>5 DEF Goto, JournalInv
  <2>2. AtJournaledStep'
    BY <1>1, <2>1 DEF AtJournaledStep, Journaled, Current
  <2>3. (\A t \in broadcast : BoundInJournal(t))'
    BY <1>1, <1>2, <1>5 DEF JournalInv, BoundInJournal, Journaled, StepOf
  <2>4. (\A l \in DOMAIN journal.steps : StepOf(l).tx.label = l)'
    BY <1>1 DEF JournalInv, StepOf
  <2> QED BY <1>1, <2>1, <2>2, <2>3, <2>4 DEF JournalInv
<1> QED BY <1>3, <1>4, <1>5

\* A receipt is added to a step without changing its transaction.
LEMMA FinishingKeepsBindings ==
    ASSUME JournalInv, FinishSend
    PROVE  JournalInv'
<1> DEFINE label == Current.label
           entry == [StepOf(label) EXCEPT !.block = Checkpoint(run.receipt.number)]
<1>1. Journaled(label) /\ UNCHANGED broadcast
  BY DEF JournalInv, AtJournaledStep, FinishSend, At
<1>2. \/ Throw /\ UNCHANGED journal
      \/ journal' = [journal EXCEPT !.steps = Put(@, label, entry)] /\ NextStep
  BY DEF FinishSend
<1>3. CASE Throw /\ UNCHANGED journal
  BY <1>1, <1>3, Aborting
<1>4. CASE journal' = [journal EXCEPT !.steps = Put(@, label, entry)] /\ NextStep
  <2>1. entry.tx = StepOf(label).tx
    OBVIOUS
  <2>2. entry.tx.label = label
    BY <1>1, <2>1 DEF JournalInv, Journaled
  <2>3. run' = [k |-> run'.k, at |-> run'.at, receipt |-> run'.receipt] /\ AtJournaledStep'
    BY <1>4, NextStepIsNext
  <2> HIDE DEF entry, label
  <2>4. /\ journal' = [steps |-> journal'.steps, once |-> journal'.once]
        /\ \A l \in DOMAIN journal'.steps : journal'.steps[l].tx.label = l
        /\ \A t \in broadcast :
              t.label \in DOMAIN journal'.steps /\ journal'.steps[t.label].tx = t
    BY <1>4, <2>1, <2>2, PutKeepsBindings
  <2> QED BY <1>1, <2>3, <2>4 DEF JournalInv, BoundInJournal, Journaled, StepOf
<1> QED BY <1>2, <1>3, <1>4

\* A run that looks for a receipt is at a journaled step.
LEMMA LookingIsJournaled ==
    ASSUME JournalInv, LookForReceipt
    PROVE  JournalInv'
<1>1. Journaled(Current.label) /\ UNCHANGED <<journal, broadcast>>
  BY DEF LookForReceipt
<1>2. /\ run' = [k |-> run'.k, at |-> run'.at, receipt |-> run'.receipt]
      /\ run'.k = run.k
  BY DEF LookForReceipt, Goto, GotReceipt, JournalInv
<1>3. AtJournaledStep'
  BY <1>1, <1>2 DEF AtJournaledStep, Journaled, Current
<1> QED BY <1>1, <1>2, <1>3, JournalUntouched

\* A run that waits is at a journaled step.
LEMMA WaitingIsJournaled ==
    ASSUME JournalInv, WaitForReceipt
    PROVE  JournalInv'
<1>1. Journaled(Current.label) /\ UNCHANGED <<journal, broadcast>>
  BY DEF WaitForReceipt, At, JournalInv, AtJournaledStep
<1>2. /\ run' = [k |-> run'.k, at |-> run'.at, receipt |-> run'.receipt]
      /\ run'.k = run.k
  BY DEF WaitForReceipt, GotReceipt, JournalInv
<1>3. AtJournaledStep'
  BY <1>1, <1>2 DEF AtJournaledStep, Journaled, Current
<1> QED BY <1>1, <1>2, <1>3, JournalUntouched

\* The cache of signed authorizations is a part of the journal of its own.
LEMMA CachingKeepsBindings ==
    ASSUME JournalInv, OnceSigned
    PROVE  JournalInv'
<1>1. UNCHANGED broadcast
  BY DEF OnceSigned
<1>2. \/ Throw /\ UNCHANGED journal
      \/ NextStep /\ UNCHANGED journal
      \/ NextStep /\ \E signed : journal' = [journal EXCEPT !.once = Put(@, Current.label, signed)]
  BY DEF OnceSigned
<1>3. CASE Throw /\ UNCHANGED journal
  BY <1>1, <1>3, Aborting
<1>4. CASE NextStep
  <2>1. run' = [k |-> run'.k, at |-> run'.at, receipt |-> run'.receipt] /\ AtJournaledStep'
    BY <1>4, NextStepIsNext
  <2>2. /\ journal' = [steps |-> journal'.steps, once |-> journal'.once]
        /\ journal'.steps = journal.steps
    BY <1>2, <1>4 DEF JournalInv, Throw, NextStep, Off
  <2> QED BY <1>1, <2>1, <2>2 DEF JournalInv, BoundInJournal, Journaled, StepOf
<1> QED BY <1>2, <1>3, <1>4

-----------------------------------------------------------------------------
\* The chain, time and other use of the accounts leave the journal.
LEMMA EnvironmentKeepsJournal ==
    ASSUME JournalInv, Environment \/ Build
    PROVE  JournalInv'
<1>1. UNCHANGED <<journal, broadcast, run>>
  BY DEF Environment, Build, Mine, UseElsewhere, Seal, Forget, Reorg, Pause, ComeBack
<1> QED BY <1>1, Elsewhere

\* The verification of the evidence only reads.
LEMMA VerificationKeepsJournal ==
    ASSUME JournalInv,
           Start \/ Complete \/ VerifyNext \/ StartRecheck \/ Recheck \/ Verified
    PROVE  JournalInv'
<1>1. UNCHANGED <<journal, broadcast>>
  BY DEF Start, Complete, VerifyNext, StartRecheck, Recheck, Verified
<1>2. run = [k |-> run.k, at |-> run.at, receipt |-> run.receipt]
  BY DEF JournalInv
<1>3. /\ run' = [k |-> run'.k, at |-> run'.at, receipt |-> run'.receipt]
      /\ run'.at \in {"next", "reading", "recheck", "verified", "off"}
  <2>1. CASE Start \/ Complete
    BY <2>1 DEF Start, Complete
  <2>2. CASE VerifyNext
    BY <1>2, <2>2 DEF VerifyNext, Off
  <2>3. CASE StartRecheck
    BY <1>2, <2>3 DEF StartRecheck
  <2>4. CASE Recheck
    BY <1>2, <2>4 DEF Recheck, Off
  <2>5. CASE Verified
    BY <1>2, <2>5 DEF Verified, Goto
  <2> QED BY <2>1, <2>2, <2>3, <2>4, <2>5
<1>4. AtJournaledStep'
  BY <1>3 DEF AtJournaledStep
<1> QED BY <1>1, <1>3, <1>4, JournalUntouched

\* Stopping a run leaves the journal.
LEMMA StoppingKeepsJournal ==
    ASSUME JournalInv, Crash \/ TimeOut \/ Timelock
    PROVE  JournalInv'
<1>1. UNCHANGED <<journal, broadcast>> /\ (Throw \/ NextStep)
  BY DEF Crash, TimeOut, Timelock
<1>2. CASE Throw
  BY <1>1, <1>2, Aborting
<1>3. CASE NextStep
  BY <1>1, <1>3, NextStepIsNext, JournalUntouched
<1> QED BY <1>1, <1>2, <1>3

-----------------------------------------------------------------------------
(* Theorems. *)

\* What was broadcast is what the journal has for its step, at every moment of every
\* run of lifecycle-v2.mjs.
THEOREM JournalInvariant == Spec => []JournalInv
<1>1. Init => JournalInv
  BY StartHasNothing
<1>2. JournalInv /\ [Next]_vars => JournalInv'
  <2> SUFFICES ASSUME JournalInv, [Next]_vars PROVE JournalInv'
    OBVIOUS
  <2>1. CASE Environment \/ Build
    BY <2>1, EnvironmentKeepsJournal
  <2>2. CASE Start \/ Complete \/ VerifyNext \/ StartRecheck \/ Recheck \/ Verified
    BY <2>2, VerificationKeepsJournal
  <2>3. CASE Crash \/ TimeOut \/ Timelock
    BY <2>3, StoppingKeepsJournal
  <2>4. CASE SignAndSave
    BY <2>4, SigningBinds
  <2>5. CASE LookForReceipt
    BY <2>5, LookingIsJournaled
  <2>6. CASE SendRawTransaction
    BY <2>6, SendingIsBound
  <2>7. CASE WaitForReceipt
    BY <2>7, WaitingIsJournaled
  <2>8. CASE FinishSend
    BY <2>8, FinishingKeepsBindings
  <2>9. CASE OnceSigned
    BY <2>9, CachingKeepsBindings
  <2>10. CASE UNCHANGED vars
    BY <2>10, Elsewhere DEF vars
  <2> QED
    BY <2>1, <2>2, <2>3, <2>4, <2>5, <2>6, <2>7, <2>8, <2>9, <2>10 DEF Next, RunStep
<1> QED BY <1>1, <1>2, PTL DEF Spec

\* However often the script is stopped and resumed, one transaction at most is ever
\* broadcast for each of its steps (lifecycle-v2.mjs:12, 23-26).
THEOREM OneTransaction == Spec => []OneTransactionPerStep
<1>1. JournalInv => OneTransactionPerStep
  BY DEF JournalInv, BoundInJournal, OneTransactionPerStep
<1> QED BY <1>1, JournalInvariant, PTL

-----------------------------------------------------------------------------
(* The script. *)

Has(s, x) == \E i \in DOMAIN s : s[i] = x

\* A concatenation is a sequence and has what either part has.
LEMMA Concatenation ==
    ASSUME NEW A, NEW B, NEW s \in Seq(A), NEW t \in Seq(B)
    PROVE  /\ s \o t \in Seq(A \cup B)
           /\ \A x : Has(s, x) \/ Has(t, x) => Has(s \o t, x)
<1>1. s \in Seq(A \cup B) /\ t \in Seq(A \cup B)
  OBVIOUS
<1>2. s \o t \in Seq(A \cup B) /\ Len(s \o t) = Len(s) + Len(t)
  BY <1>1
<1>3. ASSUME NEW x, Has(s, x) PROVE Has(s \o t, x)
  <2>1. PICK i \in DOMAIN s : s[i] = x
    BY <1>3 DEF Has
  <2>2. i \in DOMAIN (s \o t) /\ (s \o t)[i] = x
    BY <1>1, <1>2, <2>1
  <2> QED BY <2>2 DEF Has
<1>4. ASSUME NEW x, Has(t, x) PROVE Has(s \o t, x)
  <2>1. PICK i \in DOMAIN t : t[i] = x
    BY <1>4 DEF Has
  <2>2. Len(s) + i \in DOMAIN (s \o t) /\ (s \o t)[Len(s) + i] = x
    BY <1>1, <1>2, <2>1
  <2> QED BY <2>2 DEF Has
<1> QED BY <1>2, <1>3, <1>4

\* A pair is a sequence.
LEMMA PairIsSequence == ASSUME NEW x, NEW y PROVE \E A : <<x, y>> \in Seq(A)
<1>1. <<x, y>> \in Seq({x, y})
  OBVIOUS
<1> QED BY <1>1

\* Concatenation, where the elements do not matter.
LEMMA ConcatenationOfAny ==
    ASSUME NEW s, NEW t, \E A : s \in Seq(A), \E B : t \in Seq(B)
    PROVE  /\ \E C : s \o t \in Seq(C)
           /\ \A x : Has(s, x) \/ Has(t, x) => Has(s \o t, x)
<1>1. PICK A : s \in Seq(A)
  OBVIOUS
<1>2. PICK B : t \in Seq(B)
  OBVIOUS
<1>3. s \o t \in Seq(A \cup B) /\ \A x : Has(s, x) \/ Has(t, x) => Has(s \o t, x)
  BY <1>1, <1>2, Concatenation
<1> QED BY <1>3

\* The grants of a round are a sequence of steps.
LEMMA GrantsAreSteps == ASSUME NEW label PROVE \E A : Grants(label) \in Seq(A)
<1> DEFINE a == Granting(label \o "-liquidityProvider", "liquidityProvider")
           b == Granting(label \o "-institutionA", "institutionA")
           c == Granting(label \o "-institutionB", "institutionB")
<1>1. /\ \E A : a \in Seq(A)
      /\ \E A : b \in Seq(A)
      /\ \E A : c \in Seq(A)
  BY PairIsSequence DEF Granting
<1>2. Grants(label) = (a \o b) \o c
  BY DEF Grants
<1> HIDE DEF a, b, c
<1>3. \E A : a \o b \in Seq(A)
  BY <1>1, ConcatenationOfAny
<1>4. \E A : (a \o b) \o c \in Seq(A)
  BY <1>1, <1>3, ConcatenationOfAny
<1> QED BY <1>2, <1>4

\* The script is a sequence, in which each of the cases is quoted and executed.
LEMMA CasesAreExecuted ==
    /\ \E A : Script \in Seq(A)
    /\ \A name \in {"revision", "execution", "revocation"} :
          Has(Script, Quote(name)) /\ Has(Script, Execute(name))
<1> DEFINE p1 == << Send("proposePolicyChange", "issuer", "configure", "none"),
                    Step("timelock", "timelock", "none", "none", "none"),
                    Send("issueliquidityProvider", "issuer", "issue", "liquidityProvider"),
                    Send("issueinstitutionA", "issuer", "issue", "institutionA"),
                    Send("issueinstitutionB", "issuer", "issue", "institutionB") >>
           p2 == << Quote("revision"), Send("activatePolicyChange", "issuer", "activate", "none"),
                    Execute("revision") >>
           p3 == << Quote("execution"), Execute("execution"),
                    Quote("revocation"),
                    Send("revokeInstitutionA", "issuer", "revoke", "institutionA"),
                    Execute("revocation"),
                    Send("revokeLp", "issuer", "revoke", "liquidityProvider"),
                    Send("disablePolicy", "issuer", "disable", "none") >>
           g1 == Grants("initialGrant")
           g2 == Grants("updatedGrant")
           l1 == Lp("add")
           l2 == Lp("collect")
           l3 == Lp("exit")
           s1 == p1 \o Setup
           s2 == s1 \o g1
           s3 == s2 \o l1
           s4 == s3 \o p2
           s5 == s4 \o g2
           s6 == s5 \o p3
           s7 == s6 \o l2
<1>1. Script = s7 \o l3
  BY DEF Script
<1>2. \E A : p1 \in Seq(A)
  <2>1. ASSUME NEW a, NEW b, NEW c, NEW d, NEW e
        PROVE  \E A : <<a, b, c, d, e>> \in Seq(A)
    <3>1. <<a, b, c, d, e>> \in Seq({a, b, c, d, e})
      OBVIOUS
    <3> QED BY <3>1
  <2> QED BY <2>1
<1>3. (\E A : p2 \in Seq(A)) /\ Has(p2, Quote("revision")) /\ Has(p2, Execute("revision"))
  <2>1. ASSUME NEW a, NEW b, NEW c
        PROVE  (\E A : <<a, b, c>> \in Seq(A)) /\ Has(<<a, b, c>>, a) /\ Has(<<a, b, c>>, c)
    <3>1. /\ <<a, b, c>> \in Seq({a, b, c})
          /\ 1 \in DOMAIN <<a, b, c>> /\ <<a, b, c>>[1] = a
          /\ 3 \in DOMAIN <<a, b, c>> /\ <<a, b, c>>[3] = c
      OBVIOUS
    <3> QED BY <3>1 DEF Has
  <2> QED BY <2>1
<1>4. /\ \E A : p3 \in Seq(A)
      /\ Has(p3, Quote("execution")) /\ Has(p3, Execute("execution"))
      /\ Has(p3, Quote("revocation")) /\ Has(p3, Execute("revocation"))
  <2>1. ASSUME NEW a, NEW b, NEW c, NEW d, NEW e, NEW f, NEW g
        PROVE  /\ \E A : <<a, b, c, d, e, f, g>> \in Seq(A)
               /\ Has(<<a, b, c, d, e, f, g>>, a) /\ Has(<<a, b, c, d, e, f, g>>, b)
               /\ Has(<<a, b, c, d, e, f, g>>, c) /\ Has(<<a, b, c, d, e, f, g>>, e)
    <3>1. /\ <<a, b, c, d, e, f, g>> \in Seq({a, b, c, d, e, f, g})
          /\ DOMAIN <<a, b, c, d, e, f, g>> = 1..7
          /\ <<a, b, c, d, e, f, g>>[1] = a /\ <<a, b, c, d, e, f, g>>[2] = b
          /\ <<a, b, c, d, e, f, g>>[3] = c /\ <<a, b, c, d, e, f, g>>[5] = e
      OBVIOUS
    <3> DEFINE s == <<a, b, c, d, e, f, g>>
    <3>2. /\ s \in Seq({a, b, c, d, e, f, g}) /\ DOMAIN s = 1..7
          /\ s[1] = a /\ s[2] = b /\ s[3] = c /\ s[5] = e
      BY <3>1
    <3> HIDE DEF s
    <3>3. (\E A : s \in Seq(A)) /\ Has(s, a) /\ Has(s, b) /\ Has(s, c) /\ Has(s, e)
      BY <3>2 DEF Has
    <3> QED BY <3>3 DEF s
  <2> QED BY <2>1
<1>5. (\E A : g1 \in Seq(A)) /\ (\E A : g2 \in Seq(A))
  BY GrantsAreSteps
<1>6. (\E A : l1 \in Seq(A)) /\ (\E A : l2 \in Seq(A)) /\ (\E A : l3 \in Seq(A))
  BY PairIsSequence DEF Lp
<1>7. \E A : Setup \in Seq(A)
  BY LifecycleAssumption
<1> HIDE DEF p1, p2, p3, g1, g2, l1, l2, l3
<1>8. \E A : s1 \in Seq(A)
  BY <1>2, <1>7, ConcatenationOfAny
<1> HIDE DEF s1
<1>9. \E A : s2 \in Seq(A)
  BY <1>5, <1>8, ConcatenationOfAny
<1> HIDE DEF s2
<1>10. \E A : s3 \in Seq(A)
  BY <1>6, <1>9, ConcatenationOfAny
<1> HIDE DEF s3
<1>11. (\E A : s4 \in Seq(A)) /\ Has(s4, Quote("revision")) /\ Has(s4, Execute("revision"))
  BY <1>3, <1>10, ConcatenationOfAny
<1> HIDE DEF s4
<1>12. (\E A : s5 \in Seq(A)) /\ Has(s5, Quote("revision")) /\ Has(s5, Execute("revision"))
  BY <1>5, <1>11, ConcatenationOfAny
<1> HIDE DEF s5
<1>13. (\E A : s6 \in Seq(A))
       /\ \A name \in {"revision", "execution", "revocation"} :
             Has(s6, Quote(name)) /\ Has(s6, Execute(name))
  BY <1>4, <1>12, ConcatenationOfAny
<1> HIDE DEF s6
<1>14. (\E A : s7 \in Seq(A))
       /\ \A name \in {"revision", "execution", "revocation"} :
             Has(s7, Quote(name)) /\ Has(s7, Execute(name))
  BY <1>6, <1>13, ConcatenationOfAny
<1> HIDE DEF s7
<1> QED BY <1>1, <1>6, <1>14, ConcatenationOfAny

\* The places of the script are numbers from one, and each case has a row of its name.
LEMMA RowsOfTheScript ==
    /\ Len(Script) \in Nat /\ DOMAIN Script = 1..Len(Script)
    /\ \A i \in Rows : i \in Nat \ {0} /\ Reading(i) \in Nat \ {0}
    /\ \A name \in {"revision", "execution", "revocation"} :
          \E i \in Rows : Row(i) = name /\ Script[i].kind = "execute"
<1>1. PICK A : Script \in Seq(A)
  BY CasesAreExecuted
<1>2. Len(Script) \in Nat /\ DOMAIN Script = 1..Len(Script)
  BY <1>1
<1>3. ASSUME NEW i \in Rows PROVE i \in Nat \ {0} /\ Reading(i) \in Nat \ {0}
  <2>1. i \in Nat \ {0}
    BY <1>2, <1>3 DEF Rows
  <2>2. Pass(Script[i]) \in {0, 1, 2}
    BY DEF Pass
  <2>3. Pass(Script[i]) * Len(Script) \in Nat
    <3>1. 0 * Len(Script) \in Nat /\ 1 * Len(Script) \in Nat /\ 2 * Len(Script) \in Nat
      BY <1>2
    <3> QED BY <2>2, <3>1
  <2> QED BY <2>1, <2>3 DEF Reading
<1>4. ASSUME NEW name \in {"revision", "execution", "revocation"}
      PROVE  \E i \in Rows : Row(i) = name /\ Script[i].kind = "execute"
  <2>1. PICK i \in DOMAIN Script : Script[i] = Execute(name)
    BY CasesAreExecuted DEF Has
  <2>2. i \in Rows /\ Row(i) = name /\ Script[i].kind = "execute"
    BY <2>1 DEF Rows, Row, Execute, Send, Step
  <2> QED BY <2>2
<1> QED BY <1>2, <1>3, <1>4

-----------------------------------------------------------------------------
(* The chain. *)

\* What the properties look at in a contract state.
Fields == {"revision", "enabled", "valid", "banned", "spent", "grants"}

\* The hash of a block is a number that was used before for no other, and the states
\* behind blocks have what the contracts have.
ChainInv ==
    /\ \E A : chain \in Seq(A)
    /\ Len(chain) >= 1
    /\ blocks \in Nat
    /\ \A i \in DOMAIN chain : chain[i].id \in 0..blocks /\ Fields \subseteq DOMAIN chain[i].world
    /\ Fields \subseteq DOMAIN building.world

\* A chain that is appended to.
LEMMA ChainAppended ==
    ASSUME \E A : chain \in Seq(A), NEW STATE b, chain' = Append(chain, b)
    PROVE  /\ \E A : chain' \in Seq(A)
           /\ DOMAIN chain = 1..Len(chain) /\ DOMAIN chain' = 1..(Len(chain) + 1)
           /\ Len(chain) \in Nat /\ Len(chain') = Len(chain) + 1
           /\ \A i \in DOMAIN chain : chain'[i] = chain[i]
           /\ chain'[Len(chain) + 1] = b
<1>1. PICK A : chain \in Seq(A)
  OBVIOUS
<1>2. chain \in Seq(A \cup {b})
  BY <1>1
<1>3. Append(chain, b) \in Seq(A \cup {b})
  BY <1>2
<1>4. \E B : chain' \in Seq(B)
  BY <1>3
<1> QED BY <1>2, <1>4

\* A chain whose last block is taken off.
LEMMA ChainShortened ==
    ASSUME \E A : chain \in Seq(A), Len(chain) > 1, chain' = Front(chain)
    PROVE  /\ \E A : chain' \in Seq(A)
           /\ DOMAIN chain = 1..Len(chain) /\ DOMAIN chain' = 1..(Len(chain) - 1)
           /\ Len(chain) \in Nat /\ Len(chain') = Len(chain) - 1
           /\ \A i \in DOMAIN chain' : chain'[i] = chain[i]
<1>1. PICK A : chain \in Seq(A)
  OBVIOUS
<1>2. chain' = SubSeq(chain, 1, Len(chain) - 1)
  BY DEF Front
<1>3. /\ Len(chain) \in Nat /\ DOMAIN chain = 1..Len(chain)
      /\ \A i \in 1..Len(chain) : chain[i] \in A
  BY <1>1
<1>4. chain' = [i \in 1..(Len(chain) - 1) |-> chain[i]]
  BY <1>2, <1>3
<1>5. chain' \in Seq(A) /\ Len(chain') = Len(chain) - 1
  BY <1>2, <1>1, <1>3
<1> QED BY <1>3, <1>4, <1>5

\* No action of a contract takes a field from its state.
LEMMA FieldsStay ==
    ASSUME NEW w, NEW tx, NEW time, Fields \subseteq DOMAIN w
    PROVE  Fields \subseteq DOMAIN After(w, tx, time)
<1>1. DOMAIN After(w, tx, time) = DOMAIN w
  BY DEF After
<1> QED BY <1>1

\* A new block is known by a hash of its own, and what is under an old one stays.
PrefixKept ==
    \A n \in DOMAIN chain' : chain'[n].id <= blocks =>
        n \in DOMAIN chain /\ \A i \in 1..n : chain'[i] = chain[i]

\* A chain that is left keeps all of its blocks.
LEMMA PrefixLeft == ASSUME ChainInv, UNCHANGED <<chain, blocks>> PROVE PrefixKept /\ blocks' >= blocks
<1>1. DOMAIN chain = 1..Len(chain)
  BY DEF ChainInv
<1> QED BY <1>1 DEF PrefixKept, ChainInv

\* A transaction that is included in the next block changes the state behind that.
LEMMA IncludeKeepsChain ==
    ASSUME ChainInv, NEW tx, Include(tx)
    PROVE  ChainInv' /\ PrefixKept /\ blocks' >= blocks
<1>1. UNCHANGED <<chain, blocks>>
  BY DEF Include
<1>2. Fields \subseteq DOMAIN Here
  <2>1. Fields \subseteq DOMAIN Now
    BY DEF ChainInv, Now, Last
  <2> QED BY <2>1 DEF ChainInv, Here
<1>3. \/ building'.world = Here
      \/ building'.world = After(Here, tx, clock)
  BY DEF Include
<1>4. Fields \subseteq DOMAIN building'.world
  BY <1>2, <1>3, FieldsStay
<1>5. ChainInv'
  BY <1>1, <1>4 DEF ChainInv
<1> QED BY <1>1, <1>5, PrefixLeft

\* The next block is put at the end of the chain, under a hash of its own.
LEMMA SealKeepsChain ==
    ASSUME ChainInv, Seal
    PROVE  ChainInv' /\ PrefixKept /\ blocks' >= blocks
<1> DEFINE b == [txs |-> building.txs, id |-> blocks + 1, time |-> clock, world |-> building.world]
           n == Len(chain) + 1
<1>1. chain' = Append(chain, b) /\ blocks' = blocks + 1 /\ blocks \in Nat /\ building' = Nothing
  BY DEF Seal, ChainInv
<1>2. b.id = blocks + 1 /\ Fields \subseteq DOMAIN b.world
  BY DEF ChainInv
<1>3. Fields \subseteq DOMAIN building'.world
  BY <1>1 DEF Nothing, Deployed, Fields
<1> HIDE DEF b
<1>4. /\ \E A : chain' \in Seq(A)
      /\ DOMAIN chain = 1..Len(chain) /\ DOMAIN chain' = 1..n
      /\ Len(chain) \in Nat /\ Len(chain') = n
      /\ \A i \in DOMAIN chain : chain'[i] = chain[i]
      /\ chain'[n] = b
  BY <1>1, ChainAppended DEF ChainInv
<1>5. \A i \in DOMAIN chain' :
         chain'[i].id \in 0..blocks' /\ Fields \subseteq DOMAIN chain'[i].world
  <2>1. \A i \in DOMAIN chain :
           chain[i].id \in 0..blocks /\ Fields \subseteq DOMAIN chain[i].world
    BY DEF ChainInv
  <2>2. \A i \in DOMAIN chain' : i \in DOMAIN chain \/ i = n
    BY <1>4
  <2> QED BY <1>1, <1>2, <1>4, <2>1, <2>2
<1>6. ChainInv'
  <2>1. Len(chain') >= 1 /\ blocks' \in Nat
    BY <1>1, <1>4
  <2> QED BY <1>3, <1>4, <1>5, <2>1 DEF ChainInv
<1>7. PrefixKept
  BY <1>1, <1>2, <1>4 DEF PrefixKept
<1> QED BY <1>1, <1>6, <1>7

\* The last block is taken off.
LEMMA ReorgKeepsChain ==
    ASSUME ChainInv, Reorg
    PROVE  ChainInv' /\ PrefixKept /\ blocks' >= blocks
<1>1. /\ \E A : chain' \in Seq(A)
      /\ DOMAIN chain = 1..Len(chain) /\ DOMAIN chain' = 1..(Len(chain) - 1)
      /\ Len(chain) \in Nat /\ Len(chain') = Len(chain) - 1 /\ Len(chain) > 1
      /\ \A i \in DOMAIN chain' : chain'[i] = chain[i]
      /\ UNCHANGED <<blocks, building>> /\ blocks \in Nat
  <2>1. /\ Len(chain) > 1 /\ chain' = Front(chain) /\ UNCHANGED <<blocks, building>>
        /\ blocks \in Nat
    BY DEF Reorg, ChainInv
  <2> QED BY <2>1, ChainShortened DEF ChainInv
<1>2. \A i \in DOMAIN chain' : i \in DOMAIN chain
  BY <1>1
<1>3. ChainInv'
  <2>1. Len(chain') >= 1
    BY <1>1
  <2> QED BY <1>1, <1>2, <2>1 DEF ChainInv
<1>4. PrefixKept
  BY <1>1 DEF PrefixKept
<1> QED BY <1>1, <1>3, <1>4

\* Steps that leave the chain.
LEMMA ChainLeft ==
    ASSUME ChainInv, UNCHANGED <<chain, building, blocks>>
    PROVE  ChainInv' /\ PrefixKept /\ blocks' >= blocks
<1>1. ChainInv'
  BY DEF ChainInv
<1> QED BY <1>1, PrefixLeft

\* Every step keeps what is behind an old hash.
LEMMA ChainStep ==
    ASSUME ChainInv, [Next]_vars
    PROVE  ChainInv' /\ PrefixKept /\ blocks' >= blocks
<1>1. CASE Mine \/ UseElsewhere
  <2>1. PICK tx : Include(tx)
    BY <1>1 DEF Mine, UseElsewhere
  <2> QED BY <2>1, IncludeKeepsChain
<1>2. CASE Seal
  BY <1>2, SealKeepsChain
<1>3. CASE Reorg
  BY <1>3, ReorgKeepsChain
<1>4. CASE Forget \/ Pause \/ ComeBack \/ Start \/ Crash \/ RunStep \/ UNCHANGED vars
  <2>1. UNCHANGED <<chain, building, blocks>>
    BY <1>4 DEF Forget, Pause, ComeBack, Start, Crash, RunStep, vars, ledger, SignAndSave,
       LookForReceipt, SendRawTransaction, WaitForReceipt, TimeOut, FinishSend, OnceSigned,
       Timelock, Complete, VerifyNext, StartRecheck, Recheck, Verified
  <2> QED BY <2>1, ChainLeft
<1> QED BY <1>1, <1>2, <1>3, <1>4 DEF Next, Build, Environment

\* The chain of the deployment.
LEMMA ChainStarts == ASSUME Init PROVE ChainInv
<1>1. chain = <<Genesis>> /\ blocks = 1 /\ building = Nothing
  BY DEF Init
<1>2. chain \in Seq({Genesis}) /\ Len(chain) = 1 /\ DOMAIN chain = {1} /\ chain[1] = Genesis
  BY <1>1
<1>3. Genesis.id = 1 /\ Fields \subseteq DOMAIN Genesis.world /\ Fields \subseteq DOMAIN Nothing.world
  BY DEF Genesis, Nothing, Deployed, Fields
<1>4. \E A : chain \in Seq(A)
  BY <1>2
<1> QED BY <1>1, <1>2, <1>3, <1>4 DEF ChainInv

-----------------------------------------------------------------------------
(* The verification. *)

\* What was read of a row holds as long as its checkpoint is on the chain.
Kept(i) ==
    /\ StepOf(Row(i)).block.id \in 0..blocks
    /\ CheckpointStands(Row(i)) =>
          /\ RowStands(Row(i))
          /\ Script[i].kind = "execute" => CaseStands(Row(i))

\* A checkpoint that is gone does not come back, nor what was read change under
\* one that is not: while the evidence is read, checked once more and verified.
ReadingInv ==
    /\ run.at \in {"reading", "recheck"} => run.k \in Nat
    /\ \A i \in Rows :
          \/ run.at \in {"recheck", "verified"}
          \/ run.at = "reading" /\ Reading(i) < run.k
          => Kept(i)
    /\ run.at = "recheck" =>
          stood \/ \E i \in Rows : i >= run.k /\ ~CheckpointStands(Row(i))
    /\ run.at = "verified" => stood

VerificationInv == JournalInv /\ ChainInv /\ ReadingInv

\* A checkpoint that stands afterwards stood before, on the same blocks.
LEMMA CheckpointStood ==
    ASSUME ChainInv, PrefixKept, UNCHANGED journal, NEW label,
           StepOf(label).block.id \in 0..blocks, CheckpointStands(label)'
    PROVE  /\ CheckpointStands(label)
           /\ StepOf(label).block.number \in DOMAIN chain'
           /\ \A i \in 1..StepOf(label).block.number : chain'[i] = chain[i]
<1> DEFINE b == StepOf(label).block
           n == b.number
<1>1. StepOf(label)' = StepOf(label)
  BY DEF StepOf
<1>2. n \in DOMAIN chain' /\ chain'[n].id = b.id
  BY <1>1 DEF CheckpointStands
<1>3. chain'[n].id <= blocks
  BY <1>2 DEF ChainInv
<1>4. n \in DOMAIN chain /\ \A i \in 1..n : chain'[i] = chain[i]
  BY <1>2, <1>3 DEF PrefixKept
<1>5. n \in 1..n
  BY <1>4 DEF ChainInv
<1> QED BY <1>2, <1>4, <1>5 DEF CheckpointStands

\* A row on the same blocks stands.
LEMMA RowKept ==
    ASSUME ChainInv, ChainInv', UNCHANGED journal, NEW label, RowStands(label),
           NEW m, m \in DOMAIN chain', StepOf(label).block.number \in 1..m,
           \A i \in 1..m : chain'[i] = chain[i]
    PROVE  RowStands(label)'
<1> DEFINE b == StepOf(label).block
           n == b.number
<1>1. StepOf(label)' = StepOf(label)
  BY DEF StepOf
<1>2. n \in DOMAIN chain /\ Checkpoint(n) = b
      /\ [tx |-> StepOf(label).tx, ok |-> Expected(label)] \in Receipts(n)
  BY DEF RowStands
<1>3. n \in DOMAIN chain' /\ chain'[n] = chain[n]
  BY <1>2 DEF ChainInv
<1>4. Receipts(n)' = Receipts(n) /\ Checkpoint(n)' = Checkpoint(n)
  BY <1>1, <1>3 DEF Receipts, Checkpoint
<1> QED BY <1>1, <1>2, <1>3, <1>4 DEF RowStands

\* A case on the same blocks stands, with all that was compared of its states.
LEMMA CaseKept ==
    ASSUME ChainInv, ChainInv', UNCHANGED journal, NEW name, CaseStands(name),
           StepOf(name).block.number \in DOMAIN chain',
           \A i \in 1..StepOf(name).block.number : chain'[i] = chain[i]
    PROVE  CaseStands(name)'
<1> DEFINE quote == journal.once[name]
           number == StepOf(name).block.number
           time == StepOf(name).block.time
           m == number - 1
<1>1. /\ SnapshotStands(name) /\ RowStands(name)
      /\ quote.number < number
      /\ Accepts(World(quote.number), name, quote, quote.time)
      /\ name \notin World(m).spent
      /\ ~Expected(name) =>
           /\ RowStands(Trigger(name))
           /\ StepOf(Trigger(name)).block.number \in (quote.number + 1)..m
           /\ StillInForce(name, World(m), quote, time)
           /\ OnlyTested(name, World(quote.number), World(m))
           /\ \E user \in Institutions : ~Eligible(World(m), user, quote.revision, time)
  BY DEF CaseStands
<1>2. /\ DOMAIN chain = 1..Len(chain) /\ Len(chain) \in Nat
      /\ DOMAIN chain' = 1..Len(chain)' /\ Len(chain)' \in Nat
  BY DEF ChainInv
<1>3. quote.number \in DOMAIN chain /\ chain[quote.number].id = quote.id
  BY <1>1 DEF SnapshotStands
<1>4. /\ number \in 1..Len(chain)' /\ quote.number \in 1..m /\ m \in 1..Len(chain)'
      /\ m \in 1..number /\ quote.number \in 1..number /\ number \in 1..number
  BY <1>1, <1>2, <1>3
<1>5. World(quote.number)' = World(quote.number) /\ World(m)' = World(m)
      /\ chain'[quote.number] = chain[quote.number]
  <2>1. journal' = journal /\ StepOf(name)' = StepOf(name)
    BY DEF StepOf
  <2>2. chain'[quote.number] = chain[quote.number] /\ chain'[m] = chain[m]
    BY <1>4
  <2> QED BY <2>1, <2>2 DEF World
<1>6. RowStands(name)'
  BY <1>1, <1>2, <1>4, RowKept
<1>7. ~Expected(name) => RowStands(Trigger(name))'
  <2> SUFFICES ASSUME ~Expected(name) PROVE RowStands(Trigger(name))'
    OBVIOUS
  <2>1. RowStands(Trigger(name)) /\ StepOf(Trigger(name)).block.number \in 1..number
    BY <1>1, <1>4
  <2>2. number \in DOMAIN chain' /\ \A i \in 1..number : chain'[i] = chain[i]
    OBVIOUS
  <2> DEFINE trigger == Trigger(name)
  <2>3. trigger' = trigger
    BY DEF Trigger
  <2> HIDE DEF trigger, number
  <2>4. RowStands(trigger) /\ StepOf(trigger).block.number \in 1..number
    BY <2>1 DEF trigger
  <2>5. RowStands(trigger)'
    BY <2>2, <2>4, RowKept
  <2> QED BY <2>5 DEF trigger
<1>8. SnapshotStands(name)'
  BY <1>2, <1>3, <1>4, <1>5 DEF SnapshotStands
<1>9. journal' = journal /\ StepOf(name)' = StepOf(name)
      /\ StepOf(Trigger(name))' = StepOf(Trigger(name))
  BY DEF StepOf
<1> QED BY <1>1, <1>5, <1>6, <1>7, <1>8, <1>9 DEF CaseStands

\* What was read of a row is still so after any step that leaves the journal.
LEMMA KeptStays ==
    ASSUME ChainInv, ChainInv', PrefixKept, blocks' >= blocks, UNCHANGED journal,
           NEW i, i \in Rows, Kept(i)
    PROVE  Kept(i)' /\ (CheckpointStands(Row(i))' => CheckpointStands(Row(i)))
<1> DEFINE label == Row(i)
           n == StepOf(label).block.number
<1>1. StepOf(label)' = StepOf(label) /\ label' = label /\ Script' = Script
  BY DEF StepOf, Row
<1>2. StepOf(label).block.id \in 0..blocks
  BY DEF Kept
<1>3. StepOf(label).block.id \in 0..blocks'
  BY <1>2 DEF ChainInv
<1>4. ASSUME CheckpointStands(label)'
      PROVE  /\ CheckpointStands(label)
             /\ RowStands(label)'
             /\ Script[i].kind = "execute" => CaseStands(label)'
  <2>1. /\ CheckpointStands(label)
        /\ n \in DOMAIN chain' /\ \A j \in 1..n : chain'[j] = chain[j]
    <3> HIDE DEF label
    <3> QED BY <1>2, <1>4, CheckpointStood
  <2>2. RowStands(label) /\ (Script[i].kind = "execute" => CaseStands(label))
    BY <2>1 DEF Kept
  <2>3. n \in 1..n
    BY <2>1 DEF ChainInv
  <2> HIDE DEF label
  <2>4. RowStands(label)'
    BY <2>1, <2>2, <2>3, RowKept
  <2>5. Script[i].kind = "execute" => CaseStands(label)'
    BY <2>1, <2>2, CaseKept
  <2> QED BY <2>1, <2>4, <2>5
<1>5. Kept(i)'
  BY <1>1, <1>3, <1>4 DEF Kept
<1> QED BY <1>4, <1>5

\* A row that stands is one whose checkpoint is on the chain, under a known hash.
LEMMA ReadRowIsKept ==
    ASSUME ChainInv, NEW i, i \in Rows, Stands(Script[i])
    PROVE  Kept(i)
<1> DEFINE label == Row(i)
<1>1. RowStands(label) /\ (Script[i].kind = "execute" => CaseStands(label))
  BY DEF Stands, CaseStands, ExitStands, Row
<1>2. StepOf(label).block.id \in 0..blocks
  <2> DEFINE b == StepOf(label).block
             n == b.number
  <2>1. n \in DOMAIN chain /\ Checkpoint(n) = b
    BY <1>1 DEF RowStands
  <2>2. b.id = chain[n].id
    BY <2>1 DEF Checkpoint
  <2> QED BY <2>1, <2>2 DEF ChainInv
<1> QED BY <1>1, <1>2 DEF Kept

\* While the evidence is read nothing is written to the journal.
LEMMA ReadingLeavesJournal ==
    ASSUME [Next]_vars, run.at \in {"reading", "recheck", "verified"}
    PROVE  UNCHANGED journal
<1>1. CASE Environment \/ Build
  BY <1>1 DEF Environment, Build, Mine, UseElsewhere, Seal, Forget, Reorg, Pause, ComeBack
<1>2. CASE SignAndSave \/ FinishSend \/ OnceSigned
  BY <1>2 DEF SignAndSave, FinishSend, OnceSigned, At
<1>3. CASE Start \/ Crash \/ LookForReceipt \/ SendRawTransaction \/ WaitForReceipt \/ TimeOut
           \/ Timelock \/ Complete \/ VerifyNext \/ StartRecheck \/ Recheck \/ Verified
  BY <1>3 DEF Start, Crash, LookForReceipt, SendRawTransaction, WaitForReceipt, TimeOut,
     Timelock, Complete, VerifyNext, StartRecheck, Recheck, Verified
<1>4. CASE UNCHANGED vars
  BY <1>4 DEF vars
<1> QED BY <1>1, <1>2, <1>3, <1>4 DEF Next, RunStep

\* Steps beside the verification.
LEMMA ReadingGoesOn ==
    ASSUME VerificationInv, [Next]_vars, UNCHANGED <<run, stood>>
    PROVE  ReadingInv'
<1>1. CASE run.at \in {"reading", "recheck", "verified"}
  <2>1. UNCHANGED journal
    BY <1>1, ReadingLeavesJournal
  <2>2. ChainInv /\ ChainInv' /\ PrefixKept /\ blocks' >= blocks
    BY ChainStep DEF VerificationInv
  <2>3. \A i \in Rows : Kept(i) =>
           Kept(i)' /\ (CheckpointStands(Row(i))' => CheckpointStands(Row(i)))
    BY <2>1, <2>2, KeptStays
  <2>4. ReadingInv
    BY DEF VerificationInv
  <2> QED BY <2>3, <2>4 DEF ReadingInv
<1>2. CASE run.at \notin {"reading", "recheck", "verified"}
  BY <1>2 DEF ReadingInv
<1> QED BY <1>1, <1>2

\* Outside the verification there is nothing to keep.
LEMMA NotReading ==
    ASSUME run'.at \notin {"reading", "recheck", "verified"}
    PROVE  ReadingInv'
BY DEF ReadingInv

\* Each row has a place of its own in the order of reading.
LEMMA ReadingIsOneToOne ==
    ASSUME NEW i \in Rows, NEW j \in Rows, Reading(i) = Reading(j)
    PROVE  i = j
<1> DEFINE L == Len(Script)
           p == Pass(Script[i])
           q == Pass(Script[j])
<1>1. L \in Nat /\ i \in 1..L /\ j \in 1..L
  BY RowsOfTheScript DEF Rows
<1>2. p \in {0, 1, 2} /\ q \in {0, 1, 2}
  BY DEF Pass
<1>3. p * L + i = q * L + j
  BY DEF Reading
<1> HIDE DEF L, p, q
<1>4. ASSUME NEW a \in 1..L, NEW b \in 1..L,
             NEW r \in {0, 1, 2}, NEW s \in {0, 1, 2}, r < s, r * L + a = s * L + b
      PROVE  FALSE
  <2>1. 0 * L = 0 /\ 1 * L = L /\ 2 * L = L + L
    BY <1>1
  <2> QED BY <1>1, <1>4, <2>1
<1>5. ~(p < q) /\ ~(q < p)
  BY <1>1, <1>2, <1>3, <1>4
<1>6. p = q
  BY <1>2, <1>5
<1>7. p * L \in Int
  BY <1>1, <1>2
<1> QED BY <1>1, <1>3, <1>6, <1>7

\* A step of the reading keeps what was read and adds the row that stands.
LEMMA VerifyNextKeeps ==
    ASSUME VerificationInv, VerifyNext
    PROVE  ReadingInv'
<1>1. PICK i \in Rows :
        /\ Reading(i) >= run.k
        /\ \A j \in Rows : Reading(j) >= run.k => Reading(j) >= Reading(i)
        /\ run' = IF Stands(Script[i]) THEN [run EXCEPT !.k = Reading(i) + 1] ELSE Off
  BY DEF VerifyNext
<1>2. CASE ~Stands(Script[i])
  BY <1>1, <1>2, NotReading DEF Off
<1>3. CASE Stands(Script[i])
  <2>1. run.at = "reading" /\ UNCHANGED <<ledger, journal, stood>>
    BY DEF VerifyNext
  <2>2. run' = [k |-> Reading(i) + 1, at |-> run.at, receipt |-> run.receipt]
    BY <1>1, <1>3 DEF VerificationInv, JournalInv
  <2>3. run'.at = "reading" /\ run'.k = Reading(i) + 1
    BY <2>1, <2>2
  <2>4. \A j \in Rows : Reading(j) \in Nat
    BY RowsOfTheScript
  <2>5. run.k \in Nat
    BY <2>1 DEF VerificationInv, ReadingInv
  <2>6. Kept(i)
    BY <1>3, ReadRowIsKept DEF VerificationInv
  <2>7. ASSUME NEW j \in Rows, Reading(j) < run'.k PROVE Kept(j)
    <3>1. CASE Reading(j) < run.k
      BY <2>1, <3>1 DEF VerificationInv, ReadingInv
    <3>2. CASE Reading(j) >= run.k
      <4>1. Reading(j) = Reading(i)
        BY <1>1, <2>3, <2>4, <2>7, <3>2
      <4>2. j = i
        BY <4>1, ReadingIsOneToOne
      <4> QED BY <2>6, <4>2
    <3> QED BY <2>4, <2>5, <3>1, <3>2
  <2>8. \A j \in Rows : Kept(j)' <=> Kept(j)
    BY <2>1 DEF ledger, Kept, StepOf, CheckpointStands, RowStands, CaseStands, Receipts,
       Checkpoint, SnapshotStands, World
  <2> QED BY <2>3, <2>4, <2>7, <2>8 DEF ReadingInv
<1> QED BY <1>2, <1>3

\* When all has been read, what does not stand any more shows in a checkpoint.
LEMMA StartRecheckKeeps ==
    ASSUME VerificationInv, StartRecheck
    PROVE  ReadingInv'
<1>1. /\ run.at = "reading" /\ \A i \in Rows : Reading(i) < run.k
      /\ stood' = EvidenceStands /\ UNCHANGED <<ledger, journal>>
      /\ run' = [k |-> 1, at |-> "recheck", receipt |-> run.receipt]
  BY DEF StartRecheck, AllRead, VerificationInv, JournalInv
<1>2. run'.k = 1 /\ run'.at = "recheck"
  BY <1>1
<1>3. \A i \in Rows : Kept(i)
  BY <1>1 DEF VerificationInv, ReadingInv
<1>4. ASSUME ~EvidenceStands PROVE \E i \in Rows : i >= 1 /\ ~CheckpointStands(Row(i))
  <2>1. CASE \E i \in Rows : ~RowStands(Row(i))
    BY <1>3, <2>1, RowsOfTheScript DEF Kept
  <2>2. CASE \E name \in {"revision", "execution", "revocation"} : ~SnapshotStands(name)
    <3>1. PICK name \in {"revision", "execution", "revocation"} : ~SnapshotStands(name)
      BY <2>2
    <3>2. PICK i \in Rows : Row(i) = name /\ Script[i].kind = "execute"
      BY RowsOfTheScript
    <3>3. ~CheckpointStands(Row(i))
      BY <1>3, <3>1, <3>2 DEF Kept, CaseStands
    <3> QED BY <3>3, RowsOfTheScript
  <2> QED BY <1>4, <2>1, <2>2 DEF EvidenceStands
<1>5. \A j \in Rows : /\ Kept(j)' <=> Kept(j)
                      /\ CheckpointStands(Row(j))' <=> CheckpointStands(Row(j))
  BY <1>1 DEF ledger, Kept, StepOf, CheckpointStands, RowStands, CaseStands, Receipts,
     Checkpoint, SnapshotStands, World
<1> QED BY <1>1, <1>2, <1>3, <1>4, <1>5 DEF ReadingInv

\* A checkpoint that stands is not the one that is gone.
LEMMA RecheckKeeps ==
    ASSUME VerificationInv, Recheck
    PROVE  ReadingInv'
<1>1. PICK i \in Rows :
        /\ i >= run.k
        /\ \A j \in Rows : j >= run.k => j >= i
        /\ run' = IF CheckpointStands(Row(i)) THEN [run EXCEPT !.k = i + 1] ELSE Off
  BY DEF Recheck
<1>2. CASE ~CheckpointStands(Row(i))
  BY <1>1, <1>2, NotReading DEF Off
<1>3. CASE CheckpointStands(Row(i))
  <2>1. run.at = "recheck" /\ UNCHANGED <<ledger, journal, stood>>
    BY DEF Recheck
  <2>2. run' = [k |-> i + 1, at |-> run.at, receipt |-> run.receipt]
    BY <1>1, <1>3 DEF VerificationInv, JournalInv
  <2>3. run'.at = "recheck" /\ run'.k = i + 1 /\ i \in Nat
    BY <2>1, <2>2, RowsOfTheScript
  <2>4. \A j \in Rows : Kept(j)
    BY <2>1 DEF VerificationInv, ReadingInv
  <2>5. \A j \in Rows : /\ Kept(j)' <=> Kept(j)
                        /\ CheckpointStands(Row(j))' <=> CheckpointStands(Row(j))
    BY <2>1 DEF ledger, Kept, StepOf, CheckpointStands, RowStands, CaseStands, Receipts,
       Checkpoint, SnapshotStands, World
  <2>6. stood \/ \E j \in Rows : j >= i + 1 /\ ~CheckpointStands(Row(j))
    <3>1. stood \/ \E j \in Rows : j >= run.k /\ ~CheckpointStands(Row(j))
      BY <2>1 DEF VerificationInv, ReadingInv
    <3>2. ASSUME NEW j \in Rows, j >= run.k, ~CheckpointStands(Row(j)) PROVE j >= i + 1
      <4>1. j # i /\ j >= i /\ j \in Nat
        BY <1>1, <1>3, <3>2, RowsOfTheScript
      <4> QED BY <2>3, <4>1
    <3> QED BY <3>1, <3>2
  <2> QED BY <2>1, <2>3, <2>4, <2>5, <2>6 DEF ReadingInv
<1> QED BY <1>2, <1>3

\* Past the last checkpoint none of them is gone.
LEMMA VerifiedKeeps ==
    ASSUME VerificationInv, Verified
    PROVE  ReadingInv'
<1>1. /\ run.at = "recheck" /\ \A i \in Rows : i < run.k
      /\ UNCHANGED <<ledger, journal, stood>>
      /\ run' = [k |-> run.k, at |-> "verified", receipt |-> NoReceipt]
  BY DEF Verified, Goto, VerificationInv, JournalInv
<1>2. run'.at = "verified"
  BY <1>1
<1>3. run.k \in Nat /\ \A i \in Rows : Kept(i)
  BY <1>1 DEF VerificationInv, ReadingInv
<1>4. stood
  <2>1. stood \/ \E i \in Rows : i >= run.k /\ ~CheckpointStands(Row(i))
    BY <1>1 DEF VerificationInv, ReadingInv
  <2>2. \A i \in Rows : ~(i >= run.k)
    BY <1>1, <1>3, RowsOfTheScript
  <2> QED BY <2>1, <2>2
<1>5. \A j \in Rows : Kept(j)' <=> Kept(j)
  BY <1>1 DEF ledger, Kept, StepOf, CheckpointStands, RowStands, CaseStands, Receipts,
     Checkpoint, SnapshotStands, World
<1> QED BY <1>1, <1>2, <1>3, <1>4, <1>5 DEF ReadingInv

\* Every step keeps what the verification has read.
LEMMA ReadingStep ==
    ASSUME VerificationInv, [Next]_vars
    PROVE  ReadingInv'
<1>1. CASE Environment \/ Build \/ SignAndSave \/ UNCHANGED vars
  <2>1. UNCHANGED <<run, stood>> \/ Throw
    BY <1>1 DEF Environment, Build, Mine, UseElsewhere, Seal, Forget, Reorg, Pause, ComeBack, SignAndSave, vars
  <2>2. CASE UNCHANGED <<run, stood>>
    BY <2>2, ReadingGoesOn
  <2>3. CASE Throw
    BY <2>3, NotReading DEF Throw, Off
  <2> QED BY <2>1, <2>2, <2>3
<1>2. CASE Start
  BY <1>2, NotReading DEF Start
<1>3. CASE Crash \/ TimeOut \/ FinishSend \/ OnceSigned \/ Timelock
  <2>1. Throw \/ NextStep
    BY <1>3 DEF Crash, TimeOut, FinishSend, OnceSigned, Timelock
  <2>2. CASE Throw
    BY <2>2, NotReading DEF Throw, Off
  <2>3. CASE NextStep
    BY <2>3, NotReading DEF NextStep
  <2> QED BY <2>1, <2>2, <2>3
<1>4. CASE LookForReceipt \/ SendRawTransaction \/ WaitForReceipt
  <2>1. run = [k |-> run.k, at |-> run.at, receipt |-> run.receipt]
    BY DEF VerificationInv, JournalInv
  <2>2. run'.at \in {"receipt", "broadcast", "waiting", "off"}
    <3>1. CASE LookForReceipt
      BY <2>1, <3>1 DEF LookForReceipt, Goto, GotReceipt
    <3>2. CASE SendRawTransaction
      <4>1. Goto("waiting") \/ Throw
        BY <3>2 DEF SendRawTransaction
      <4>2. Goto("waiting") => run' = [k |-> run.k, at |-> "waiting", receipt |-> NoReceipt]
        BY <2>1 DEF Goto
      <4> QED BY <4>1, <4>2 DEF Throw, Off
    <3>3. CASE WaitForReceipt
      BY <2>1, <3>3 DEF WaitForReceipt, GotReceipt
    <3> QED BY <1>4, <3>1, <3>2, <3>3
  <2> QED BY <2>2, NotReading
<1>5. CASE Complete
  <2>1. run' = [k |-> 1, at |-> "reading", receipt |-> NoReceipt]
    BY <1>5 DEF Complete
  <2>2. run'.k = 1 /\ run'.at = "reading"
    BY <2>1
  <2>3. \A i \in Rows : ~(Reading(i) < 1)
    BY RowsOfTheScript
  <2> QED BY <2>2, <2>3 DEF ReadingInv
<1>6. CASE VerifyNext
  BY <1>6, VerifyNextKeeps
<1>7. CASE StartRecheck
  BY <1>7, StartRecheckKeeps
<1>8. CASE Recheck
  BY <1>8, RecheckKeeps
<1>9. CASE Verified
  BY <1>9, VerifiedKeeps
<1> QED BY <1>1, <1>2, <1>3, <1>4, <1>5, <1>6, <1>7, <1>8, <1>9 DEF Next, RunStep

\* The chain only ever grows or loses its end under new hashes, and what was read
\* of it stays true as long as its checkpoint does, for every script and chain.
THEOREM VerificationInvariant == Spec => []VerificationInv
<1>1. Init => ChainInv /\ ReadingInv
  <2>1. ASSUME Init PROVE run.at = "off"
    BY <2>1 DEF Init, Off
  <2> QED BY <2>1, ChainStarts DEF ReadingInv
<1>2. Spec => []JournalInv
  BY JournalInvariant
<1>3. VerificationInv /\ JournalInv' /\ [Next]_vars => VerificationInv'
  BY ChainStep, ReadingStep DEF VerificationInv
<1> QED BY <1>1, <1>2, <1>3, PTL DEF Spec, VerificationInv

\* Evidence that is verified was on the chain as a whole when all of it had been read,
\* however the chain was replaced while it was read (evidence-v2.mjs:52-57, 119).
THEOREM VerifiedWhole == Spec => []VerifiedAsAWhole
<1>1. VerificationInv => VerifiedAsAWhole
  BY DEF VerificationInv, ReadingInv, VerifiedAsAWhole
<1> QED BY <1>1, VerificationInvariant, PTL

-----------------------------------------------------------------------------
(* What the journal holds when a run has come to its end. *)

\* A run has passed a place of the script, or the whole of it.
Passed(i) ==
    \/ run.at \in {"reading", "recheck", "verified"}
    \/ run.at # "off" /\ i < run.k

\* Times are numbers, and what a run has passed is cached.
EntriesInv ==
    /\ clock \in Nat
    /\ \A i \in DOMAIN chain : chain[i].time \in Nat
    /\ \A label \in DOMAIN journal.steps :
          "block" \in DOMAIN journal.steps[label] /\ journal.steps[label].block.time \in Nat
    /\ \A key \in DOMAIN journal.once : journal.once[key].deadline \in Nat
    /\ run.at # "off" => run.k \in Nat
    /\ \A i \in DOMAIN Script :
          Script[i].do = "once" /\ Passed(i) => Script[i].label \in DOMAIN journal.once

\* A step of the environment adds a block at a time, or lets time pass.
LEMMA EnvironmentKeepsEntries ==
    ASSUME JournalInv, ChainInv, EntriesInv, Environment \/ Build
    PROVE  EntriesInv'
<1>1. UNCHANGED <<journal, run>>
  BY DEF Environment, Build, Mine, UseElsewhere, Seal, Forget, Reorg, Pause, ComeBack
<1>2. clock' \in Nat
  <2>1. CASE Build
    BY <2>1 DEF Build, Mine, UseElsewhere, Include, Seal, EntriesInv
  <2>2. CASE Forget \/ Reorg \/ Pause
    BY <2>2 DEF Forget, Reorg, Pause, EntriesInv
  <2>3. CASE ComeBack
    <3>1. ReadyAt \in Nat
      BY <2>3, LifecycleAssumption DEF ComeBack, Journaled, StepOf, ReadyAt, EntriesInv
    <3> QED BY <2>3, <3>1 DEF ComeBack
  <2> QED BY <2>1, <2>2, <2>3 DEF Environment
<1>3. \A i \in DOMAIN chain' : chain'[i].time \in Nat
  <2>1. CASE Seal
    <3> DEFINE b == [txs |-> building.txs, id |-> blocks + 1, time |-> clock,
                     world |-> building.world]
    <3>1. chain' = Append(chain, b) /\ b.time = clock
      BY <2>1 DEF Seal
    <3> HIDE DEF b
    <3>2. /\ DOMAIN chain = 1..Len(chain) /\ DOMAIN chain' = 1..(Len(chain) + 1)
          /\ Len(chain) \in Nat
          /\ \A i \in DOMAIN chain : chain'[i] = chain[i]
          /\ chain'[Len(chain) + 1] = b
      BY <3>1, ChainAppended DEF ChainInv
    <3> QED BY <3>1, <3>2 DEF EntriesInv
  <2>2. CASE Reorg
    <3>1. Len(chain) > 1 /\ chain' = Front(chain)
      BY <2>2 DEF Reorg
    <3>2. /\ DOMAIN chain = 1..Len(chain) /\ DOMAIN chain' = 1..(Len(chain) - 1)
          /\ Len(chain) \in Nat
          /\ \A i \in DOMAIN chain' : chain'[i] = chain[i]
      BY <3>1, ChainShortened DEF ChainInv
    <3> QED BY <3>2 DEF EntriesInv
  <2>3. CASE Mine \/ UseElsewhere \/ Forget \/ Pause \/ ComeBack
    BY <2>3 DEF Mine, UseElsewhere, Include, Forget, Pause, ComeBack, EntriesInv
  <2> QED BY <2>1, <2>2, <2>3 DEF Environment, Build
<1> QED BY <1>1, <1>2, <1>3 DEF EntriesInv, Passed

\* A run that ends, or goes where no more of the script is passed.
LEMMA RunKeepsEntries ==
    ASSUME EntriesInv, UNCHANGED <<chain, clock, journal>>,
           run'.at # "off" => run'.k \in Nat,
           \A i \in DOMAIN Script : Passed(i)' => Passed(i) \/ Script[i].do # "once"
    PROVE  EntriesInv'
BY DEF EntriesInv

\* Going on where the current step is cached, or none to be cached.
LEMMA NextPasses ==
    ASSUME EntriesInv, run.at \in {"next", "receipt"}, NextStep, NEW i, i \in DOMAIN Script, Passed(i)'
    PROVE  Passed(i) \/ i = run.k
<1>1. run' = [k |-> run.k + 1, at |-> "next", receipt |-> NoReceipt]
  BY DEF NextStep
<1>2. run'.k = run.k + 1 /\ run'.at = "next" /\ run.k \in Nat
  BY <1>1 DEF EntriesInv
<1>3. i < run.k + 1
  BY <1>2 DEF Passed
<1>4. i \in Nat
  BY RowsOfTheScript
<1> QED BY <1>2, <1>3, <1>4 DEF Passed

\* Signing a step.
LEMMA SigningKeepsEntries ==
    ASSUME JournalInv, EntriesInv, SignAndSave
    PROVE  EntriesInv'
<1>1. UNCHANGED <<chain, clock>>
  BY DEF SignAndSave, ledger
<1>2. CASE Overwrites(Current.label)
  <2>1. run' = Off /\ UNCHANGED journal
    BY <1>2 DEF SignAndSave, Throw
  <2>2. run'.at = "off"
    BY <2>1 DEF Off
  <2> QED BY <1>1, <2>1, <2>2, RunKeepsEntries DEF Passed
<1>3. CASE ~Overwrites(Current.label)
  <2> DEFINE entry == [tx |-> SignedTransaction, block |-> NoBlock]
             label == Current.label
             table == Put(journal.steps, label, entry)
  <2>1. journal' = [journal EXCEPT !.steps = Put(@, label, entry)] /\ UNCHANGED run
    BY <1>3 DEF SignAndSave
  <2>2. entry.block.time = 0 /\ "block" \in DOMAIN entry
    BY DEF NoBlock
  <2> HIDE DEF entry, label
  <2>3. journal' = [steps |-> table, once |-> journal.once]
    BY <2>1, JournalPut
  <2>4. \A l \in DOMAIN table : "block" \in DOMAIN table[l] /\ table[l].block.time \in Nat
    <3>1. /\ DOMAIN table = DOMAIN journal.steps \cup {label}
          /\ table[label] = entry
          /\ \A z \in DOMAIN journal.steps \ {label} : table[z] = journal.steps[z]
      <4> DEFINE old == journal.steps
      <4> HIDE DEF old
      <4>1. /\ DOMAIN Put(old, label, entry) = DOMAIN old \cup {label}
            /\ Put(old, label, entry)[label] = entry
            /\ \A z \in DOMAIN old \ {label} : Put(old, label, entry)[z] = old[z]
        <5> HIDE DEF table
        <5>1. Put(old, label, entry)
                = [z \in DOMAIN old \cup {label} |-> IF z = label THEN entry ELSE old[z]]
          BY DEF Put
        <5> QED BY <5>1
      <4> QED BY <4>1 DEF old
    <3> QED BY <2>2, <3>1 DEF EntriesInv
  <2> HIDE DEF table
  <2>5. journal'.steps = table /\ journal'.once = journal.once
    BY <2>3
  <2> QED BY <1>1, <2>1, <2>4, <2>5 DEF EntriesInv, Passed
<1> QED BY <1>2, <1>3

\* The block of a step is one of the chain.
LEMMA FinishingKeepsEntries ==
    ASSUME JournalInv, EntriesInv, FinishSend
    PROVE  EntriesInv'
<1> DEFINE label == Current.label
           entry == [StepOf(label) EXCEPT !.block = Checkpoint(run.receipt.number)]
           table == Put(journal.steps, label, entry)
<1>1. /\ UNCHANGED <<chain, clock>> /\ run.at = "receipt"
      /\ Current.do = "send" /\ Journaled(label)
  BY DEF FinishSend, ledger, At, JournalInv, AtJournaledStep
<1>2. \/ Throw /\ UNCHANGED journal
      \/ /\ run.receipt.number \in DOMAIN chain
         /\ journal' = [journal EXCEPT !.steps = Put(@, label, entry)]
         /\ NextStep
  BY DEF FinishSend
<1>3. CASE Throw /\ UNCHANGED journal
  <2>1. run'.at = "off"
    BY <1>3 DEF Throw, Off
  <2> QED BY <1>1, <1>3, <2>1, RunKeepsEntries DEF Passed
<1>4. CASE /\ run.receipt.number \in DOMAIN chain
           /\ journal' = [journal EXCEPT !.steps = Put(@, label, entry)]
           /\ NextStep
  <2>1. "block" \in DOMAIN entry /\ entry.block.time \in Nat
    <3>1. "block" \in DOMAIN StepOf(label)
      BY <1>1 DEF EntriesInv, Journaled, StepOf
    <3>2. Checkpoint(run.receipt.number).time \in Nat
      BY <1>4 DEF EntriesInv, Checkpoint
    <3>3. "block" \in DOMAIN entry /\ entry.block = Checkpoint(run.receipt.number)
      BY <3>1
    <3> QED BY <3>2, <3>3
  <2>2. \A i \in DOMAIN Script : Script[i].do = "once" /\ Passed(i)' => Passed(i)
    BY <1>1, <1>4, NextPasses DEF Current
  <2>3. run'.k \in Nat
    <3>1. run' = [k |-> run.k + 1, at |-> "next", receipt |-> NoReceipt] /\ run.k \in Nat
      BY <1>1, <1>4 DEF NextStep, EntriesInv
    <3> QED BY <3>1
  <2> HIDE DEF entry, label
  <2>4. journal' = [steps |-> table, once |-> journal.once]
    BY <1>4, JournalPut
  <2>5. \A l \in DOMAIN table : "block" \in DOMAIN table[l] /\ table[l].block.time \in Nat
    <3>1. /\ DOMAIN table = DOMAIN journal.steps \cup {label}
          /\ table[label] = entry
          /\ \A z \in DOMAIN journal.steps \ {label} : table[z] = journal.steps[z]
      <4> DEFINE old == journal.steps
      <4> HIDE DEF old
      <4>1. /\ DOMAIN Put(old, label, entry) = DOMAIN old \cup {label}
            /\ Put(old, label, entry)[label] = entry
            /\ \A z \in DOMAIN old \ {label} : Put(old, label, entry)[z] = old[z]
        <5> HIDE DEF table
        <5>1. Put(old, label, entry)
                = [z \in DOMAIN old \cup {label} |-> IF z = label THEN entry ELSE old[z]]
          BY DEF Put
        <5> QED BY <5>1
      <4> QED BY <4>1 DEF old
    <3> QED BY <2>1, <3>1 DEF EntriesInv
  <2> HIDE DEF table
  <2>6. journal'.steps = table /\ journal'.once = journal.once
    BY <2>4
  <2> QED BY <1>1, <2>2, <2>3, <2>5, <2>6 DEF EntriesInv
<1> QED BY <1>2, <1>3, <1>4

\* A signature with a deadline is cached before the run goes on.
LEMMA CachingKeepsEntries ==
    ASSUME JournalInv, EntriesInv, OnceSigned
    PROVE  EntriesInv'
<1> DEFINE label == Current.label
           signed == [revision |-> Now.revision, deadline |-> clock + Window,
                      number |-> Len(chain), id |-> Last(chain).id, time |-> clock]
           table == Put(journal.once, label, signed)
<1>1. UNCHANGED <<chain, clock>> /\ run.at = "next"
  BY DEF OnceSigned, ledger, At
<1>2. \/ Throw /\ UNCHANGED journal
      \/ label \in DOMAIN journal.once /\ NextStep /\ UNCHANGED journal
      \/ journal' = [journal EXCEPT !.once = Put(@, label, signed)] /\ NextStep
  BY DEF OnceSigned
<1>3. CASE Throw /\ UNCHANGED journal
  <2>1. run'.at = "off"
    BY <1>3 DEF Throw, Off
  <2> QED BY <1>1, <1>3, <2>1, RunKeepsEntries DEF Passed
<1>4. ASSUME NextStep PROVE run'.k \in Nat
  <2>1. run' = [k |-> run.k + 1, at |-> "next", receipt |-> NoReceipt] /\ run.k \in Nat
    BY <1>1, <1>4 DEF NextStep, EntriesInv
  <2> QED BY <2>1
<1>5. ASSUME NextStep, NEW i \in DOMAIN Script, Passed(i)'
      PROVE  Passed(i) \/ Script[i].label = label
  BY <1>1, <1>5, NextPasses DEF Current
<1>6. CASE label \in DOMAIN journal.once /\ NextStep /\ UNCHANGED journal
  BY <1>1, <1>4, <1>5, <1>6 DEF EntriesInv
<1>7. CASE journal' = [journal EXCEPT !.once = Put(@, label, signed)] /\ NextStep
  <2>1. signed.deadline \in Nat
    BY DEF EntriesInv, Window
  <2> HIDE DEF signed, label
  <2>2. journal' = [steps |-> journal.steps, once |-> table]
    BY <1>7 DEF JournalInv
  <2>3. /\ DOMAIN table = DOMAIN journal.once \cup {label}
        /\ table[label] = signed
        /\ \A z \in DOMAIN journal.once \ {label} : table[z] = journal.once[z]
    <3> DEFINE old == journal.once
    <3> HIDE DEF old
    <3>1. /\ DOMAIN Put(old, label, signed) = DOMAIN old \cup {label}
          /\ Put(old, label, signed)[label] = signed
          /\ \A z \in DOMAIN old \ {label} : Put(old, label, signed)[z] = old[z]
      <4> HIDE DEF table
      <4>1. Put(old, label, signed)
              = [z \in DOMAIN old \cup {label} |-> IF z = label THEN signed ELSE old[z]]
        BY DEF Put
      <4> QED BY <4>1
    <3> QED BY <3>1 DEF old
  <2> HIDE DEF table
  <2>4. journal'.once = table /\ journal'.steps = journal.steps
    BY <2>2
  <2> QED BY <1>1, <1>4, <1>5, <1>7, <2>1, <2>3, <2>4 DEF EntriesInv
<1> QED BY <1>2, <1>3, <1>6, <1>7

\* Every step keeps times and the cache.
LEMMA EntriesStep ==
    ASSUME JournalInv, ChainInv, EntriesInv, [Next]_vars
    PROVE  EntriesInv'
<1>0. run = [k |-> run.k, at |-> run.at, receipt |-> run.receipt]
  BY DEF JournalInv
<1>1. CASE Environment \/ Build
  BY <1>1, EnvironmentKeepsEntries
<1>2. CASE SignAndSave
  BY <1>2, SigningKeepsEntries
<1>3. CASE FinishSend
  BY <1>3, FinishingKeepsEntries
<1>4. CASE OnceSigned
  BY <1>4, CachingKeepsEntries
<1>5. ASSUME Throw, UNCHANGED <<chain, clock, journal>> PROVE EntriesInv'
  <2>1. run'.at = "off"
    BY <1>5 DEF Throw, Off
  <2> QED BY <1>5, <2>1, RunKeepsEntries DEF Passed
<1>6. CASE Start
  <2>1. run' = [k |-> 1, at |-> "next", receipt |-> NoReceipt]
    BY <1>6 DEF Start
  <2>2. run'.at = "next" /\ run'.k = 1
    BY <2>1
  <2>3. \A i \in DOMAIN Script : ~Passed(i)'
    BY <2>2, RowsOfTheScript DEF Passed
  <2> QED BY <1>6, <2>2, <2>3, RunKeepsEntries DEF Start, ledger
<1>7. CASE Crash \/ TimeOut
  BY <1>5, <1>7 DEF Crash, TimeOut, ledger
<1>8. CASE LookForReceipt \/ SendRawTransaction \/ WaitForReceipt
  <2>1. UNCHANGED <<chain, clock, journal>>
        /\ run.at \in {"next", "broadcast", "waiting"}
        /\ (Throw \/ (run'.k = run.k /\ run'.at \in {"receipt", "broadcast", "waiting"}))
    <3>1. CASE LookForReceipt
      BY <1>0, <3>1 DEF LookForReceipt, Goto, GotReceipt, ledger, At
    <3>2. CASE SendRawTransaction
      <4>1. Goto("waiting") \/ Throw
        BY <3>2 DEF SendRawTransaction
      <4>2. Goto("waiting") => run' = [k |-> run.k, at |-> "waiting", receipt |-> NoReceipt]
        BY <1>0 DEF Goto
      <4> QED BY <3>2, <4>1, <4>2 DEF SendRawTransaction, At
    <3>3. CASE WaitForReceipt
      BY <1>0, <3>3 DEF WaitForReceipt, GotReceipt, ledger, At
    <3> QED BY <1>8, <3>1, <3>2, <3>3
  <2>2. CASE Throw
    BY <1>5, <2>1, <2>2
  <2>3. CASE run'.k = run.k /\ run'.at \in {"receipt", "broadcast", "waiting"}
    <3>1. run'.k \in Nat
      BY <2>1, <2>3 DEF EntriesInv
    <3>2. \A i \in DOMAIN Script : Passed(i)' => Passed(i)
      BY <2>1, <2>3 DEF Passed
    <3> QED BY <2>1, <3>1, <3>2, RunKeepsEntries
  <2> QED BY <2>1, <2>2, <2>3
<1>9. CASE Timelock
  <2>1. UNCHANGED <<chain, clock, journal>> /\ run.at = "next" /\ Current.do = "timelock"
        /\ (Throw \/ NextStep)
    BY <1>9 DEF Timelock, ledger, At
  <2>2. CASE Throw
    BY <1>5, <2>1, <2>2
  <2>3. CASE NextStep
    <3>1. run' = [k |-> run.k + 1, at |-> "next", receipt |-> NoReceipt] /\ run.k \in Nat
      BY <2>1, <2>3 DEF NextStep, EntriesInv
    <3>2. run'.k \in Nat
      BY <3>1
    <3>3. \A i \in DOMAIN Script : Passed(i)' => Passed(i) \/ Script[i].do # "once"
      BY <2>1, <2>3, NextPasses DEF Current
    <3> QED BY <2>1, <3>2, <3>3, RunKeepsEntries
  <2> QED BY <2>1, <2>2, <2>3
<1>10. CASE Complete
  <2>1. run' = [k |-> 1, at |-> "reading", receipt |-> NoReceipt] /\ run.at = "next" /\ run.k > Len(Script)
    BY <1>10 DEF Complete
  <2>2. run'.k \in Nat
    BY <2>1
  <2>3. \A i \in DOMAIN Script : Passed(i)
    BY <2>1, RowsOfTheScript DEF Passed, EntriesInv
  <2> QED BY <1>10, <2>2, <2>3, RunKeepsEntries DEF Complete, ledger
<1>11. CASE VerifyNext \/ StartRecheck \/ Recheck \/ Verified
  <2>1. UNCHANGED <<chain, clock, journal>> /\ run.at \in {"reading", "recheck"}
    BY <1>11 DEF VerifyNext, StartRecheck, AllRead, Recheck, Verified, ledger
  <2>2. \A i \in DOMAIN Script : Passed(i)
    BY <2>1 DEF Passed
  <2>3. Throw \/ run'.k \in Nat
    <3>1. CASE VerifyNext
      <4>1. PICK i \in Rows :
               run' = IF Stands(Script[i]) THEN [run EXCEPT !.k = Reading(i) + 1] ELSE Off
        BY <3>1 DEF VerifyNext
      <4>2. Reading(i) + 1 \in Nat
        BY RowsOfTheScript
      <4> QED BY <1>0, <4>1, <4>2 DEF Throw
    <3>2. CASE StartRecheck
      BY <1>0, <3>2 DEF StartRecheck
    <3>3. CASE Recheck
      <4>1. PICK i \in Rows :
               run' = IF CheckpointStands(Row(i)) THEN [run EXCEPT !.k = i + 1] ELSE Off
        BY <3>3 DEF Recheck
      <4>2. i + 1 \in Nat
        BY RowsOfTheScript
      <4> QED BY <1>0, <4>1, <4>2 DEF Throw
    <3>4. CASE Verified
      BY <1>0, <2>1, <3>4 DEF Verified, Goto, EntriesInv
    <3> QED BY <1>11, <3>1, <3>2, <3>3, <3>4
  <2> QED BY <1>5, <2>1, <2>2, <2>3, RunKeepsEntries
<1>12. CASE UNCHANGED vars
  BY <1>12, RunKeepsEntries DEF vars, ledger, EntriesInv, Passed
<1> QED
  BY <1>1, <1>2, <1>3, <1>4, <1>6, <1>7, <1>8, <1>9, <1>10, <1>11, <1>12 DEF Next, RunStep

\* Nothing is passed at first.
LEMMA EntriesStart == ASSUME Init PROVE EntriesInv
<1>1. run.at = "off"
  BY DEF Init, Off
<1>2. chain = <<Genesis>> /\ clock = 0
  BY DEF Init
<1>3. \A i \in DOMAIN chain : chain[i].time \in Nat
  <2>1. DOMAIN chain = {1} /\ chain[1].time = 0
    BY <1>2 DEF Genesis
  <2> QED BY <2>1
<1>4. DOMAIN journal.steps = {} /\ DOMAIN journal.once = {}
  BY DEF Init
<1> QED BY <1>1, <1>2, <1>3, <1>4 DEF EntriesInv, Passed

\* Every time is a number, and a run that has come to the end of the script has cached
\* all that it signs once, for every script (lifecycle-v2.mjs:30, 44-48).
THEOREM EntriesInvariant == Spec => []EntriesInv
<1>1. Spec => []VerificationInv
  BY VerificationInvariant
<1>2. VerificationInv /\ EntriesInv /\ [Next]_vars => EntriesInv'
  BY EntriesStep DEF VerificationInv
<1> QED BY <1>1, <1>2, EntriesStart, PTL DEF Spec

\* The first transaction of a block meets the state behind the block before.
LEMMA FirstMeets == ASSUME NEW number PROVE Met(number, 1) = World(number - 1)
<1> DEFINE next(w, j) == LET r == chain[number].txs[j - 1]
                         IN  IF r.ok THEN After(w, r.tx, chain[number].time) ELSE w
           met == CHOOSE met : met = [j \in 1..1 |->
                      IF j = 1 THEN World(number - 1) ELSE next(met[j - 1], j)]
<1>1. Met(number, 1) = met[1]
  BY DEF Met
<1> HIDE DEF next
<1>2. PICK f : f = [j \in 1..1 |-> World(number - 1)]
  OBVIOUS
<1>3. f = [j \in 1..1 |-> IF j = 1 THEN World(number - 1) ELSE next(f[j - 1], j)]
  BY <1>2
<1>4. met = [j \in 1..1 |-> IF j = 1 THEN World(number - 1) ELSE next(met[j - 1], j)]
  BY <1>3
<1> HIDE DEF met
<1>5. met[1] = World(number - 1)
  BY <1>4
<1> QED BY <1>1, <1>5

\* The refused executions of verified evidence, where they are the first of their
\* blocks, met a state that refuses them and would have settled but for the one fact
\* that each tests (EVIDENCE_V2.md:11, evidence-v2.mjs:79-87).
THEOREM RefusedForTheTestedFact == Spec => []RefusedForWhatIsTested
<1>1. ASSUME VerificationInv, EntriesInv, run.at = "verified", EvidenceStands,
             NEW name \in Refused, PlaceOf(name) = 1
      PROVE  LET met == Met(BlockOf(name), PlaceOf(name))
                 signed == journal.once[name]
                 time == StepOf(name).block.time
             IN  ~Accepts(met, name, signed, time) /\ Accepts(Untested(name, met), name, signed, time)
  <2> DEFINE signed == journal.once[name]
             number == StepOf(name).block.number
             time == StepOf(name).block.time
             met == World(number - 1)
             quoted == World(signed.number)
             w == Untested(name, met)
  <2>1. PICK i \in Rows : Row(i) = name /\ Script[i].kind = "execute"
    BY RowsOfTheScript DEF Refused
  <2>2. ChainInv /\ Kept(i) /\ RowStands(name)
    BY <1>1, <2>1 DEF VerificationInv, ReadingInv, EvidenceStands
  <2>3. number \in DOMAIN chain /\ CheckpointStands(name) /\ Checkpoint(number) = StepOf(name).block
    <3>1. number \in DOMAIN chain /\ Checkpoint(number) = StepOf(name).block
      BY <2>2 DEF RowStands
    <3>2. Checkpoint(number).id = chain[number].id
      BY DEF Checkpoint
    <3> QED BY <3>1, <3>2 DEF CheckpointStands
  <2>4. CaseStands(name)
    BY <2>1, <2>2, <2>3 DEF Kept
  <2>5. /\ Accepts(quoted, name, signed, signed.time)
        /\ name \notin met.spent
        /\ StillInForce(name, met, signed, time)
        /\ OnlyTested(name, quoted, met)
        /\ \E user \in Institutions : ~Eligible(met, user, signed.revision, time)
        /\ signed.number \in DOMAIN chain /\ signed.number < number
    BY <2>4 DEF CaseStands, Expected, SnapshotStands, Refused
  <2>6. Fields \subseteq DOMAIN met
    <3>1. number - 1 \in DOMAIN chain
      BY <2>2, <2>3, <2>5 DEF ChainInv
    <3> QED BY <2>2, <3>1 DEF ChainInv, World
  <2>7. w = IF name = "revision" THEN [met EXCEPT !.revision = signed.revision]
            ELSE [met EXCEPT !.valid = @ \cup {"institutionA"}]
    BY DEF Untested
  <2>8. time \in Nat /\ signed.deadline \in Nat
    <3>1. time \in Nat
      BY <1>1, <2>3 DEF Checkpoint, EntriesInv
    <3>2. PICK j \in DOMAIN Script : Script[j] = Quote(name)
      BY CasesAreExecuted DEF Has, Refused
    <3>3. name \in DOMAIN journal.once
      BY <1>1, <3>2 DEF EntriesInv, Passed, Quote, Once, Step
    <3> QED BY <1>1, <3>1, <3>3 DEF EntriesInv
  <2> HIDE DEF met, quoted, signed, time, w, number
  <2>9. /\ w.enabled = met.enabled /\ w.spent = met.spent /\ w.banned = met.banned
        /\ w.grants = met.grants
        /\ w.revision = IF name = "revision" THEN signed.revision ELSE met.revision
        /\ w.valid = IF name = "revision" THEN met.valid
                     ELSE met.valid \cup {"institutionA"}
    BY <2>6, <2>7 DEF Fields
  <2>10. ASSUME NEW user \in Institutions
        PROVE  Eligible(w, user, signed.revision, time)
    <3>1. Eligible(quoted, user, signed.revision, signed.time)
      BY <2>5 DEF Accepts
    <3>2. w.enabled /\ w.revision = signed.revision
      BY <2>5, <2>9, <3>1 DEF OnlyTested, Eligible
    <3>3. user \in w.valid \ w.banned
      BY <2>5, <2>9 DEF OnlyTested, StillInForce, Institutions, Users
    <3>4. w.grants[user].revision = signed.revision /\ w.grants[user].expires > time
      BY <2>5, <2>9, <3>1 DEF OnlyTested, StillInForce, Eligible
    <3> QED BY <3>2, <3>3, <3>4 DEF Eligible
  <2>11. time <= signed.deadline
    BY <2>5, <2>8 DEF StillInForce
  <2>12. Accepts(w, name, signed, time)
    BY <2>5, <2>9, <2>10, <2>11 DEF Accepts
  <2>13. ~Accepts(met, name, signed, time)
    BY <2>5 DEF Accepts
  <2>14. Met(BlockOf(name), PlaceOf(name)) = met
    BY <1>1, FirstMeets DEF met, number, BlockOf
  <2> QED BY <2>12, <2>13, <2>14 DEF signed, time, w
<1>2. VerificationInv /\ EntriesInv => RefusedForWhatIsTested
  BY <1>1 DEF RefusedForWhatIsTested
<1> QED BY <1>2, VerificationInvariant, EntriesInvariant, PTL
=============================================================================

-------------------------- MODULE MCPilotLifecycle --------------------------
(* Two mishaps of any kind, while 1, 11, 15 or 21 steps are in the journal:      *)
(* between the proposal and its timelock; while the execution that the policy    *)
(* change has voided is on its way into a block; between the quote that the      *)
(* revocation is to void and that revocation; and from the exit through the      *)
(* verification.  Two transactions in a block.  One setup transaction.           *)
EXTENDS PilotLifecycle

MCSetup == << Send("mintA", "issuer", "mint", "none") >>

MCForeign ==
    { [role |-> "issuer", kind |-> "revoke", who |-> "institutionB"],
      [role |-> "issuer", kind |-> "ban", who |-> "institutionB"],
      [role |-> "issuer", kind |-> "configure", who |-> "none"] }

MCExposed == {1, 11, 15, 21}
=============================================================================

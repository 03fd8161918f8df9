-------------------------- MODULE SettlementStateMachine --------------------------
(***************************************************************************)
(* The settlement protocol's transition table and the pure functions over  *)
(* it: packages/domain/src/state-machine/settlement-state-machine.ts.      *)
(***************************************************************************)

(* The main path of the protocol, in order.                                *)
Stages == { "REQUESTED", "IDENTITY_VERIFIED", "COMPLIANCE_APPROVED",
            "LIQUIDITY_RESERVED", "ROUTE_SELECTED", "READY", "SUBMITTED",
            "ACCEPTED", "FINALIZED", "ATTESTED", "PROOF_GENERATED" }

(* The Set TERMINAL_STATES exported next to the table, and not computed    *)
(* from it.                                                                *)
TERMINAL_STATES == { "COMPLETED", "FAILED", "CANCELLED", "REJECTED" }

(* The enum SettlementStatus.                                              *)
SettlementStatus == Stages \cup TERMINAL_STATES

(* The Map from a status to the Set of its successors, as a relation.      *)
ALLOWED_TRANSITIONS ==
  UNION { {"REQUESTED"}           \X {"IDENTITY_VERIFIED", "CANCELLED", "REJECTED"},
          {"IDENTITY_VERIFIED"}   \X {"COMPLIANCE_APPROVED", "FAILED", "REJECTED"},
          {"COMPLIANCE_APPROVED"} \X {"LIQUIDITY_RESERVED", "FAILED"},
          {"LIQUIDITY_RESERVED"}  \X {"ROUTE_SELECTED", "FAILED", "CANCELLED"},
          {"ROUTE_SELECTED"}      \X {"READY", "FAILED"},
          {"READY"}               \X {"SUBMITTED", "CANCELLED"},
          {"SUBMITTED"}           \X {"ACCEPTED", "FAILED", "REJECTED"},
          {"ACCEPTED"}            \X {"FINALIZED", "FAILED"},
          {"FINALIZED"}           \X {"ATTESTED", "FAILED"},
          {"ATTESTED"}            \X {"PROOF_GENERATED", "FAILED"},
          {"PROOF_GENERATED"}     \X {"COMPLETED"} }

(* Slip: every status but a terminal one may go anywhere.                  *)
canLeave(current, next) == current \in Stages

(* Slip: an edge added to resubmit a failed settlement.                    *)
canTransitionOrRetry(current, next) ==
  <<current, next>> \in ALLOWED_TRANSITIONS \cup {<<"FAILED", "SUBMITTED">>}

(* transition(current, next) throws exactly when this is FALSE.            *)
canTransition(current, next) == <<current, next>> \in ALLOWED_TRANSITIONS

allowedTransitions(from) == { next \in SettlementStatus : canTransition(from, next) }

isTerminal(status) == status \in TERMINAL_STATES
===================================================================================

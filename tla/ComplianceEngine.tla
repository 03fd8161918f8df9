----------------------------- MODULE ComplianceEngine -----------------------------
(***************************************************************************)
(* services/compliance/src/engine.ts over the compliance and audit         *)
(* repositories, for the evaluations of one organization.                  *)
(*                                                                         *)
(*   evaluate   source policy | destination policy | rules, decision |     *)
(*              INSERT of the assessment | audit row, answer               *)
(*                                                                         *)
(* Country policies and rules change between any two of these steps.       *)
(***************************************************************************)
EXTENDS Integers, FiniteSets, FiniteSetsExt

CONSTANTS Callers,        \* concurrent evaluations
          Countries,
          Amounts,        \* amounts evaluated
          Rules,          \* rules that may be created: [name, limit]
          MaxAssessments, \* bound: no evaluation begins at this many
          Faults,         \* may a database call fail?
          None

VARIABLES blocked,     \* the countries whose policy says blocked
          rules,       \* the organization's active rules
          assessments, \* compliance_assessments: the decisions stored
          audit,       \* COMPLIANCE_EVALUATED rows: the decisions logged
          answers,     \* the decisions callers were told, as a result or
                       \* as a ComplianceRejectedError
          steady,      \* history: countries blocked since the call began
          pc,
          req,         \* the call's arguments
          flags,       \* which ends of the payment it found blocked
          decision     \* its decision

vars   == <<blocked, rules, assessments, audit, answers, steady, pc, req, flags, decision>>
policy == <<blocked, rules>>
stored == <<assessments, audit, answers>>

Request == [source : Countries, destination : Countries, amount : Amounts]
Ends    == {"source", "destination"}

ASSUME ComplianceAssumption ==
  /\ Amounts \subseteq Nat
  /\ MaxAssessments \in Nat
  /\ Faults \in BOOLEAN
  /\ IsFiniteSet(Rules)
  /\ \A r \in Rules : r.limit \in Nat
  /\ None \notin Request

-----------------------------------------------------------------------------------
(* Slip: the score is not kept from going below zero.                      *)
deductUnclamped(score, points) == score - points

deduct(score, points) == IF score > points THEN score - points ELSE 0

(* A rule whose limit is 0 is falsy, and never violated.                   *)
violated(amount) == { r \in rules : r.limit # 0 /\ amount > r.limit }

(* From 100, or 0 for a blocked country, down by each risk factor in turn. *)
scoreOf(amount, ends, violations) ==
  LET start    == IF ends # {} THEN 0 ELSE 100
      high     == IF amount > 10000 THEN deduct(start, 20) ELSE start
      veryHigh == IF amount > 50000 THEN deduct(high, 30) ELSE high
  IN  FoldSet(LAMBDA r, score : deduct(score, 15), veryHigh, violations)

(* Slip: the flags are not searched.                                       *)
approveByScore(score, ends, violations) == score >= 60

(* Flags are searched for the word "blocked": those of blocked countries   *)
(* contain it, and so may the name of a violated rule.                     *)
approve(score, ends, violations) ==
  score >= 60 /\ ends = {} /\ \A r \in violations : r.name # "blocked"

riskLevel(score) == CASE score >= 80               -> "LOW"
                      [] score >= 60 /\ score < 80 -> "MEDIUM"
                      [] score >= 30 /\ score < 60 -> "HIGH"
                      [] score < 30                -> "CRITICAL"

decide(r, ends, violations) ==
  LET score == scoreOf(r.amount, ends, violations)
  IN  [req |-> r, ends |-> ends, violations |-> violations, score |-> score,
       approved |-> approve(score, ends, violations), risk |-> riskLevel(score)]

validateCountry(country) == country \notin blocked

-----------------------------------------------------------------------------------
Init == /\ blocked = {} /\ rules = {}
        /\ assessments = {} /\ audit = {} /\ answers = {}
        /\ steady   = [c \in Callers |-> {}]
        /\ pc       = [c \in Callers |-> "idle"]
        /\ req      = [c \in Callers |-> None]
        /\ flags    = [c \in Callers |-> {}]
        /\ decision = [c \in Callers |-> None]

Goto(c, from, to) == pc[c] = from /\ pc' = [pc EXCEPT ![c] = to]

Return(c) == /\ pc'       = [pc EXCEPT ![c] = "idle"]
             /\ req'      = [req EXCEPT ![c] = None]
             /\ flags'    = [flags EXCEPT ![c] = {}]
             /\ decision' = [decision EXCEPT ![c] = None]
             /\ steady'   = [steady EXCEPT ![c] = {}]

(* upsertCountryPolicy and createRule, called from outside the engine.     *)
upsertCountryPolicy(country, block) ==
  /\ blocked' = IF block THEN blocked \cup {country} ELSE blocked \ {country}
  /\ steady'  = [c \in Callers |-> steady[c] \cap blocked']
  /\ UNCHANGED <<rules, stored, pc, req, flags, decision>>

createRule(r) == /\ rules' = rules \cup {r}
                 /\ UNCHANGED <<blocked, stored, steady, pc, req, flags, decision>>

-----------------------------------------------------------------------------------
found(end, country) == IF country \in blocked THEN {end} ELSE {}

(* evaluate: the policy of the source country.                             *)
evaluate(c, r) ==
  /\ Goto(c, "idle", "destination")
  /\ Cardinality(assessments) < MaxAssessments
  /\ req'    = [req EXCEPT ![c] = r]
  /\ flags'  = [flags EXCEPT ![c] = found("source", r.source)]
  /\ steady' = [steady EXCEPT ![c] = blocked]
  /\ UNCHANGED <<policy, stored, decision>>

(* Slip: the flag of the source is overwritten.                            *)
ReadDestinationOnly(c) ==
  /\ Goto(c, "destination", "rules")
  /\ flags' = [flags EXCEPT ![c] = found("destination", req[c].destination)]
  /\ UNCHANGED <<policy, stored, steady, req, decision>>

ReadDestination(c) ==
  /\ Goto(c, "destination", "rules")
  /\ flags' = [flags EXCEPT ![c] = @ \cup found("destination", req[c].destination)]
  /\ UNCHANGED <<policy, stored, steady, req, decision>>

ReadRules(c) ==
  /\ Goto(c, "rules", "assessment")
  /\ decision' = [decision EXCEPT ![c] = decide(req[c], flags[c], violated(req[c].amount))]
  /\ UNCHANGED <<policy, stored, steady, req, flags>>

(* Slip: a rejection is thrown before it is stored.                        *)
createAssessmentApproved(c) ==
  /\ pc[c] = "assessment"
  /\ \/ /\ decision[c].approved
        /\ assessments' = assessments \cup {decision[c]}
        /\ pc' = [pc EXCEPT ![c] = "audit"]
        /\ UNCHANGED <<answers, steady, req, flags, decision>>
     \/ /\ ~decision[c].approved
        /\ answers' = answers \cup {decision[c]}
        /\ Return(c)
        /\ UNCHANGED assessments
  /\ UNCHANGED <<policy, audit>>

createAssessment(c) ==
  /\ Goto(c, "assessment", "audit")
  /\ assessments' = assessments \cup {decision[c]}
  /\ UNCHANGED <<policy, audit, answers, steady, req, flags, decision>>

(* The audit row; then the decision is returned, or thrown if rejected.    *)
LogEvaluated(c) ==
  /\ pc[c] = "audit"
  /\ audit'   = audit \cup {decision[c]}
  /\ answers' = answers \cup {decision[c]}
  /\ Return(c)
  /\ UNCHANGED <<policy, assessments>>

(* A database call fails, and the call throws; nothing is undone.          *)
Fail(c) == /\ Faults
           /\ pc[c] # "idle"
           /\ Return(c)
           /\ UNCHANGED <<policy, stored>>

Step(c) == ReadDestination(c) \/ ReadRules(c) \/ createAssessment(c) \/ LogEvaluated(c)

Next == \/ \E country \in Countries, block \in BOOLEAN : upsertCountryPolicy(country, block)
        \/ \E r \in Rules : createRule(r)
        \/ \E c \in Callers : (\E r \in Request : evaluate(c, r)) \/ Step(c) \/ Fail(c)

Spec == Init /\ [][Next]_vars

-----------------------------------------------------------------------------------
Decision == [req : Request, ends : SUBSET Ends, violations : SUBSET Rules,
             score : 0..100, approved : BOOLEAN,
             risk : {"LOW", "MEDIUM", "HIGH", "CRITICAL"}]

(* The variables have their types; scores are between 0 and 100.           *)
TypeOK ==
  /\ blocked \subseteq Countries /\ rules \subseteq Rules
  /\ assessments \subseteq Decision /\ audit \subseteq Decision /\ answers \subseteq Decision
  /\ steady \in [Callers -> SUBSET Countries]
  /\ pc \in [Callers -> {"idle", "destination", "rules", "assessment", "audit"}]
  /\ req \in [Callers -> Request \cup {None}]
  /\ flags \in [Callers -> SUBSET Ends]
  /\ decision \in [Callers -> Decision \cup {None}]
  /\ \A c \in Callers : /\ pc[c] # "idle" => req[c] \in Request
                        /\ pc[c] \in {"assessment", "audit"} => decision[c] \in Decision

(* What a caller is told, approval or ComplianceRejectedError, is stored   *)
(* and logged by then, although other evaluations race and some fail; and  *)
(* nothing is logged that is not stored.                                   *)
AnswersRecorded == answers \subseteq audit /\ audit \subseteq assessments

(* The order in which evaluate deducts does not matter.  Each decision is  *)
(* the one its own record calls for: 100 less 20 above 10000, 30 more      *)
(* above 50000 and 15 for each rule violated, at least 0; rejected below   *)
(* 60 and for a blocked country or a rule named so.                        *)
DecisionsFollowRecord ==
  \A d \in assessments :
    LET points == (IF d.req.amount > 10000 THEN 20 ELSE 0)
                + (IF d.req.amount > 50000 THEN 30 ELSE 0) + 15 * Cardinality(d.violations)
        clear  == d.ends = {} /\ \A r \in d.violations : r.name # "blocked"
    IN  /\ d.score = IF d.ends = {} /\ points < 100 THEN 100 - points ELSE 0
        /\ d.approved <=> clear /\ points <= 40
        /\ d.approved => d.risk \in {"LOW", "MEDIUM"}

(* Policies are read one by one while they change, yet a country that is   *)
(* blocked from the beginning of an evaluation on is never approved.       *)
SteadilyBlockedRejected ==
  \A c \in Callers :
    pc[c] \in {"assessment", "audit"} /\ decision[c].approved =>
      {req[c].source, req[c].destination} \cap steady[c] = {}
===================================================================================

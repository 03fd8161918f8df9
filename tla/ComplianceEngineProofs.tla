-------------------------- MODULE ComplianceEngineProofs --------------------------
(***************************************************************************)
(* Proofs about ComplianceEngine: its types, the score as a function of    *)
(* the record, and what becomes of a decision and of a blocked country     *)
(* while evaluations race.                                                 *)
(***************************************************************************)
EXTENDS ComplianceEngine, FiniteSetTheorems, TLAPS

(* The rules' deductions are a fold over the violated rules, in an order   *)
(* that the code leaves to the database.                                   *)
deductRule(r, score) == deduct(score, 15)
itself(r) == r

Score == INSTANCE FoldLemmas WITH Op <- deductRule, Weight <- itself

LEMMA FoldDeducts ==
  ASSUME NEW v \in Nat, NEW S, IsFiniteSet(S)
  PROVE  Score!Fold(v, S) = deduct(v, 15 * Cardinality(S))
<1> DEFINE Bad == { s \in SUBSET S : Score!Fold(v, s) # deduct(v, 15 * Cardinality(s)) }
<1>1. SUFFICES ASSUME Bad # {} PROVE FALSE
  OBVIOUS
<1>2. PICK s \in Bad : \A u \in SUBSET s : u # s => u \notin Bad
  <2>1. Bad \in SUBSET (SUBSET S)
    OBVIOUS
  <2> HIDE DEF Bad
  <2> QED  BY <1>1, <2>1, Score!SmallestSubset DEF IsFiniteSet, Score!IsFiniteSet
<1>3. s \in SUBSET S /\ IsFiniteSet(s) /\ Score!Fold(v, s) # deduct(v, 15 * Cardinality(s))
  BY <1>2, FS_Subset
<1> DEFINE p == Score!Pick(s)
<1>4. Score!Fold(v, s) = IF s = {} THEN v ELSE deduct(Score!Fold(v, s \ {p}), 15)
  BY <1>3, Score!FoldRecursion DEF itself, deductRule, IsFiniteSet, Score!IsFiniteSet
<1>5. CASE s = {}
  <2>1. Cardinality(s) = 0 /\ Score!Fold(v, s) = v
    BY <1>4, <1>5, FS_EmptySet
  <2> QED  BY <1>3, <2>1 DEF deduct
<1>6. CASE s # {}
  <2>1. p \in s
    BY <1>6, Score!PickIn
  <2> HIDE DEF p
  <2>2. PICK n \in Nat : n = Cardinality(s \ {p}) /\ Cardinality(s) = n + 1
    <3>1. IsFiniteSet(s \ {p}) /\ Cardinality(s \ {p}) = Cardinality(s) - 1
      BY <1>3, <2>1, FS_RemoveElement
    <3>2. Cardinality(s) \in Nat /\ Cardinality(s \ {p}) \in Nat
      BY <1>3, <3>1, FS_CardinalityType
    <3> QED  BY <3>1, <3>2
  <2>3. Score!Fold(v, s \ {p}) = deduct(v, 15 * n)
    BY <1>2, <1>3, <2>1, <2>2
  <2>4. Score!Fold(v, s) = deduct(deduct(v, 15 * n), 15)
    BY <1>4, <1>6, <2>3
  <2>5. deduct(deduct(v, 15 * n), 15) = deduct(v, 15 * (n + 1))
    BY DEF deduct
  <2> QED  BY <1>3, <2>2, <2>4, <2>5
<1> QED  BY <1>5, <1>6

(* What evaluate deducts before it looks at the rules.                     *)
Before(amount, ends) ==
  IF ends # {} THEN 0 ELSE IF amount > 50000 THEN 50 ELSE IF amount > 10000 THEN 80 ELSE 100

(* The score in closed form: no order of the rules, and no clamping of an  *)
(* intermediate value, shows in it.                                        *)
LEMMA ScoreIs ==
  ASSUME NEW amount \in Nat, NEW ends, NEW violations, IsFiniteSet(violations)
  PROVE  scoreOf(amount, ends, violations)
           = deduct(Before(amount, ends), 15 * Cardinality(violations))
<1>1. Before(amount, ends) =
        LET start == IF ends # {} THEN 0 ELSE 100
            high  == IF amount > 10000 THEN deduct(start, 20) ELSE start
        IN  IF amount > 50000 THEN deduct(high, 30) ELSE high
  BY DEF Before, deduct
<1>2. scoreOf(amount, ends, violations) = Score!Fold(Before(amount, ends), violations)
  BY <1>1 DEF scoreOf, FoldSet, MapThenFoldSet, Score!MapThenFoldSet, Score!Fold, Score!Pick,
              itself, deductRule
<1>3. Before(amount, ends) \in Nat
  BY DEF Before
<1> QED  BY <1>2, <1>3, FoldDeducts

-----------------------------------------------------------------------------------
(* A decision is what its own record calls for.                            *)
Follows(d) ==
  LET points == (IF d.req.amount > 10000 THEN 20 ELSE 0)
              + (IF d.req.amount > 50000 THEN 30 ELSE 0) + 15 * Cardinality(d.violations)
      clear  == d.ends = {} /\ \A r \in d.violations : r.name # "blocked"
  IN  /\ d.score = IF d.ends = {} /\ points < 100 THEN 100 - points ELSE 0
      /\ d.approved <=> clear /\ points <= 40
      /\ d.approved => d.risk \in {"LOW", "MEDIUM"}

LEMMA DecideType ==
  ASSUME NEW r \in Request, NEW ends \in SUBSET Ends, NEW violations \in SUBSET Rules
  PROVE  decide(r, ends, violations) \in Decision /\ Follows(decide(r, ends, violations))
<1> DEFINE d == decide(r, ends, violations)
<1>1. PICK amount \in Nat : amount = r.amount
  BY ComplianceAssumption DEF Request
<1>2. PICK n \in Nat : n = Cardinality(violations)
  BY ComplianceAssumption, FS_Subset, FS_CardinalityType
<1>3. PICK score : score = scoreOf(amount, ends, violations)
  OBVIOUS
<1>4. score = deduct(Before(amount, ends), 15 * n)
  BY <1>2, <1>3, ScoreIs, ComplianceAssumption, FS_Subset
<1> DEFINE points == (IF amount > 10000 THEN 20 ELSE 0) + (IF amount > 50000 THEN 30 ELSE 0) + 15 * n
<1>5. /\ score \in 0..100
      /\ score = IF ends = {} /\ points < 100 THEN 100 - points ELSE 0
      /\ score >= 60 <=> ends = {} /\ points <= 40
  BY <1>4 DEF deduct, Before
<1>6. /\ d.req = r /\ d.ends = ends /\ d.violations = violations /\ d.score = score
      /\ d.approved = approve(score, ends, violations) /\ d.risk = riskLevel(score)
  BY <1>1, <1>3 DEF decide
<1>7. riskLevel(score) \in {"LOW", "MEDIUM", "HIGH", "CRITICAL"}
  BY <1>5 DEF riskLevel
<1>8. score >= 60 => riskLevel(score) \in {"LOW", "MEDIUM"}
  BY <1>5 DEF riskLevel
<1>9. approve(score, ends, violations) \in BOOLEAN
  BY DEF approve
<1>10. d \in Decision
  BY <1>1, <1>3, <1>5, <1>7, <1>9 DEF decide, Decision
<1>11. Follows(d)
  <2> HIDE DEF d
  <2>1. points = (IF d.req.amount > 10000 THEN 20 ELSE 0)
               + (IF d.req.amount > 50000 THEN 30 ELSE 0) + 15 * Cardinality(d.violations)
    BY <1>1, <1>2, <1>6
  <2>2. d.approved <=> score >= 60 /\ ends = {} /\ \A x \in violations : x.name # "blocked"
    BY <1>6 DEF approve
  <2> HIDE DEF points
  <2>3. d.score = IF d.ends = {} /\ points < 100 THEN 100 - points ELSE 0
    BY <1>5, <1>6
  <2>4. d.approved <=> (d.ends = {} /\ \A x \in d.violations : x.name # "blocked") /\ points <= 40
    BY <1>5, <1>6, <2>2
  <2>5. d.approved => d.risk \in {"LOW", "MEDIUM"}
    BY <1>6, <1>8, <2>2
  <2> QED  BY <2>1, <2>3, <2>4, <2>5 DEF Follows
<1> QED  BY <1>10, <1>11

LEMMA TypeNext == TypeOK /\ [Next]_vars => TypeOK'
<1> SUFFICES ASSUME TypeOK, [Next]_vars PROVE TypeOK'
  OBVIOUS
<1> USE DEF TypeOK, policy, stored
<1>1. ASSUME NEW country \in Countries, NEW block \in BOOLEAN,
             upsertCountryPolicy(country, block)
      PROVE  TypeOK'
  BY <1>1 DEF upsertCountryPolicy
<1>2. ASSUME NEW r \in Rules, createRule(r) PROVE TypeOK'
  BY <1>2 DEF createRule
<1>3. ASSUME NEW c \in Callers, NEW r \in Request, evaluate(c, r) PROVE TypeOK'
  BY <1>3 DEF evaluate, Goto, found, Ends
<1>4. ASSUME NEW c \in Callers, ReadDestination(c) PROVE TypeOK'
  BY <1>4 DEF ReadDestination, Goto, found, Ends
<1>5. ASSUME NEW c \in Callers, ReadRules(c) PROVE TypeOK'
  <2>1. req[c] \in Request /\ flags[c] \in SUBSET Ends /\ violated(req[c].amount) \in SUBSET Rules
    BY <1>5 DEF ReadRules, Goto, violated
  <2>2. decide(req[c], flags[c], violated(req[c].amount)) \in Decision
    BY <2>1, DecideType
  <2> QED  BY <1>5, <2>2 DEF ReadRules, Goto
<1>6. ASSUME NEW c \in Callers, createAssessment(c) PROVE TypeOK'
  BY <1>6 DEF createAssessment, Goto
<1>7. ASSUME NEW c \in Callers, LogEvaluated(c) PROVE TypeOK'
  BY <1>7 DEF LogEvaluated, Return
<1>8. ASSUME NEW c \in Callers, Fail(c) PROVE TypeOK'
  BY <1>8 DEF Fail, Return
<1>9. CASE UNCHANGED vars
  BY <1>9 DEF vars
<1> QED
  BY <1>1, <1>2, <1>3, <1>4, <1>5, <1>6, <1>7, <1>8, <1>9 DEF Next, Step

(* The engine's variables keep their types: every score stored, logged or  *)
(* answered is between 0 and 100.                                          *)
THEOREM TypeCorrect == Spec => []TypeOK
<1>1. Init => TypeOK
  BY DEF Init, TypeOK
<1> QED  BY <1>1, TypeNext, PTL DEF Spec

(* What the invariants below need of it.                                   *)
Shape == /\ steady \in [Callers -> SUBSET Countries]
         /\ flags \in [Callers -> SUBSET Ends]
         /\ DOMAIN pc = Callers /\ DOMAIN req = Callers /\ DOMAIN decision = Callers
         /\ blocked \subseteq Countries

LEMMA TypeShape == TypeOK => Shape
BY DEF TypeOK, Shape

-----------------------------------------------------------------------------------
(* The decision of a call follows its record before it is stored, too.     *)
DecisionFollows == \A c \in Callers :
  pc[c] \in {"assessment", "audit"} => Follows(decision[c])

FollowInv == DecisionFollows /\ \A d \in assessments : Follows(d)

LEMMA FollowNext == TypeOK /\ FollowInv /\ [Next]_vars => FollowInv'
<1> SUFFICES ASSUME TypeOK, FollowInv, [Next]_vars PROVE FollowInv'
  OBVIOUS
<1> USE DEF FollowInv, DecisionFollows, Shape, policy, stored
<1> Shape
  BY TypeShape
<1>1. ASSUME NEW country \in Countries, NEW block \in BOOLEAN,
             upsertCountryPolicy(country, block)
      PROVE  FollowInv'
  BY <1>1 DEF upsertCountryPolicy
<1>2. ASSUME NEW r \in Rules, createRule(r) PROVE FollowInv'
  BY <1>2 DEF createRule
<1>3. ASSUME NEW c \in Callers, NEW r \in Request, evaluate(c, r) PROVE FollowInv'
  BY <1>3 DEF evaluate, Goto
<1>4. ASSUME NEW c \in Callers, ReadDestination(c) PROVE FollowInv'
  BY <1>4 DEF ReadDestination, Goto
<1>5. ASSUME NEW c \in Callers, ReadRules(c) PROVE FollowInv'
  <2>1. req[c] \in Request /\ flags[c] \in SUBSET Ends /\ violated(req[c].amount) \in SUBSET Rules
    BY <1>5 DEF ReadRules, Goto, violated, TypeOK
  <2>2. Follows(decide(req[c], flags[c], violated(req[c].amount)))
    BY <2>1, DecideType
  <2> QED  BY <1>5, <2>2 DEF ReadRules, Goto
<1>6. ASSUME NEW c \in Callers, createAssessment(c) PROVE FollowInv'
  BY <1>6 DEF createAssessment, Goto
<1>7. ASSUME NEW c \in Callers, LogEvaluated(c) PROVE FollowInv'
  BY <1>7 DEF LogEvaluated, Return
<1>8. ASSUME NEW c \in Callers, Fail(c) PROVE FollowInv'
  BY <1>8 DEF Fail, Return
<1>9. CASE UNCHANGED vars
  BY <1>9 DEF vars
<1> QED
  BY <1>1, <1>2, <1>3, <1>4, <1>5, <1>6, <1>7, <1>8, <1>9 DEF Next, Step

(* Every decision stored is the one its own record calls for, whatever     *)
(* the rules and policies became while it was made.                        *)
THEOREM DecisionsFollow == Spec => []DecisionsFollowRecord
<1>1. Init => FollowInv
  BY DEF Init, FollowInv, DecisionFollows
<1>2. FollowInv => DecisionsFollowRecord
  BY DEF FollowInv, Follows, DecisionsFollowRecord
<1> QED
  BY <1>1, <1>2, FollowNext, TypeCorrect, PTL DEF Spec

-----------------------------------------------------------------------------------
(* A decision that is being logged is stored.                              *)
StoredFirst == \A c \in Callers : pc[c] = "audit" => decision[c] \in assessments

RecordInv == StoredFirst /\ AnswersRecorded

LEMMA RecordNext == Shape /\ RecordInv /\ [Next]_vars => RecordInv'
<1> SUFFICES ASSUME Shape, RecordInv, [Next]_vars PROVE RecordInv'
  OBVIOUS
<1> USE DEF Shape, RecordInv, StoredFirst, AnswersRecorded, policy, stored
<1>1. ASSUME NEW country \in Countries, NEW block \in BOOLEAN,
             upsertCountryPolicy(country, block)
      PROVE  RecordInv'
  BY <1>1 DEF upsertCountryPolicy
<1>2. ASSUME NEW r \in Rules, createRule(r) PROVE RecordInv'
  BY <1>2 DEF createRule
<1>3. ASSUME NEW c \in Callers, NEW r \in Request, evaluate(c, r) PROVE RecordInv'
  BY <1>3 DEF evaluate, Goto
<1>4. ASSUME NEW c \in Callers, ReadDestination(c) PROVE RecordInv'
  BY <1>4 DEF ReadDestination, Goto
<1>5. ASSUME NEW c \in Callers, ReadRules(c) PROVE RecordInv'
  BY <1>5 DEF ReadRules, Goto
<1>6. ASSUME NEW c \in Callers, createAssessment(c) PROVE RecordInv'
  BY <1>6 DEF createAssessment, Goto
<1>7. ASSUME NEW c \in Callers, LogEvaluated(c) PROVE RecordInv'
  BY <1>7 DEF LogEvaluated, Return
<1>8. ASSUME NEW c \in Callers, Fail(c) PROVE RecordInv'
  BY <1>8 DEF Fail, Return
<1>9. CASE UNCHANGED vars
  BY <1>9 DEF vars
<1> QED
  BY <1>1, <1>2, <1>3, <1>4, <1>5, <1>6, <1>7, <1>8, <1>9 DEF Next, Step

(* What a caller is told is stored and logged by then, and nothing is      *)
(* logged that is not stored: engine.ts inserts, logs, then answers.       *)
THEOREM DecisionsRecorded == Spec => []AnswersRecorded
<1>1. Init => RecordInv
  BY DEF Init, RecordInv, StoredFirst, AnswersRecorded
<1>2. TypeOK /\ RecordInv /\ [Next]_vars => RecordInv'
  BY TypeShape, RecordNext
<1>3. RecordInv => AnswersRecorded
  BY DEF RecordInv
<1> QED
  BY <1>1, <1>2, <1>3, TypeCorrect, PTL DEF Spec

-----------------------------------------------------------------------------------
(* A country blocked since the call began is blocked now; an end whose     *)
(* policy was read while its country was blocked has its flag; and a       *)
(* decision approves only where no flag was found.                         *)
StillBlocked   == \A c \in Callers : steady[c] \subseteq blocked
SourceSeen     == \A c \in Callers :
  pc[c] # "idle" /\ req[c].source \in steady[c] => "source" \in flags[c]
DestinationSeen == \A c \in Callers :
  pc[c] \in {"rules", "assessment", "audit"} /\ req[c].destination \in steady[c]
    => "destination" \in flags[c]
ApprovedClear  == \A c \in Callers :
  pc[c] \in {"assessment", "audit"} /\ decision[c].approved => flags[c] = {}

BlockInv == StillBlocked /\ SourceSeen /\ DestinationSeen /\ ApprovedClear

(* decide approves only a payment none of whose ends was found blocked.    *)
LEMMA ApprovalNeedsClear ==
  ASSUME NEW r, NEW ends, NEW violations, decide(r, ends, violations).approved
  PROVE  ends = {}
BY DEF decide, approve

LEMMA BlockNext == Shape /\ BlockInv /\ [Next]_vars => BlockInv'
<1> SUFFICES ASSUME Shape, BlockInv, [Next]_vars PROVE BlockInv'
  OBVIOUS
<1> USE DEF Shape, BlockInv, StillBlocked, SourceSeen, DestinationSeen, ApprovedClear,
            policy, stored
<1>1. ASSUME NEW country \in Countries, NEW block \in BOOLEAN,
             upsertCountryPolicy(country, block)
      PROVE  BlockInv'
  BY <1>1 DEF upsertCountryPolicy
<1>2. ASSUME NEW r \in Rules, createRule(r) PROVE BlockInv'
  BY <1>2 DEF createRule
<1>3. ASSUME NEW c \in Callers, NEW r \in Request, evaluate(c, r) PROVE BlockInv'
  BY <1>3 DEF evaluate, Goto, found
<1>4. ASSUME NEW c \in Callers, ReadDestination(c) PROVE BlockInv'
  BY <1>4 DEF ReadDestination, Goto, found
<1>5. ASSUME NEW c \in Callers, ReadRules(c) PROVE BlockInv'
  <2>1. decision'[c] = decide(req[c], flags[c], violated(req[c].amount))
    BY <1>5 DEF ReadRules
  <2>2. ApprovedClear'
    BY <1>5, <2>1, ApprovalNeedsClear DEF ReadRules, Goto
  <2> QED
    BY <1>5, <2>2 DEF ReadRules, Goto
<1>6. ASSUME NEW c \in Callers, createAssessment(c) PROVE BlockInv'
  BY <1>6 DEF createAssessment, Goto
<1>7. ASSUME NEW c \in Callers, LogEvaluated(c) PROVE BlockInv'
  BY <1>7 DEF LogEvaluated, Return
<1>8. ASSUME NEW c \in Callers, Fail(c) PROVE BlockInv'
  BY <1>8 DEF Fail, Return
<1>9. CASE UNCHANGED vars
  BY <1>9 DEF vars
<1> QED
  BY <1>1, <1>2, <1>3, <1>4, <1>5, <1>6, <1>7, <1>8, <1>9 DEF Next, Step

(* However policies and rules change meanwhile, no evaluation approves a   *)
(* payment from or to a country blocked from its beginning on.             *)
THEOREM BlockedRejected == Spec => []SteadilyBlockedRejected
<1>1. Init => BlockInv
  BY DEF Init, BlockInv, StillBlocked, SourceSeen, DestinationSeen, ApprovedClear
<1>2. TypeOK /\ BlockInv /\ [Next]_vars => BlockInv'
  BY TypeShape, BlockNext
<1>3. BlockInv => SteadilyBlockedRejected
  BY DEF BlockInv, SourceSeen, DestinationSeen, ApprovedClear, SteadilyBlockedRejected
<1> QED
  BY <1>1, <1>2, <1>3, TypeCorrect, PTL DEF Spec
===================================================================================

-------------------------- MODULE SettlementEngineProofs --------------------------
(***************************************************************************)
(* What holds of the settlement engine for any number of callers and       *)
(* settlements, any bound and with or without failures; and what one       *)
(* caller at a time buys.                                                  *)
(***************************************************************************)
EXTENDS SettlementEngine, FiniteSetTheorems, TLAPS

-----------------------------------------------------------------------------------
(* The transition table, read row by row.                                  *)
LEMMA Table ==
  ASSUME NEW x, NEW y
  PROVE  canTransition(x, y) <=>
    \/ x = "REQUESTED"           /\ y \in {"IDENTITY_VERIFIED", "CANCELLED", "REJECTED"}
    \/ x = "IDENTITY_VERIFIED"   /\ y \in {"COMPLIANCE_APPROVED", "FAILED", "REJECTED"}
    \/ x = "COMPLIANCE_APPROVED" /\ y \in {"LIQUIDITY_RESERVED", "FAILED"}
    \/ x = "LIQUIDITY_RESERVED"  /\ y \in {"ROUTE_SELECTED", "FAILED", "CANCELLED"}
    \/ x = "ROUTE_SELECTED"      /\ y \in {"READY", "FAILED"}
    \/ x = "READY"               /\ y \in {"SUBMITTED", "CANCELLED"}
    \/ x = "SUBMITTED"           /\ y \in {"ACCEPTED", "FAILED", "REJECTED"}
    \/ x = "ACCEPTED"            /\ y \in {"FINALIZED", "FAILED"}
    \/ x = "FINALIZED"           /\ y \in {"ATTESTED", "FAILED"}
    \/ x = "ATTESTED"            /\ y \in {"PROOF_GENERATED", "FAILED"}
    \/ x = "PROOF_GENERATED"     /\ y \in {"COMPLETED"}
BY DEF canTransition, ALLOWED_TRANSITIONS

(* The two tables of settlement-state-machine.ts agree: a status is        *)
(* terminal exactly if the table has no transition out of it.              *)
LEMMA TerminalMeansNoExit ==
  \A x \in SettlementStatus : isTerminal(x) <=> allowedTransitions(x) = {}
BY Table DEF SettlementStatus, Stages, TERMINAL_STATES, isTerminal, allowedTransitions

(* An accepted transition leads from one status to a different one, from a *)
(* stage of the protocol and never back to REQUESTED.                      *)
LEMMA TransitionTypes ==
  ASSUME NEW x, NEW y, canTransition(x, y)
  PROVE  /\ x \in Stages /\ x \in SettlementStatus
         /\ y \in SettlementStatus \ {"REQUESTED", x}
         /\ ~isTerminal(x)
BY Table DEF SettlementStatus, Stages, TERMINAL_STATES, isTerminal

(* What validateSettlement answers is what progressSettlement does: valid  *)
(* means that some transition would be accepted, and nextStates are those  *)
(* that would.                                                             *)
THEOREM ValidateTruthful ==
  ASSUME TypeOK, NEW id \in Settlements
  PROVE  /\ validateSettlement(id).valid <=> \E next : canTransition(status[id], next)
         /\ \A next : next \in validateSettlement(id).nextStates
                     <=> canTransition(status[id], next)
<1>1. CASE status[id] = None
  <2>1. \A next : ~canTransition(None, next)
    BY SettlementAssumption, Table DEF SettlementStatus, Stages
  <2> QED  BY <1>1, <2>1 DEF validateSettlement
<1>2. CASE status[id] # None
  <2>1. status[id] \in SettlementStatus
    BY <1>2 DEF TypeOK
  <2>2. \A next : canTransition(status[id], next) => next \in SettlementStatus
    BY TransitionTypes
  <2>3. isTerminal(status[id]) <=> allowedTransitions(status[id]) = {}
    BY <2>1, TerminalMeansNoExit
  <2> QED  BY <1>2, <2>2, <2>3 DEF validateSettlement, allowedTransitions
<1> QED  BY <1>1, <1>2

-----------------------------------------------------------------------------------
(* Appending a record to one of several logs leaves them logs.             *)
LEMMA AppendRow ==
  ASSUME NEW S, NEW T, NEW f \in [S -> Seq(T)], NEW s \in S, NEW e \in T
  PROVE  [f EXCEPT ![s] = Append(@, e)] \in [S -> Seq(T)]
<1>1. f[s] \in Seq(T)
  OBVIOUS
<1>2. Append(f[s], e) \in Seq(T)
  BY <1>1
<1> QED
  BY <1>2

LEMMA TypeInit == Init => TypeOK
BY SettlementAssumption DEF Init, TypeOK

LEMMA TypeNext == TypeOK /\ [Next]_vars => TypeOK'
<1> SUFFICES ASSUME TypeOK, [Next]_vars PROVE TypeOK'
  OBVIOUS
<1> USE SettlementAssumption
<1>1. ASSUME NEW c \in Callers, NEW id \in Settlements, createSettlement(c, id)
      PROVE  TypeOK'
  BY <1>1 DEF TypeOK, createSettlement, Goto, Request, SettlementStatus, Stages
<1>2. ASSUME NEW c \in Callers, NEW id \in Settlements, NEW next \in SettlementStatus,
             NEW corr \in Correlation, progressSettlement(c, id, next, corr)
      PROVE  TypeOK'
  <2>1. /\ [id |-> id, next |-> next, corr |-> corr] \in Request
        /\ status[id] \in SettlementStatus \cup {None}
    BY DEF TypeOK, Request
  <2>2. /\ req' \in [Callers -> Request \cup {None}]
        /\ seen' \in [Callers -> SettlementStatus \cup {None}]
        /\ req'[c] # None
    BY <1>2, <2>1 DEF TypeOK, progressSettlement
  <2> QED  BY <1>2, <2>2 DEF TypeOK, progressSettlement, Goto, rows
<1>3. ASSUME NEW c \in Callers, LogCreated(c) PROVE TypeOK'
  <2>1. req[c].id \in Settlements /\ [before |-> None, after |-> "REQUESTED"] \in AuditRow
    BY <1>3 DEF TypeOK, LogCreated, Goto, Request, AuditRow, SettlementStatus, Stages
  <2> QED  BY <1>3, <2>1 DEF TypeOK, LogCreated, Goto, auditLog, rows
<1>4. ASSUME NEW c \in Callers, DispatchRequested(c) PROVE TypeOK'
  BY <1>4 DEF TypeOK, DispatchRequested, Return, Request, rows
<1>5. ASSUME NEW c \in Callers, UpdateStatus(c) PROVE TypeOK'
  BY <1>5 DEF TypeOK, UpdateStatus, Goto, Request
<1>6. ASSUME NEW c \in Callers, CommitStatus(c) PROVE TypeOK'
  <2>1. req[c].id \in Settlements /\ req[c].next \in SettlementStatus
    BY <1>6 DEF TypeOK, CommitStatus, Goto, Request
  <2> QED  BY <1>6, <2>1 DEF TypeOK, CommitStatus, Goto
<1>7. ASSUME NEW c \in Callers, LogChange(c) PROVE TypeOK'
  <2>1. /\ req[c].id \in Settlements
        /\ [before |-> seen[c], after |-> req[c].next] \in AuditRow
    BY <1>7 DEF TypeOK, LogChange, Request, AuditRow
  <2>2. audit' \in [Settlements -> Seq(AuditRow)]
    <3> DEFINE row == [before |-> seen[c], after |-> req[c].next]
    <3>1. audit \in [Settlements -> Seq(AuditRow)] /\ row \in AuditRow
      BY <2>1 DEF TypeOK
    <3>2. audit' = audit \/ audit' = [audit EXCEPT ![req[c].id] = Append(@, row)]
      BY <1>7 DEF LogChange, auditLog
    <3> HIDE DEF row
    <3>3. [audit EXCEPT ![req[c].id] = Append(@, row)] \in [Settlements -> Seq(AuditRow)]
      BY <2>1, <3>1, AppendRow
    <3> QED  BY <3>1, <3>2, <3>3
  <2>3. cutShort' \subseteq Settlements \X Owing
    BY <1>7 DEF TypeOK, LogChange, Abandon
  <2> QED  BY <1>7, <2>2, <2>3 DEF TypeOK, LogChange, Return, rows
<1>8. ASSUME NEW c \in Callers, Fail(c) PROVE TypeOK'
  <2>1. cutShort' \subseteq Settlements \X Owing
    BY <1>8 DEF TypeOK, Fail, Abandon
  <2> QED  BY <1>8, <2>1 DEF TypeOK, Fail, Return
<1>9. CASE UNCHANGED vars
  BY <1>9 DEF TypeOK, vars
<1> QED
  BY <1>1, <1>2, <1>3, <1>4, <1>5, <1>6, <1>7, <1>8, <1>9, TransitionTypes
     DEF Next, Call, Step, cancelSettlement, failSettlement, completeSettlement,
         SettlementStatus, TERMINAL_STATES

(* The engine's variables keep their types in every behaviour.             *)
THEOREM TypeCorrect == Spec => []TypeOK
BY TypeInit, TypeNext, PTL DEF Spec

-----------------------------------------------------------------------------------
(* The row lock.                                                           *)
LEMMA LockNext == TypeOK /\ LockDiscipline /\ [Next]_vars => LockDiscipline'
<1> SUFFICES ASSUME TypeOK, LockDiscipline, [Next]_vars,
                    NEW d \in Callers, NEW s \in Settlements
             PROVE  (lock[s] = d <=> pc[d] = "commit" /\ req[d].id = s)'
  BY DEF LockDiscipline
<1>0. /\ lock \in [Settlements -> Callers \cup {None}] /\ None \notin Callers
      /\ DOMAIN pc = Callers /\ DOMAIN req = Callers
      /\ \A c \in Callers : pc[c] # "idle" => req[c].id \in Settlements
      /\ \A c \in Callers : lock[s] = c <=> pc[c] = "commit" /\ req[c].id = s
  BY SettlementAssumption DEF TypeOK, LockDiscipline, Request
<1>1. ASSUME NEW c \in Callers, Call(c)
      PROVE  (lock[s] = d <=> pc[d] = "commit" /\ req[d].id = s)'
  BY <1>0, <1>1 DEF Call, createSettlement, progressSettlement, cancelSettlement,
                    failSettlement, completeSettlement, Goto, rows
<1>2. ASSUME NEW c \in Callers, LogCreated(c) \/ DispatchRequested(c) \/ LogChange(c)
      PROVE  (lock[s] = d <=> pc[d] = "commit" /\ req[d].id = s)'
  BY <1>0, <1>2 DEF LogCreated, DispatchRequested, LogChange, Goto, Return, rows
<1>3. ASSUME NEW c \in Callers, UpdateStatus(c)
      PROVE  (lock[s] = d <=> pc[d] = "commit" /\ req[d].id = s)'
  BY <1>0, <1>3 DEF UpdateStatus, Goto
<1>4. ASSUME NEW c \in Callers, CommitStatus(c)
      PROVE  (lock[s] = d <=> pc[d] = "commit" /\ req[d].id = s)'
  BY <1>0, <1>4 DEF CommitStatus, Goto
<1>5. ASSUME NEW c \in Callers, Fail(c)
      PROVE  (lock[s] = d <=> pc[d] = "commit" /\ req[d].id = s)'
  BY <1>0, <1>5 DEF Fail, Return
<1>6. CASE UNCHANGED vars
  BY <1>0, <1>6 DEF vars
<1> QED
  BY <1>1, <1>2, <1>3, <1>4, <1>5, <1>6 DEF Next, Step

(* At most one call is between its UPDATE and its COMMIT on a settlement,  *)
(* and a call that failed leaves no lock behind.                           *)
THEOREM LockDisciplined == Spec => []LockDiscipline
<1>1. Init => LockDiscipline
  BY SettlementAssumption DEF Init, LockDiscipline
<1> QED
  BY <1>1, TypeCorrect, LockNext, PTL DEF Spec

-----------------------------------------------------------------------------------
(* A history <<x>> \o seq, index by index.                                 *)
LEMMA Prepend ==
  ASSUME NEW T, NEW seq \in Seq(T), NEW x \in T
  PROVE  /\ Len(seq) \in Nat
         /\ Len(<<x>> \o seq) = Len(seq) + 1
         /\ (<<x>> \o seq)[1] = x
         /\ \A i \in 1..Len(seq) : (<<x>> \o seq)[i + 1] = seq[i]
OBVIOUS

(* One more record leaves the history so far as it is.                     *)
LEMMA PrependAppend ==
  ASSUME NEW T, NEW seq \in Seq(T), NEW x \in T, NEW e \in T
  PROVE  /\ Append(seq, e) \in Seq(T) /\ Len(Append(seq, e)) = Len(seq) + 1
         /\ \A i \in 1..Len(seq) : Append(seq, e)[i] = seq[i]
         /\ Append(seq, e)[Len(seq) + 1] = e
         /\ \A i \in 1..Len(seq) + 1 : (<<x>> \o Append(seq, e))[i] = (<<x>> \o seq)[i]
         /\ (<<x>> \o Append(seq, e))[Len(seq) + 2] = e
OBVIOUS

(* What a call knows between its check and its commit: the transition it   *)
(* was granted starts from a status its settlement has had.                *)
InFlightJustified ==
  \A c \in Callers : pc[c] \in {"update", "commit"} =>
    /\ canTransition(seen[c], req[c].next)
    /\ status[req[c].id] # None
    /\ \E j \in 1..Len(timeline[req[c].id]) + 1 : history(req[c].id)[j] = seen[c]

HistoryInv == TimelineMatchesStatus /\ TimelineJustified /\ InFlightJustified

LEMMA HistoryInit == Init => HistoryInv
BY DEF Init, HistoryInv, TimelineMatchesStatus, TimelineJustified, InFlightJustified

LEMMA HistoryNext == TypeOK /\ HistoryInv /\ [Next]_vars => HistoryInv'
<1> SUFFICES ASSUME TypeOK, HistoryInv, [Next]_vars PROVE HistoryInv'
  OBVIOUS
<1>t. /\ \A s \in Settlements : timeline[s] \in Seq(SettlementStatus)
      /\ DOMAIN status = Settlements /\ DOMAIN timeline = Settlements
      /\ DOMAIN pc = Callers /\ DOMAIN req = Callers /\ DOMAIN seen = Callers
      /\ \A c \in Callers : pc[c] # "idle" =>
           req[c].id \in Settlements /\ req[c].next \in SettlementStatus
      /\ "REQUESTED" \in SettlementStatus /\ None \notin SettlementStatus
  BY SettlementAssumption DEF TypeOK, Request, SettlementStatus, Stages
(* A step that leaves status and timeline alone, and starts no check.      *)
<1>q. ASSUME UNCHANGED <<status, timeline>>,
             \A c \in Callers : pc'[c] \in {"update", "commit"} =>
               pc[c] \in {"update", "commit"} /\ req'[c] = req[c] /\ seen'[c] = seen[c]
      PROVE  HistoryInv'
  BY <1>q DEF HistoryInv, TimelineMatchesStatus, TimelineJustified, InFlightJustified, history
<1>1. ASSUME NEW c \in Callers, NEW id \in Settlements, createSettlement(c, id)
      PROVE  HistoryInv'
  <2>1. /\ timeline' = timeline /\ timeline[id] = << >>
        /\ status' = [status EXCEPT ![id] = "REQUESTED"]
        /\ seen' = seen
        /\ \A d \in Callers : pc'[d] \in {"update", "commit"} =>
             pc[d] \in {"update", "commit"} /\ req'[d] = req[d]
    BY <1>1, <1>t DEF createSettlement, Goto, HistoryInv, TimelineJustified
  <2>2. TimelineMatchesStatus'
    <3>1. <<"REQUESTED">> \o timeline[id] = <<"REQUESTED">>
      BY <2>1
    <3> QED  BY <2>1, <3>1, <1>t DEF HistoryInv, TimelineMatchesStatus, history
  <2>3. TimelineJustified'
    BY <2>1, <1>t DEF HistoryInv, TimelineJustified, history
  <2>4. InFlightJustified'
    BY <2>1, <1>t DEF HistoryInv, InFlightJustified, history
  <2> QED  BY <2>2, <2>3, <2>4 DEF HistoryInv
<1>2. ASSUME NEW c \in Callers, NEW id \in Settlements, NEW next \in SettlementStatus,
             NEW corr \in Correlation, progressSettlement(c, id, next, corr)
      PROVE  HistoryInv'
  <2>1. /\ UNCHANGED <<status, timeline>>
        /\ canTransition(status[id], next)
        /\ req' = [req EXCEPT ![c] = [id |-> id, next |-> next, corr |-> corr]]
        /\ seen' = [seen EXCEPT ![c] = status[id]]
        /\ pc' = [pc EXCEPT ![c] = "update"]
    BY <1>2 DEF progressSettlement, Goto, rows
  <2>2. status[id] # None
    BY <2>1, <1>t, TransitionTypes
  <2>3. \E j \in 1..Len(timeline[id]) + 1 : history(id)[j] = status[id]
    <3>1. status[id] = history(id)[Len(timeline[id]) + 1]
      BY <2>2, <1>t, Prepend DEF HistoryInv, TimelineMatchesStatus, history
    <3> QED  BY <3>1, <1>t
  <2>4. InFlightJustified'
    BY <2>1, <2>2, <2>3, <1>t DEF HistoryInv, InFlightJustified, history
  <2> QED
    BY <2>1, <2>4 DEF HistoryInv, TimelineMatchesStatus, TimelineJustified, history
<1>3. ASSUME NEW c \in Callers, CommitStatus(c) PROVE HistoryInv'
  <2> DEFINE id == req[c].id  next == req[c].next  t == timeline[id]
             h(s) == <<"REQUESTED">> \o timeline[s]
             g(s) == <<"REQUESTED">> \o timeline'[s]
  <2>1. /\ pc[c] = "commit" /\ pc' = [pc EXCEPT ![c] = "audit"]
        /\ req' = req /\ seen' = seen
        /\ status' = [status EXCEPT ![id] = next]
        /\ timeline' = [timeline EXCEPT ![id] = Append(t, next)]
    BY <1>3 DEF CommitStatus, Goto
  <2>2. /\ id \in Settlements /\ next \in SettlementStatus /\ t \in Seq(SettlementStatus)
    BY <2>1, <1>t
  <2>3. /\ canTransition(seen[c], next)
        /\ \E j \in 1..Len(t) + 1 : h(id)[j] = seen[c]
    BY <2>1 DEF HistoryInv, InFlightJustified, history
  <2>4. /\ Len(t) \in Nat
        /\ Len(timeline'[id]) = Len(t) + 1
        /\ \A i \in 1..Len(t) : timeline'[id][i] = t[i]
        /\ timeline'[id][Len(t) + 1] = next
        /\ \A i \in 1..Len(t) + 1 : g(id)[i] = h(id)[i]
        /\ g(id)[Len(t) + 2] = next
        /\ Len(g(id)) = Len(t) + 2
    <3> HIDE DEF id, next
    <3>1. timeline'[id] = Append(t, next)
      BY <2>1, <2>2, <1>t
    <3> QED  BY <2>2, <1>t, <3>1, Prepend, PrependAppend
  <2>5. \A s \in Settlements \ {id} :
          timeline'[s] = timeline[s] /\ g(s) = h(s) /\ status'[s] = status[s]
    BY <2>1, <1>t
  <2>6. status'[id] = next /\ next # None
    BY <2>1, <2>2, <1>t
  (* The invariant and its primed form, in terms of h and g.               *)
  <2>7. /\ \A s \in Settlements : status[s] # None => status[s] = h(s)[Len(h(s))]
        /\ \A s \in Settlements : timeline[s] # << >> => status[s] # None
        /\ \A s \in Settlements : \A i \in 1..Len(timeline[s]) :
             \E j \in 1..i : canTransition(h(s)[j], timeline[s][i])
        /\ \A d \in Callers : pc[d] \in {"update", "commit"} =>
             /\ canTransition(seen[d], req[d].next)
             /\ status[req[d].id] # None
             /\ \E j \in 1..Len(timeline[req[d].id]) + 1 : h(req[d].id)[j] = seen[d]
    BY DEF HistoryInv, TimelineMatchesStatus, TimelineJustified, InFlightJustified, history
  <2>8. ASSUME /\ \A s \in Settlements : status'[s] # None => status'[s] = g(s)[Len(g(s))]
               /\ \A s \in Settlements : timeline'[s] # << >> => status'[s] # None
               /\ \A s \in Settlements : \A i \in 1..Len(timeline'[s]) :
                    \E j \in 1..i : canTransition(g(s)[j], timeline'[s][i])
               /\ \A d \in Callers : pc'[d] \in {"update", "commit"} =>
                    /\ canTransition(seen'[d], req'[d].next)
                    /\ status'[req'[d].id] # None
                    /\ \E j \in 1..Len(timeline'[req'[d].id]) + 1 : g(req'[d].id)[j] = seen'[d]
        PROVE  HistoryInv'
    BY <2>8
       DEF HistoryInv, TimelineMatchesStatus, TimelineJustified, InFlightJustified, history
  <2> HIDE DEF id, next, t, g, h
  <2>9. \A s \in Settlements : status'[s] # None => status'[s] = g(s)[Len(g(s))]
    BY <2>4, <2>5, <2>6, <2>7
  <2>10. \A s \in Settlements : timeline'[s] # << >> => status'[s] # None
    BY <2>5, <2>6, <2>7
  <2>11. ASSUME NEW s \in Settlements, NEW i \in 1..Len(timeline'[s])
         PROVE  \E j \in 1..i : canTransition(g(s)[j], timeline'[s][i])
    <3>1. CASE s # id
      BY <2>5, <2>7, <3>1
    <3>2. CASE s = id /\ i = Len(t) + 1
      BY <2>3, <2>4, <3>2
    <3>3. CASE s = id /\ i # Len(t) + 1
      <4>1. i \in 1..Len(t) /\ timeline'[s][i] = t[i] /\ t = timeline[s]
        BY <2>4, <3>3 DEF t
      <4> QED  BY <4>1, <2>4, <2>7, <3>3
    <3> QED  BY <3>1, <3>2, <3>3
  <2>12. ASSUME NEW d \in Callers, pc'[d] \in {"update", "commit"}
         PROVE  /\ canTransition(seen'[d], req'[d].next)
                /\ status'[req'[d].id] # None
                /\ \E j \in 1..Len(timeline'[req'[d].id]) + 1 : g(req'[d].id)[j] = seen'[d]
    <3>1. /\ pc[d] \in {"update", "commit"} /\ req[d].id \in Settlements
          /\ req' = req /\ seen' = seen
      BY <2>1, <2>12, <1>t
    <3>2. CASE req[d].id # id
      BY <3>1, <3>2, <2>5, <2>7
    <3>3. CASE req[d].id = id
      BY <3>1, <3>3, <2>4, <2>6, <2>7 DEF t
    <3> QED  BY <3>2, <3>3
  <2> QED  BY <2>8, <2>9, <2>10, <2>11, <2>12
<1>4. ASSUME NEW c \in Callers,
             LogCreated(c) \/ DispatchRequested(c) \/ UpdateStatus(c) \/ LogChange(c) \/ Fail(c)
      PROVE  HistoryInv'
  BY <1>4, <1>q, <1>t DEF LogCreated, DispatchRequested, UpdateStatus, LogChange, Fail,
                          Goto, Return, rows
<1>5. CASE UNCHANGED vars
  BY <1>5, <1>q DEF vars
<1> QED
  BY <1>1, <1>2, <1>3, <1>4, <1>5, TransitionTypes
     DEF Next, Call, Step, cancelSettlement, failSettlement, completeSettlement,
         SettlementStatus, TERMINAL_STATES

(* The status of a settlement is the last of its timeline: the UPDATE and  *)
(* the event row are never apart.                                          *)
THEOREM TimelinesFaithful == Spec => []TimelineMatchesStatus
<1>1. HistoryInv => TimelineMatchesStatus
  BY DEF HistoryInv
<1> QED
  BY <1>1, TypeCorrect, HistoryInit, HistoryNext, PTL DEF Spec

(* Every record of a timeline was allowed from a status the settlement had *)
(* before, although calls that check the same status race.                 *)
THEOREM TimelinesJustified == Spec => []TimelineJustified
<1>1. HistoryInv => TimelineJustified
  BY DEF HistoryInv
<1> QED
  BY <1>1, TypeCorrect, HistoryInit, HistoryNext, PTL DEF Spec

-----------------------------------------------------------------------------------
(* A justified record with only one predecessor in the table comes after   *)
(* that predecessor.                                                       *)
LEMMA StepBack ==
  ASSUME NEW seq \in Seq(SettlementStatus),
         \A i \in 1..Len(seq) : \E j \in 1..i :
           canTransition((<<"REQUESTED">> \o seq)[j], seq[i]),
         NEW x, NEW y, y # "REQUESTED", \A z : canTransition(z, y) => z = x,
         NEW k \in 1..Len(seq) + 1, (<<"REQUESTED">> \o seq)[k] = y
  PROVE  \E j \in 1..k : (<<"REQUESTED">> \o seq)[j] = x
<1> DEFINE h == <<"REQUESTED">> \o seq
<1>1. "REQUESTED" \in SettlementStatus
  BY DEF SettlementStatus, Stages
<1>2. /\ Len(seq) \in Nat /\ h[1] = "REQUESTED"
      /\ \A i \in 1..Len(seq) : h[i + 1] = seq[i]
  BY <1>1, Prepend
<1> HIDE DEF h
<1>3. h[k] = y /\ \A i \in 1..Len(seq) : \E j \in 1..i : canTransition(h[j], seq[i])
  BY DEF h
<1>4. k - 1 \in 1..Len(seq) /\ seq[k - 1] = y
  BY <1>2, <1>3
<1>5. \E j \in 1..k : h[j] = x
  BY <1>3, <1>4
<1> QED  BY <1>5 DEF h

LEMMA CompletedThrough == TypeOK /\ TimelineJustified => CompletedAfterEveryStage
<1> SUFFICES ASSUME TypeOK, TimelineJustified, NEW s \in Settlements,
                    NEW i \in 1..Len(timeline[s]), timeline[s][i] = "COMPLETED"
             PROVE  \A stage \in Stages : \E j \in 1..i : history(s)[j] = stage
  BY DEF CompletedAfterEveryStage
<1> DEFINE h == <<"REQUESTED">> \o timeline[s]
<1>1. /\ timeline[s] \in Seq(SettlementStatus)
      /\ \A m \in 1..Len(timeline[s]) : \E j \in 1..m : canTransition(h[j], timeline[s][m])
  BY DEF TypeOK, TimelineJustified, history
<1>2. Len(timeline[s]) \in Nat
  BY <1>1
<1>3. ASSUME NEW k \in 1..i, NEW x, NEW y, h[k] = y, y # "REQUESTED",
             \A z : canTransition(z, y) => z = x
      PROVE  \E j \in 1..i : h[j] = x
  <2>1. k \in 1..Len(timeline[s]) + 1
    BY <1>2
  <2>2. \E j \in 1..k : h[j] = x
    BY <1>1, <1>3, <2>1, StepBack
  <2> QED  BY <2>2
<1> HIDE DEF h
<1>4. \E j \in 1..i : h[j] = "PROOF_GENERATED"
  <2>1. PICK j \in 1..i : canTransition(h[j], timeline[s][i])
    BY <1>1
  <2> QED  BY <2>1, Table
<1>5. \E j \in 1..i : h[j] = "ATTESTED"
  <2>1. \A z : canTransition(z, "PROOF_GENERATED") => z = "ATTESTED"
    BY Table
  <2> QED  BY <1>3, <1>4, <2>1
<1>6. \E j \in 1..i : h[j] = "FINALIZED"
  <2>1. \A z : canTransition(z, "ATTESTED") => z = "FINALIZED"
    BY Table
  <2> QED  BY <1>3, <1>5, <2>1
<1>7. \E j \in 1..i : h[j] = "ACCEPTED"
  <2>1. \A z : canTransition(z, "FINALIZED") => z = "ACCEPTED"
    BY Table
  <2> QED  BY <1>3, <1>6, <2>1
<1>8. \E j \in 1..i : h[j] = "SUBMITTED"
  <2>1. \A z : canTransition(z, "ACCEPTED") => z = "SUBMITTED"
    BY Table
  <2> QED  BY <1>3, <1>7, <2>1
<1>9. \E j \in 1..i : h[j] = "READY"
  <2>1. \A z : canTransition(z, "SUBMITTED") => z = "READY"
    BY Table
  <2> QED  BY <1>3, <1>8, <2>1
<1>10. \E j \in 1..i : h[j] = "ROUTE_SELECTED"
  <2>1. \A z : canTransition(z, "READY") => z = "ROUTE_SELECTED"
    BY Table
  <2> QED  BY <1>3, <1>9, <2>1
<1>11. \E j \in 1..i : h[j] = "LIQUIDITY_RESERVED"
  <2>1. \A z : canTransition(z, "ROUTE_SELECTED") => z = "LIQUIDITY_RESERVED"
    BY Table
  <2> QED  BY <1>3, <1>10, <2>1
<1>12. \E j \in 1..i : h[j] = "COMPLIANCE_APPROVED"
  <2>1. \A z : canTransition(z, "LIQUIDITY_RESERVED") => z = "COMPLIANCE_APPROVED"
    BY Table
  <2> QED  BY <1>3, <1>11, <2>1
<1>13. \E j \in 1..i : h[j] = "IDENTITY_VERIFIED"
  <2>1. \A z : canTransition(z, "COMPLIANCE_APPROVED") => z = "IDENTITY_VERIFIED"
    BY Table
  <2> QED  BY <1>3, <1>12, <2>1
<1>14. \E j \in 1..i : h[j] = "REQUESTED"
  <2>1. \A z : canTransition(z, "IDENTITY_VERIFIED") => z = "REQUESTED"
    BY Table
  <2> QED  BY <1>3, <1>13, <2>1
<1>15. \A stage \in Stages : \E j \in 1..i : h[j] = stage
  BY <1>4, <1>5, <1>6, <1>7, <1>8, <1>9, <1>10, <1>11, <1>12, <1>13, <1>14 DEF Stages
<1>16. history(s) = h
  BY DEF history, h
<1> QED  BY <1>15, <1>16

(* Even when calls race and fail, nothing is COMPLETED by a shortcut.      *)
THEOREM CompletedInFull == Spec => []CompletedAfterEveryStage
BY TypeCorrect, TimelinesJustified, CompletedThrough, PTL

-----------------------------------------------------------------------------------
(* One caller at a time: what it read is still so when it commits.         *)
StillSo == \A c \in Callers : pc[c] \in {"update", "commit"} =>
             /\ req[c].id \in Settlements /\ req[c].next \in SettlementStatus
             /\ seen[c] = status[req[c].id]
             /\ canTransition(seen[c], req[c].next)

LEMMA StillSoNext ==
  ASSUME NEW only, Callers = {only}
  PROVE  TypeOK /\ StillSo /\ [Next]_vars => StillSo'
<1> SUFFICES ASSUME TypeOK, StillSo, [Next]_vars PROVE StillSo'
  OBVIOUS
<1>t. DOMAIN pc = Callers /\ DOMAIN req = Callers /\ DOMAIN seen = Callers
  BY DEF TypeOK
<1>1. ASSUME NEW id \in Settlements, createSettlement(only, id) PROVE StillSo'
  BY <1>1, <1>t DEF createSettlement, Goto, StillSo
<1>2. ASSUME NEW id \in Settlements, NEW next \in SettlementStatus,
             NEW corr \in Correlation, progressSettlement(only, id, next, corr)
      PROVE  StillSo'
  BY <1>2, <1>t DEF progressSettlement, Goto, rows, StillSo
<1>3. ASSUME UpdateStatus(only) PROVE StillSo'
  BY <1>3, <1>t DEF UpdateStatus, Goto, StillSo
<1>4. ASSUME \/ LogCreated(only) \/ DispatchRequested(only) \/ CommitStatus(only)
             \/ LogChange(only) \/ Fail(only)
      PROVE  StillSo'
  BY <1>4, <1>t DEF LogCreated, DispatchRequested, CommitStatus, LogChange, Fail,
                    Goto, Return, StillSo
<1>5. CASE UNCHANGED vars
  BY <1>5 DEF vars, StillSo
<1> QED
  BY <1>1, <1>2, <1>3, <1>4, <1>5, TransitionTypes
     DEF Next, Call, Step, cancelSettlement, failSettlement, completeSettlement,
         SettlementStatus, TERMINAL_STATES

(* A step of the engine is a step of the lifecycle or leaves it unchanged. *)
LEMMA StepSimulates ==
  ASSUME NEW only, Callers = {only}, TypeOK, StillSo, [Next]_vars
  PROVE  [Lifecycle!Next]_(Lifecycle!vars)
<1> USE DEF Lifecycle!Next, Lifecycle!vars, Lifecycle!SettlementStatus, Lifecycle!Stages,
            Lifecycle!TERMINAL_STATES
<1>1. ASSUME NEW id \in Settlements, createSettlement(only, id)
      PROVE  Lifecycle!Create(id)
  BY <1>1 DEF createSettlement, Lifecycle!Create
<1>2. ASSUME CommitStatus(only)
      PROVE  \E s \in Settlements : \E next \in SettlementStatus : Lifecycle!Advance(s, next)
  BY <1>2 DEF CommitStatus, Goto, StillSo, Lifecycle!Advance, canTransition,
              Lifecycle!canTransition, ALLOWED_TRANSITIONS, Lifecycle!ALLOWED_TRANSITIONS
<1>3. ASSUME \/ \E id \in Settlements, next \in SettlementStatus, corr \in Correlation :
                  progressSettlement(only, id, next, corr)
             \/ LogCreated(only) \/ DispatchRequested(only) \/ UpdateStatus(only)
             \/ LogChange(only) \/ Fail(only)
      PROVE  UNCHANGED <<status, timeline>>
  BY <1>3 DEF progressSettlement, LogCreated, DispatchRequested, UpdateStatus, LogChange,
              Fail, rows
<1>4. CASE UNCHANGED vars
  BY <1>4 DEF vars
<1> QED
  BY <1>1, <1>2, <1>3, <1>4, TransitionTypes
     DEF Next, Call, Step, cancelSettlement, failSettlement, completeSettlement,
         SettlementStatus, Stages, TERMINAL_STATES

(* With one call at a time, failing or not, the engine implements the      *)
(* lifecycle: status and timeline advance together along the table.        *)
THEOREM SerialRefinement ==
  ASSUME NEW CONSTANT only, Callers = {only}
  PROVE  Spec => LifecycleSpec
<1>1. Init => StillSo /\ Lifecycle!Init
  BY DEF Init, StillSo, Lifecycle!Init
<1>2. TypeOK /\ StillSo /\ [Next]_vars => StillSo' /\ [Lifecycle!Next]_(Lifecycle!vars)
  BY StillSoNext, StepSimulates
<1> QED
  BY <1>1, <1>2, TypeCorrect, PTL DEF Spec, LifecycleSpec, Lifecycle!Spec

(* With one call at a time terminal states are irreversible; with two they *)
(* are not (settlement_terminal_race.cfg).                                 *)
THEOREM SerialTerminal ==
  ASSUME NEW CONSTANT only, Callers = {only}
  PROVE  Spec => TerminalIrreversible
<1> DEFINE A == \A s \in Settlements : status[s] \in TERMINAL_STATES => status'[s] = status[s]
<1>1. Init => StillSo
  BY DEF Init, StillSo
<1>2. TypeOK /\ StillSo /\ [Next]_vars => StillSo' /\ [A]_vars
  <2> SUFFICES ASSUME TypeOK, StillSo, [Next]_vars, NEW s \in Settlements,
                      status[s] \in TERMINAL_STATES
               PROVE  status'[s] = status[s]
    BY StillSoNext
  <2>1. /\ DOMAIN status = Settlements /\ status[s] # None
        /\ \A y : ~canTransition(status[s], y)
    BY SettlementAssumption, TransitionTypes DEF TypeOK, SettlementStatus, isTerminal
  <2>2. ASSUME NEW id \in Settlements, Lifecycle!Create(id) PROVE status'[s] = status[s]
    BY <2>1, <2>2 DEF Lifecycle!Create
  <2>3. ASSUME NEW id \in Settlements, NEW next, Lifecycle!Advance(id, next)
        PROVE  status'[s] = status[s]
    BY <2>1, <2>3 DEF Lifecycle!Advance, canTransition, Lifecycle!canTransition,
                      ALLOWED_TRANSITIONS, Lifecycle!ALLOWED_TRANSITIONS
  <2> QED
    BY <2>2, <2>3, StepSimulates DEF Lifecycle!Next, Lifecycle!vars
<1> QED
  BY <1>1, <1>2, TypeCorrect, PTL DEF Spec, TerminalIrreversible

(* With any number of calls at once, a terminal status is final as soon as *)
(* no call is between its check and its COMMIT on that settlement.         *)
THEOREM SettledIsFinal == Spec => SettledForGood
<1> DEFINE A == \A s \in Settlements : Settled(s) => Settled(s)' /\ status'[s] = status[s]
<1>1. TypeOK /\ [Next]_vars => [A]_vars
  <2> SUFFICES ASSUME TypeOK, [Next]_vars, NEW s \in Settlements, Settled(s)
               PROVE  Settled(s)' /\ status'[s] = status[s]
    OBVIOUS
  <2> USE DEF Settled
  <2>t. /\ DOMAIN pc = Callers /\ DOMAIN req = Callers /\ DOMAIN status = Settlements
        /\ status[s] # None /\ \A y : ~canTransition(status[s], y)
    BY SettlementAssumption, TransitionTypes DEF TypeOK, SettlementStatus, isTerminal
  <2>1. ASSUME NEW c \in Callers, NEW id \in Settlements, createSettlement(c, id)
        PROVE  Settled(s)' /\ status'[s] = status[s]
    BY <2>1, <2>t DEF createSettlement, Goto
  <2>2. ASSUME NEW c \in Callers, NEW id \in Settlements, NEW next, NEW corr,
               progressSettlement(c, id, next, corr)
        PROVE  Settled(s)' /\ status'[s] = status[s]
    BY <2>2, <2>t DEF progressSettlement, Goto, rows
  <2>3. ASSUME NEW c \in Callers, UpdateStatus(c) PROVE Settled(s)' /\ status'[s] = status[s]
    BY <2>3, <2>t DEF UpdateStatus, Goto
  <2>4. ASSUME NEW c \in Callers, CommitStatus(c) PROVE Settled(s)' /\ status'[s] = status[s]
    BY <2>4, <2>t DEF CommitStatus, Goto
  <2>5. ASSUME NEW c \in Callers,
               LogCreated(c) \/ DispatchRequested(c) \/ LogChange(c) \/ Fail(c)
        PROVE  Settled(s)' /\ status'[s] = status[s]
    BY <2>5, <2>t DEF LogCreated, DispatchRequested, LogChange, Fail, Goto, Return, rows
  <2>6. CASE UNCHANGED vars
    BY <2>6 DEF vars
  <2> QED
    BY <2>1, <2>2, <2>3, <2>4, <2>5, <2>6
       DEF Next, Call, Step, cancelSettlement, failSettlement, completeSettlement
<1> QED
  BY <1>1, TypeCorrect, PTL DEF Spec, SettledForGood

-----------------------------------------------------------------------------------
(* Creations: audit row and announcement come once, and in this order.     *)
Creating == {"auditCreated", "dispatch"}

Created(log) == \E k \in DOMAIN log : log[k].before = None

CreationInv ==
  /\ \A c, d \in Callers :
       pc[c] \in Creating /\ pc[d] \in Creating /\ req[c].id = req[d].id => c = d
  /\ \A c \in Callers : pc[c] \in Creating =>
       /\ status[req[c].id] # None
       /\ \A i \in DOMAIN eventLog : eventLog[i] # req[c].id
       /\ pc[c] = "dispatch" <=> Created(audit[req[c].id])
  /\ \A c \in Callers : pc[c] \in {"update", "commit", "audit"} => seen[c] # None
  /\ \A s \in Settlements : Created(audit[s]) => status[s] # None
  /\ \A i \in DOMAIN eventLog : Created(audit[eventLog[i]])
  /\ AnnouncedWhenDurable

(* One more audit row.                                                     *)
LEMMA Logged ==
  ASSUME TypeOK, NEW id \in Settlements, NEW before, NEW after,
         [before |-> before, after |-> after] \in AuditRow, auditLog(id, before, after)
  PROVE  /\ \A s \in Settlements \ {id} : audit'[s] = audit[s]
         /\ DOMAIN audit'[id] = DOMAIN audit[id] \cup {Len(audit[id]) + 1}
         /\ Len(audit[id]) + 1 \notin DOMAIN audit[id]
         /\ \A k \in DOMAIN audit[id] : audit'[id][k] = audit[id][k]
         /\ audit'[id][Len(audit[id]) + 1] = [before |-> before, after |-> after]
<1> DEFINE row == [before |-> before, after |-> after]
<1>1. audit[id] \in Seq(AuditRow) /\ row \in AuditRow
  BY DEF TypeOK
<1>2. audit'[id] = Append(audit[id], row) /\ \A s \in Settlements \ {id} : audit'[s] = audit[s]
  BY DEF auditLog, TypeOK
<1> HIDE DEF row
<1>3. /\ DOMAIN audit'[id] = DOMAIN audit[id] \cup {Len(audit[id]) + 1}
      /\ Len(audit[id]) + 1 \notin DOMAIN audit[id]
      /\ \A k \in DOMAIN audit[id] : audit'[id][k] = audit[id][k]
      /\ audit'[id][Len(audit[id]) + 1] = row
  BY <1>1, <1>2
<1> QED  BY <1>2, <1>3 DEF row

LEMMA CreationNext == TypeOK /\ CreationInv /\ [Next]_vars => CreationInv'
<1> SUFFICES ASSUME TypeOK, CreationInv, [Next]_vars PROVE CreationInv'
  OBVIOUS
<1>t. /\ DOMAIN status = Settlements /\ DOMAIN audit = Settlements
      /\ DOMAIN pc = Callers /\ DOMAIN req = Callers /\ DOMAIN seen = Callers
      /\ \A c \in Callers : pc[c] # "idle" => req[c] \in Request
      /\ \A c \in Callers : pc[c] # "idle" =>
           req[c].id \in Settlements /\ req[c].next \in SettlementStatus
      /\ eventLog \in Seq(Settlements)
      /\ "REQUESTED" \in SettlementStatus /\ None \notin SettlementStatus
  BY SettlementAssumption DEF TypeOK, Request, SettlementStatus, Stages
(* A step that writes no log, and creates nothing.                         *)
<1>q. ASSUME UNCHANGED <<audit, eventLog>>,
             \A s \in Settlements : status[s] # None => status'[s] # None,
             \A c \in Callers : pc'[c] \in Creating => pc'[c] = pc[c] /\ req'[c] = req[c],
             \A c \in Callers : pc'[c] \in {"update", "commit", "audit"} => seen'[c] # None
      PROVE  CreationInv'
  BY <1>q, <1>t DEF CreationInv, AnnouncedWhenDurable, Creating
<1>1. ASSUME NEW c \in Callers, NEW id \in Settlements, createSettlement(c, id)
      PROVE  CreationInv'
  <2>1. /\ status[id] = None /\ status' = [status EXCEPT ![id] = "REQUESTED"]
        /\ pc' = [pc EXCEPT ![c] = "auditCreated"] /\ pc[c] = "idle"
        /\ req' = [req EXCEPT ![c] = [id |-> id, next |-> "REQUESTED", corr |-> "uuid"]]
        /\ UNCHANGED <<audit, eventLog, seen>>
    BY <1>1 DEF createSettlement, Goto
  <2>2. ~Created(audit[id]) /\ \A i \in DOMAIN eventLog : eventLog[i] # id
    BY <2>1 DEF CreationInv
  <2>3. \A d \in Callers \ {c} : pc[d] \in Creating => req[d].id # id
    BY <2>1 DEF CreationInv
  <2>4. /\ req'[c].id = id /\ pc'[c] = "auditCreated"
        /\ \A d \in Callers \ {c} : req'[d] = req[d] /\ pc'[d] = pc[d]
        /\ status'[id] # None /\ \A s \in Settlements : status[s] # None => status'[s] # None
    BY <2>1, <1>t
  <2>5. \A d, e \in Callers :
          pc'[d] \in Creating /\ pc'[e] \in Creating /\ req'[d].id = req'[e].id => d = e
    BY <2>3, <2>4 DEF CreationInv
  <2>6. \A d \in Callers : pc'[d] \in Creating =>
          /\ status'[req'[d].id] # None
          /\ \A i \in DOMAIN eventLog : eventLog[i] # req'[d].id
          /\ pc'[d] = "dispatch" <=> Created(audit[req'[d].id])
    BY <2>2, <2>4, <1>t DEF CreationInv, Creating
  <2> QED  BY <2>1, <2>4, <2>5, <2>6 DEF CreationInv, AnnouncedWhenDurable
<1>2. ASSUME NEW c \in Callers, NEW id \in Settlements, NEW next, NEW corr,
             progressSettlement(c, id, next, corr)
      PROVE  CreationInv'
  <2>1. status[id] # None
    BY <1>2, <1>t, TransitionTypes DEF progressSettlement
  <2> QED
    BY <1>2, <1>q, <1>t, <2>1 DEF progressSettlement, Goto, rows, Creating, CreationInv
<1>3. ASSUME NEW c \in Callers, LogCreated(c) PROVE CreationInv'
  <2> DEFINE id == req[c].id
  <2>1. /\ pc[c] = "auditCreated" /\ pc' = [pc EXCEPT ![c] = "dispatch"]
        /\ auditLog(id, None, "REQUESTED") /\ UNCHANGED <<status, eventLog, req, seen>>
    BY <1>3 DEF LogCreated, Goto, rows
  <2>2. id \in Settlements /\ [before |-> None, after |-> "REQUESTED"] \in AuditRow
    BY <2>1, <1>t DEF AuditRow
  <2>3. /\ \A s \in Settlements \ {id} : audit'[s] = audit[s]
        /\ DOMAIN audit'[id] = DOMAIN audit[id] \cup {Len(audit[id]) + 1}
        /\ \A k \in DOMAIN audit[id] : audit'[id][k] = audit[id][k]
        /\ audit'[id][Len(audit[id]) + 1].before = None
    BY <2>1, <2>2, Logged
  <2>4. ~Created(audit[id]) /\ status[id] # None /\ \A i \in DOMAIN eventLog : eventLog[i] # id
    BY <2>1 DEF CreationInv, Creating
  <2>5. Created(audit'[id]) /\ \A s \in Settlements \ {id} : Created(audit'[s]) <=> Created(audit[s])
    BY <2>3 DEF Created
  <2>6. \A d \in Callers \ {c} : pc[d] \in Creating => req[d].id # id
    BY <2>1 DEF CreationInv, Creating
  <2>7. \A j, k \in DOMAIN audit'[id] :
          audit'[id][j].before = None /\ audit'[id][k].before = None => j = k
    BY <2>3, <2>4 DEF Created
  <2>8. \A i \in DOMAIN eventLog : eventLog[i] \in Settlements \ {id}
    BY <2>4, <1>t
  <2>9. AnnouncedWhenDurable'
    BY <2>1, <2>3, <2>4, <2>7, <2>8 DEF CreationInv, AnnouncedWhenDurable
  <2> HIDE DEF id
  <2>10. \A d \in Callers : pc'[d] \in Creating =>
          /\ status[req[d].id] # None
          /\ \A i \in DOMAIN eventLog : eventLog[i] # req[d].id
          /\ pc'[d] = "dispatch" <=> Created(audit'[req[d].id])
    <3>1. CASE pc'[c] = "dispatch"
      <4> SUFFICES ASSUME NEW d \in Callers, pc'[d] \in Creating
                   PROVE  /\ status[req[d].id] # None
                          /\ \A i \in DOMAIN eventLog : eventLog[i] # req[d].id
                          /\ pc'[d] = "dispatch" <=> Created(audit'[req[d].id])
        OBVIOUS
      <4>1. CASE d = c
        BY <2>1, <2>4, <2>5, <4>1, <3>1 DEF id
      <4>2. CASE d # c
        BY <2>1, <2>5, <2>6, <4>2, <1>t DEF CreationInv, Creating
      <4> QED  BY <4>1, <4>2
    <3> QED  BY <2>1, <3>1, <1>t
  <2>11. \A d, e \in Callers :
          pc'[d] \in Creating /\ pc'[e] \in Creating /\ req[d].id = req[e].id => d = e
    BY <2>1, <1>t DEF CreationInv, Creating
  <2>12. \A s \in Settlements : Created(audit'[s]) => status[s] # None
    BY <2>4, <2>5 DEF CreationInv
  <2>13. \A i \in DOMAIN eventLog : Created(audit'[eventLog[i]])
    BY <2>5, <2>8 DEF CreationInv
  <2>14. \A d \in Callers : pc'[d] \in {"update", "commit", "audit"} => seen[d] # None
    BY <2>1, <1>t DEF CreationInv
  <2> QED
    BY <2>1, <2>9, <2>10, <2>11, <2>12, <2>13, <2>14 DEF CreationInv
<1>4. ASSUME NEW c \in Callers, DispatchRequested(c) PROVE CreationInv'
  <2> DEFINE id == req[c].id
  <2>1. /\ pc[c] = "dispatch" /\ eventLog' = Append(eventLog, id)
        /\ pc'[c] = "idle" /\ \A d \in Callers \ {c} :
             pc'[d] = pc[d] /\ req'[d] = req[d] /\ seen'[d] = seen[d]
        /\ UNCHANGED <<status, audit>>
    BY <1>4, <1>t DEF DispatchRequested, Return, rows
  <2>2. id \in Settlements
    BY <2>1, <1>t
  <2>3. Created(audit[id]) /\ \A i \in DOMAIN eventLog : eventLog[i] # id
    BY <2>1 DEF CreationInv, Creating
  <2>4. \A d \in Callers \ {c} : pc[d] \in Creating => req[d].id # id
    BY <2>1 DEF CreationInv, Creating
  <2> HIDE DEF id
  <2>5. /\ DOMAIN eventLog' = DOMAIN eventLog \cup {Len(eventLog) + 1}
        /\ Len(eventLog) + 1 \notin DOMAIN eventLog
        /\ \A i \in DOMAIN eventLog : eventLog'[i] = eventLog[i]
        /\ eventLog'[Len(eventLog) + 1] = id
    BY <2>1, <2>2, <1>t
  <2>6. \A i, j \in DOMAIN eventLog' : eventLog'[i] = eventLog'[j] => i = j
    BY <2>3, <2>5 DEF CreationInv, AnnouncedWhenDurable
  <2>7. \A i \in DOMAIN eventLog' : Created(audit[eventLog'[i]])
    BY <2>3, <2>5 DEF CreationInv
  <2>8. AnnouncedWhenDurable'
    BY <2>1, <2>6, <2>7 DEF CreationInv, AnnouncedWhenDurable, Created
  <2>9. \A d \in Callers : pc'[d] \in Creating =>
          /\ status[req'[d].id] # None
          /\ \A i \in DOMAIN eventLog' : eventLog'[i] # req'[d].id
          /\ pc'[d] = "dispatch" <=> Created(audit[req'[d].id])
    BY <2>1, <2>4, <2>5 DEF CreationInv, Creating
  <2>10. \A d, e \in Callers :
          pc'[d] \in Creating /\ pc'[e] \in Creating /\ req'[d].id = req'[e].id => d = e
    BY <2>1 DEF CreationInv, Creating
  <2>11. \A d \in Callers : pc'[d] \in {"update", "commit", "audit"} => seen'[d] # None
    BY <2>1 DEF CreationInv
  <2> QED  BY <2>1, <2>7, <2>8, <2>9, <2>10, <2>11 DEF CreationInv
<1>5. ASSUME NEW c \in Callers, UpdateStatus(c) PROVE CreationInv'
  BY <1>5, <1>q, <1>t DEF UpdateStatus, Goto, Creating, CreationInv
<1>6. ASSUME NEW c \in Callers, CommitStatus(c) PROVE CreationInv'
  <2>1. req[c].id \in Settlements /\ req[c].next # None
    BY <1>6, <1>t DEF CommitStatus, Goto
  <2> QED
    BY <1>6, <1>q, <1>t, <2>1 DEF CommitStatus, Goto, Creating, CreationInv
<1>7. ASSUME NEW c \in Callers, LogChange(c) PROVE CreationInv'
  <2> DEFINE id == req[c].id
  <2>1. /\ pc[c] = "audit" /\ UNCHANGED <<status, eventLog>> /\ pc'[c] = "idle"
        /\ \A d \in Callers \ {c} : pc'[d] = pc[d] /\ req'[d] = req[d] /\ seen'[d] = seen[d]
    BY <1>7, <1>t DEF LogChange, Return, rows
  <2>2. /\ id \in Settlements /\ seen[c] # None
        /\ [before |-> seen[c], after |-> req[c].next] \in AuditRow
    BY <2>1, <1>t DEF CreationInv, AuditRow, TypeOK
  <2>3. CASE audit' = audit
    BY <1>q, <2>1, <2>3 DEF CreationInv, Creating
  <2>4. CASE auditLog(id, seen[c], req[c].next)
    <3>1. /\ \A s \in Settlements \ {id} : audit'[s] = audit[s]
          /\ DOMAIN audit'[id] = DOMAIN audit[id] \cup {Len(audit[id]) + 1}
          /\ \A k \in DOMAIN audit[id] : audit'[id][k] = audit[id][k]
          /\ audit'[id][Len(audit[id]) + 1].before # None
      BY <2>2, <2>4, Logged
    <3> HIDE DEF id
    <3>2. \A s \in Settlements : Created(audit'[s]) <=> Created(audit[s])
      BY <2>2, <3>1 DEF Created
    <3>3. \A s \in Settlements : \A j, k \in DOMAIN audit'[s] :
            audit'[s][j].before = None /\ audit'[s][k].before = None => j = k /\ status[s] # None
      BY <2>2, <3>1 DEF CreationInv, AnnouncedWhenDurable
    <3>4. \A i \in DOMAIN eventLog : eventLog[i] \in Settlements
      BY <1>t
    <3>5. \A i \in DOMAIN eventLog : Created(audit'[eventLog[i]])
      BY <3>2, <3>4 DEF CreationInv
    <3>6. AnnouncedWhenDurable'
      BY <2>1, <3>3, <3>5 DEF CreationInv, AnnouncedWhenDurable, Created
    <3>7. \A d \in Callers : pc'[d] \in Creating =>
            /\ status[req'[d].id] # None
            /\ \A i \in DOMAIN eventLog : eventLog[i] # req'[d].id
            /\ pc'[d] = "dispatch" <=> Created(audit'[req'[d].id])
      BY <2>1, <3>2, <1>t DEF CreationInv, Creating
    <3>8. \A d, e \in Callers :
            pc'[d] \in Creating /\ pc'[e] \in Creating /\ req'[d].id = req'[e].id => d = e
      BY <2>1 DEF CreationInv, Creating
    <3>9. \A d \in Callers : pc'[d] \in {"update", "commit", "audit"} => seen'[d] # None
      BY <2>1 DEF CreationInv
    <3>10. \A s \in Settlements : Created(audit'[s]) => status[s] # None
      BY <3>2 DEF CreationInv
    <3> QED  BY <2>1, <3>5, <3>6, <3>7, <3>8, <3>9, <3>10 DEF CreationInv
  <2> QED  BY <1>7, <2>3, <2>4 DEF LogChange
<1>8. ASSUME NEW c \in Callers, Fail(c) PROVE CreationInv'
  BY <1>8, <1>q, <1>t DEF Fail, Return, Creating, CreationInv
<1>9. CASE UNCHANGED vars
  BY <1>9, <1>q DEF vars, Creating, CreationInv
<1> QED
  BY <1>1, <1>2, <1>3, <1>4, <1>5, <1>6, <1>7, <1>8, <1>9
     DEF Next, Call, Step, cancelSettlement, failSettlement, completeSettlement

(* SettlementRequested is announced once at most, and never before the row *)
(* and its audit row are durable, whatever races or fails.                 *)
THEOREM AnnouncedDurable == Spec => []AnnouncedWhenDurable
<1>1. Init => CreationInv
  BY DEF Init, CreationInv, AnnouncedWhenDurable, Creating, Created
<1>2. CreationInv => AnnouncedWhenDurable
  BY DEF CreationInv
<1> QED
  BY <1>1, <1>2, TypeCorrect, CreationNext, PTL DEF Spec

-----------------------------------------------------------------------------------
(* The three sets that are counted are finite.                             *)
LEMMA FinitelyMany ==
  ASSUME TypeOK, NEW s \in Settlements, NEW x
  PROVE  /\ IsFiniteSet(rowsTo(audit[s], x)) /\ Cardinality(rowsTo(audit[s], x)) \in Nat
         /\ IsFiniteSet(changesTo(timeline[s], x)) /\ Cardinality(changesTo(timeline[s], x)) \in Nat
         /\ IsFiniteSet(owed(s, x)) /\ Cardinality(owed(s, x)) \in Nat
<1>1. ASSUME NEW T, NEW seq \in Seq(T), NEW S \in SUBSET DOMAIN seq PROVE IsFiniteSet(S)
  <2>1. DOMAIN seq = 1..Len(seq) /\ Len(seq) \in Nat
    OBVIOUS
  <2>2. IsFiniteSet(1..Len(seq)) /\ S \in SUBSET (1..Len(seq))
    BY <2>1, FS_Interval
  <2> QED  BY <2>2, FS_Subset
<1>2. audit[s] \in Seq(AuditRow) /\ timeline[s] \in Seq(SettlementStatus)
  BY DEF TypeOK
<1>3. IsFiniteSet(rowsTo(audit[s], x)) /\ IsFiniteSet(changesTo(timeline[s], x))
  BY <1>1, <1>2 DEF rowsTo, changesTo
<1>4. IsFiniteSet(owed(s, x))
  BY SettlementAssumption, FS_Subset DEF owed
<1> QED  BY <1>3, <1>4, FS_CardinalityType

(* Past its commit a call holds a transition that really took place.       *)
OwedJustified ==
  \A c \in Callers : pc[c] = "audit" =>
    /\ canTransition(seen[c], req[c].next)
    /\ \E j \in 1..Len(history(req[c].id)) : history(req[c].id)[j] = seen[c]

AuditInv == AuditOnlyCommitted /\ OwedJustified

(* The count, for one settlement and one status.                           *)
LEMMA CountNext ==
  ASSUME TypeOK, [Next]_vars, NEW s \in Settlements, NEW x \in SettlementStatus \ {"REQUESTED"},
         Cardinality(rowsTo(audit[s], x)) + Cardinality(owed(s, x))
           <= Cardinality(changesTo(timeline[s], x))
  PROVE  (Cardinality(rowsTo(audit[s], x)) + Cardinality(owed(s, x))
           <= Cardinality(changesTo(timeline[s], x)))'
<1> DEFINE R == rowsTo(audit[s], x)
           O == owed(s, x)
           H == changesTo(timeline[s], x)
<1>f. /\ IsFiniteSet(R) /\ Cardinality(R) \in Nat
      /\ IsFiniteSet(O) /\ Cardinality(O) \in Nat
      /\ IsFiniteSet(H) /\ Cardinality(H) \in Nat
  BY FinitelyMany
<1>t. /\ DOMAIN audit = Settlements /\ DOMAIN timeline = Settlements
      /\ DOMAIN pc = Callers /\ DOMAIN req = Callers
      /\ \A c \in Callers : pc[c] # "idle" =>
           req[c].id \in Settlements /\ req[c].next \in SettlementStatus
      /\ timeline[s] \in Seq(SettlementStatus)
  BY SettlementAssumption DEF TypeOK, Request
(* Nothing is counted anew, or what is owed only shrinks.                  *)
<1>q. ASSUME UNCHANGED <<audit, timeline>>, owed(s, x)' \subseteq owed(s, x)
      PROVE  Cardinality(R') + Cardinality(O') <= Cardinality(H')
  <2>1. R' = R /\ H' = H
    BY <1>q
  <2>2. Cardinality(O') \in Nat /\ Cardinality(O') <= Cardinality(O)
    BY <1>f, <1>q, FS_Subset, FS_CardinalityType
  <2> QED  BY <1>f, <2>1, <2>2
<1>1. ASSUME NEW c \in Callers, Call(c) \/ DispatchRequested(c) \/ UpdateStatus(c) \/ Fail(c)
      PROVE  Cardinality(R') + Cardinality(O') <= Cardinality(H')
  <2>1. UNCHANGED <<audit, timeline>>
    BY <1>1 DEF Call, createSettlement, progressSettlement, cancelSettlement, failSettlement,
                completeSettlement, DispatchRequested, UpdateStatus, Fail, rows
  <2>2. owed(s, x)' \subseteq owed(s, x)
    BY <1>1, <1>t DEF owed, Call, createSettlement, progressSettlement, cancelSettlement,
                failSettlement, completeSettlement, DispatchRequested, UpdateStatus, Fail,
                Goto, Return
  <2> QED  BY <1>q, <2>1, <2>2
<1>2. ASSUME NEW c \in Callers, LogCreated(c)
      PROVE  Cardinality(R') + Cardinality(O') <= Cardinality(H')
  <2>1. /\ auditLog(req[c].id, None, "REQUESTED") /\ UNCHANGED <<timeline, req>>
        /\ pc[c] = "auditCreated" /\ pc' = [pc EXCEPT ![c] = "dispatch"]
    BY <1>2 DEF LogCreated, Goto, rows
  <2>2. req[c].id \in Settlements /\ [before |-> None, after |-> "REQUESTED"] \in AuditRow
    BY <2>1, <1>t DEF AuditRow, SettlementStatus, Stages
  <2>3. R' = R
    <3>1. CASE s = req[c].id
      BY <2>1, <2>2, <3>1, Logged DEF rowsTo
    <3>2. CASE s # req[c].id
      BY <2>1, <2>2, <3>2, Logged
    <3> QED  BY <3>1, <3>2
  <2>4. O' = O /\ H' = H
    BY <2>1, <1>t DEF owed
  <2> QED  BY <2>3, <2>4
<1>3. ASSUME NEW c \in Callers, CommitStatus(c)
      PROVE  Cardinality(R') + Cardinality(O') <= Cardinality(H')
  <2>1. /\ pc[c] = "commit" /\ pc' = [pc EXCEPT ![c] = "audit"]
        /\ timeline' = [timeline EXCEPT ![req[c].id] = Append(@, req[c].next)]
        /\ UNCHANGED <<audit, req>>
    BY <1>3 DEF CommitStatus, Goto
  <2>2. req[c].id \in Settlements /\ req[c].next \in SettlementStatus /\ R' = R
    BY <2>1, <1>t
  <2>3. CASE s = req[c].id /\ x = req[c].next
    <3>1. O' = O \cup {c} /\ c \notin O
      BY <2>1, <2>3, <1>t DEF owed
    <3>2. timeline'[s] = Append(timeline[s], x)
      BY <2>1, <2>3, <1>t
    <3>3. H' = H \cup {Len(timeline[s]) + 1} /\ Len(timeline[s]) + 1 \notin H
      BY <3>2, <1>t DEF changesTo
    <3>4. Cardinality(O') = Cardinality(O) + 1 /\ Cardinality(H') = Cardinality(H) + 1
      BY <3>1, <3>3, <1>f, FS_AddElement
    <3> QED  BY <2>2, <3>4, <1>f
  <2>4. CASE ~(s = req[c].id /\ x = req[c].next)
    <3>1. O' = O
      BY <2>1, <2>4, <1>t DEF owed
    <3>2. H' = H
      <4>1. CASE s # req[c].id
        BY <2>1, <2>2, <4>1, <1>t
      <4>2. CASE s = req[c].id
        <5>1. timeline'[s] = Append(timeline[s], req[c].next) /\ req[c].next # x
          BY <2>1, <2>4, <4>2, <1>t
        <5> QED  BY <5>1, <2>2, <1>t DEF changesTo
      <4> QED  BY <4>1, <4>2
    <3> QED  BY <2>2, <3>1, <3>2
  <2> QED  BY <2>3, <2>4
<1>4. ASSUME NEW c \in Callers, LogChange(c)
      PROVE  Cardinality(R') + Cardinality(O') <= Cardinality(H')
  <2>1. /\ pc[c] = "audit" /\ pc' = [pc EXCEPT ![c] = "idle"]
        /\ req' = [req EXCEPT ![c] = None] /\ UNCHANGED timeline
        /\ audit' = audit \/ auditLog(req[c].id, seen[c], req[c].next)
    BY <1>4 DEF LogChange, Return, rows
  <2>2. O' = O \ {c} /\ H' = H
    BY <2>1, <1>t DEF owed
  <2>3. CASE audit' = audit
    BY <1>q, <2>1, <2>2, <2>3
  <2>4. CASE auditLog(req[c].id, seen[c], req[c].next)
    <3>1. CASE seen[c] \in SettlementStatus \cup {None}
      <4>1. req[c].id \in Settlements /\ [before |-> seen[c], after |-> req[c].next] \in AuditRow
        BY <2>1, <3>1, <1>t DEF AuditRow
      <4>2. /\ \A u \in Settlements \ {req[c].id} : audit'[u] = audit[u]
            /\ s = req[c].id =>
                 /\ DOMAIN audit'[s] = DOMAIN audit[s] \cup {Len(audit[s]) + 1}
                 /\ Len(audit[s]) + 1 \notin DOMAIN audit[s]
                 /\ \A k \in DOMAIN audit[s] : audit'[s][k] = audit[s][k]
                 /\ audit'[s][Len(audit[s]) + 1].after = req[c].next
        BY <2>4, <4>1, Logged
      <4>3. CASE s = req[c].id /\ x = req[c].next
        <5>1. R' = R \cup {Len(audit[s]) + 1} /\ Len(audit[s]) + 1 \notin R
          BY <4>2, <4>3 DEF rowsTo
        <5>2. c \in O
          BY <2>1, <4>3 DEF owed
        <5>3. Cardinality(R') = Cardinality(R) + 1 /\ Cardinality(O') = Cardinality(O) - 1
          <6>1. Cardinality(R \cup {Len(audit[s]) + 1}) = Cardinality(R) + 1
            BY <5>1, <1>f, FS_AddElement
          <6>2. Cardinality(O \ {c}) = Cardinality(O) - 1
            BY <5>2, <1>f, FS_RemoveElement
          <6> QED  BY <2>2, <5>1, <6>1, <6>2
        <5> QED  BY <2>2, <5>3, <1>f
      <4>4. CASE ~(s = req[c].id /\ x = req[c].next)
        <5>1. R' = R
          BY <4>2, <4>4 DEF rowsTo
        <5>2. O' = O
          BY <2>2, <4>4 DEF owed
        <5> QED  BY <2>2, <5>1, <5>2
      <4> QED  BY <4>3, <4>4
    <3> QED  BY <3>1 DEF TypeOK
  <2> QED  BY <2>1, <2>3, <2>4
<1>5. CASE UNCHANGED vars
  <2>1. R' = R /\ O' = O /\ H' = H
    BY <1>5 DEF vars, owed
  <2> QED  BY <2>1
<1> QED
  BY <1>1, <1>2, <1>3, <1>4, <1>5 DEF Next, Step

LEMMA AuditNext == TypeOK /\ HistoryInv /\ AuditInv /\ [Next]_vars => AuditInv'
<1> SUFFICES ASSUME TypeOK, HistoryInv, AuditInv, [Next]_vars PROVE AuditInv'
  OBVIOUS
<1>t. /\ DOMAIN audit = Settlements /\ DOMAIN timeline = Settlements
      /\ DOMAIN pc = Callers /\ DOMAIN req = Callers /\ DOMAIN seen = Callers
      /\ \A c \in Callers : pc[c] # "idle" =>
           req[c].id \in Settlements /\ req[c].next \in SettlementStatus
      /\ \A u \in Settlements : timeline[u] \in Seq(SettlementStatus)
      /\ "REQUESTED" \in SettlementStatus
  BY SettlementAssumption DEF TypeOK, Request, SettlementStatus, Stages
<1>1. \A s \in Settlements, x \in SettlementStatus \ {"REQUESTED"} :
        (Cardinality(rowsTo(audit[s], x)) + Cardinality(owed(s, x))
           <= Cardinality(changesTo(timeline[s], x)))'
  BY CountNext DEF AuditInv, AuditOnlyCommitted
(* A status a settlement has had it always will have had.                  *)
<1>2. \A s \in Settlements : \A j \in 1..Len(history(s)) :
        j \in (1..Len(history(s)))' /\ history(s)'[j] = history(s)[j]
  <2>1. CASE UNCHANGED timeline
    BY <2>1 DEF history
  <2>2. ASSUME NEW c \in Callers, CommitStatus(c), NEW s \in Settlements
        PROVE  \A j \in 1..Len(history(s)) :
                 j \in (1..Len(history(s)))' /\ history(s)'[j] = history(s)[j]
    <3>1. /\ timeline' = [timeline EXCEPT ![req[c].id] = Append(@, req[c].next)]
          /\ req[c].id \in Settlements /\ req[c].next \in SettlementStatus
      BY <2>2, <1>t DEF CommitStatus, Goto
    <3>2. CASE s # req[c].id
      BY <3>1, <3>2, <1>t DEF history
    <3>3. CASE s = req[c].id
      <4>1. timeline'[s] = Append(timeline[s], req[c].next)
        BY <3>1, <3>3, <1>t
      <4>2. /\ Len(history(s)) = Len(timeline[s]) + 1
            /\ Len(history(s)') = Len(timeline[s]) + 2
            /\ \A i \in 1..Len(timeline[s]) + 1 : history(s)'[i] = history(s)[i]
        BY <3>1, <4>1, <1>t, Prepend, PrependAppend DEF history
      <4>3. Len(timeline[s]) \in Nat
        BY <1>t
      <4> QED  BY <4>2, <4>3
    <3> QED  BY <3>2, <3>3
  <2> QED
    BY <2>1, <2>2 DEF Next, Call, Step, createSettlement, progressSettlement, cancelSettlement,
       failSettlement, completeSettlement, LogCreated, DispatchRequested, UpdateStatus,
       LogChange, Fail, rows, vars
<1>3. OwedJustified'
  <2> SUFFICES ASSUME NEW d \in Callers, pc'[d] = "audit"
               PROVE  (/\ canTransition(seen[d], req[d].next)
                       /\ \E j \in 1..Len(history(req[d].id)) :
                            history(req[d].id)[j] = seen[d])'
    BY DEF OwedJustified
  <2>1. /\ pc[d] = "audit" \/ pc[d] = "commit"
        /\ req'[d] = req[d] /\ seen'[d] = seen[d]
    BY <1>t DEF Next, Call, Step, createSettlement, progressSettlement, cancelSettlement,
       failSettlement, completeSettlement, LogCreated, DispatchRequested, UpdateStatus,
       CommitStatus, LogChange, Fail, Goto, Return, vars
  <2>2. req[d].id \in Settlements
    BY <2>1, <1>t
  <2>3. Len(history(req[d].id)) = Len(timeline[req[d].id]) + 1
    BY <2>2, <1>t, Prepend DEF history
  <2>4. /\ canTransition(seen[d], req[d].next)
        /\ \E j \in 1..Len(history(req[d].id)) : history(req[d].id)[j] = seen[d]
    BY <2>1, <2>3 DEF AuditInv, OwedJustified, HistoryInv, InFlightJustified
  <2> QED  BY <2>1, <2>2, <2>4, <1>2
<1>4. ASSUME NEW s \in Settlements, NEW i \in DOMAIN audit'[s], audit'[s][i].before # None
      PROVE  /\ canTransition(audit'[s][i].before, audit'[s][i].after)
             /\ \E j \in 1..Len(history(s)) : history(s)[j] = audit'[s][i].before
  <2>1. ASSUME i \in DOMAIN audit[s], audit'[s][i] = audit[s][i]
        PROVE  /\ canTransition(audit'[s][i].before, audit'[s][i].after)
               /\ \E j \in 1..Len(history(s)) : history(s)[j] = audit'[s][i].before
    BY <1>4, <2>1 DEF AuditInv, AuditOnlyCommitted
  <2>2. CASE UNCHANGED audit
    BY <2>1, <2>2, <1>4
  <2>3. ASSUME NEW c \in Callers, LogCreated(c)
        PROVE  i \in DOMAIN audit[s] /\ audit'[s][i] = audit[s][i]
    <3>1. /\ auditLog(req[c].id, None, "REQUESTED") /\ req[c].id \in Settlements
          /\ [before |-> None, after |-> "REQUESTED"] \in AuditRow
      BY <2>3, <1>t DEF LogCreated, Goto, AuditRow
    <3> QED  BY <3>1, <1>4, Logged
  <2>4. ASSUME NEW c \in Callers, LogChange(c), auditLog(req[c].id, seen[c], req[c].next)
        PROVE  /\ canTransition(audit'[s][i].before, audit'[s][i].after)
               /\ \E j \in 1..Len(history(s)) : history(s)[j] = audit'[s][i].before
    <3>1. /\ req[c].id \in Settlements /\ pc[c] = "audit"
          /\ [before |-> seen[c], after |-> req[c].next] \in AuditRow
      BY <2>4, <1>t DEF LogChange, AuditRow, TypeOK
    <3>2. CASE i \in DOMAIN audit[s] /\ audit'[s][i] = audit[s][i]
      BY <2>1, <3>2
    <3>3. CASE ~(i \in DOMAIN audit[s] /\ audit'[s][i] = audit[s][i])
      <4>1. s = req[c].id /\ audit'[s][i] = [before |-> seen[c], after |-> req[c].next]
        BY <2>4, <3>1, <3>3, <1>4, Logged
      <4> QED  BY <3>1, <4>1 DEF AuditInv, OwedJustified
    <3> QED  BY <3>2, <3>3
  <2> QED
    BY <1>4, <2>1, <2>2, <2>3, <2>4 DEF Next, Call, Step, createSettlement, progressSettlement,
       cancelSettlement, failSettlement, completeSettlement, DispatchRequested, UpdateStatus,
       CommitStatus, LogChange, Fail, rows, vars
<1>5. AuditOnlyCommitted'
  <2>1. ASSUME NEW s \in Settlements, NEW i \in DOMAIN audit'[s], audit'[s][i].before # None
        PROVE  /\ canTransition(audit'[s][i].before, audit'[s][i].after)
               /\ \E j \in (1..Len(history(s)))' : history(s)'[j] = audit'[s][i].before
    <3>1. PICK j \in 1..Len(history(s)) : history(s)[j] = audit'[s][i].before
      BY <2>1, <1>4
    <3>2. j \in (1..Len(history(s)))' /\ history(s)'[j] = history(s)[j]
      BY <1>2
    <3> QED  BY <2>1, <3>1, <3>2, <1>4
  <2> QED  BY <1>1, <2>1 DEF AuditOnlyCommitted
<1> QED  BY <1>3, <1>5 DEF AuditInv

(* The audit log tells only of changes that were committed, and of each no *)
(* more often than it happened, whatever races or fails: a log that loses  *)
(* rows, but invents none.                                                 *)
THEOREM AuditTruthful == Spec => []AuditOnlyCommitted
<1>1. Init => AuditInv
  <2>1. \A x : rowsTo(<< >>, x) = {} /\ changesTo(<< >>, x) = {}
    BY DEF rowsTo, changesTo
  <2>2. Init => \A s \in Settlements, x \in SettlementStatus : owed(s, x) = {}
    BY DEF Init, owed
  <2>3. Init => OwedJustified
    BY DEF Init, OwedJustified
  <2>4. Init => AuditOnlyCommitted
    <3>1. Cardinality({}) + Cardinality({}) <= Cardinality({})
      BY FS_EmptySet
    <3>2. ASSUME Init, NEW s \in Settlements, NEW x \in SettlementStatus
          PROVE  /\ rowsTo(audit[s], x) = {} /\ changesTo(timeline[s], x) = {}
                 /\ owed(s, x) = {}
      BY <2>1, <2>2, <3>2 DEF Init
    <3>3. ASSUME Init, NEW s \in Settlements PROVE DOMAIN audit[s] = {}
      BY <3>3 DEF Init
    <3> QED  BY <3>1, <3>2, <3>3 DEF AuditOnlyCommitted
  <2> QED  BY <2>3, <2>4 DEF AuditInv
<1>2. AuditInv => AuditOnlyCommitted
  BY DEF AuditInv
<1> QED
  BY <1>1, <1>2, TypeCorrect, HistoryInit, HistoryNext, AuditNext, PTL DEF Spec

-----------------------------------------------------------------------------------
(* The calls that owe their settlement an audit row, and how many rows its *)
(* creation and its changes are worth.                                     *)
unlogged(s) == {c \in Callers : pc[c] \in {"auditCreated", "audit"} /\ req[c].id = s}

due(st, seq) == Len(seq) + (IF st = None THEN 0 ELSE 1)

(* A call on s ended between a commit and its audit row.                   *)
rowLost(s) == cutShort \cap ({s} \X {"auditCreated", "audit"}) # {}

Counted(s) == Len(audit[s]) + Cardinality(unlogged(s)) = due(status[s], timeline[s])

Complete(s) == rowLost(s) \/ Counted(s)

(* What was lost stays lost.                                               *)
LEMMA CutShortGrows == [Next]_vars => cutShort \subseteq cutShort'
BY DEF Next, Call, Step, createSettlement, progressSettlement, cancelSettlement,
       failSettlement, completeSettlement, LogCreated, DispatchRequested, UpdateStatus,
       CommitStatus, LogChange, Fail, Abandon, vars

(* A call that owes a row and is abandoned leaves a mark of it.            *)
LEMMA Abandoned ==
  ASSUME NEW c \in Callers, NEW s \in Settlements, pc[c] \in {"auditCreated", "audit"},
         req[c].id = s, Abandon(c)
  PROVE  rowLost(s)'
<1> DEFINE w == <<s, pc[c]>>
<1>1. w \in Settlements \X Owing /\ w \in {s} \X {"auditCreated", "audit"}
  BY DEF Owing
<1>2. w \in cutShort'
  BY <1>1 DEF Abandon
<1> QED  BY <1>1, <1>2 DEF rowLost

LEMMA CompleteNext ==
  ASSUME TypeOK, HistoryInv, [Next]_vars, NEW s \in Settlements, Complete(s)
  PROVE  Complete(s)'
<1>r. rowLost(s) => rowLost(s)'
  BY CutShortGrows DEF rowLost
<1> SUFFICES ASSUME ~rowLost(s), Counted(s) PROVE Complete(s)'
  BY <1>r DEF Complete
<1> DEFINE U == unlogged(s)
<1>t. /\ DOMAIN status = Settlements /\ DOMAIN audit = Settlements
      /\ DOMAIN timeline = Settlements /\ DOMAIN pc = Callers /\ DOMAIN req = Callers
      /\ \A c \in Callers : pc[c] # "idle" =>
           /\ req[c].id \in Settlements /\ req[c].next \in SettlementStatus
           /\ req[c].corr \in Correlation
      /\ timeline[s] \in Seq(SettlementStatus) /\ audit[s] \in Seq(AuditRow)
      /\ "REQUESTED" \in SettlementStatus /\ None \notin SettlementStatus
  BY SettlementAssumption DEF TypeOK, Request, SettlementStatus, Stages
<1>f. IsFiniteSet(U) /\ Cardinality(U) \in Nat /\ Len(timeline[s]) \in Nat /\ Len(audit[s]) \in Nat
  <2>1. IsFiniteSet(U)
    BY SettlementAssumption, FS_Subset DEF unlogged
  <2> QED  BY <2>1, <1>t, FS_CardinalityType
(* A call is counted, or counted no longer, and one more is due or written.*)
<1>q. ASSUME U' = U, UNCHANGED <<status, timeline, audit>> PROVE Complete(s)'
  BY <1>q DEF Complete, Counted
<1>1. ASSUME NEW c \in Callers, NEW id \in Settlements, createSettlement(c, id)
      PROVE  Complete(s)'
  <2>1. /\ status[id] = None /\ status' = [status EXCEPT ![id] = "REQUESTED"]
        /\ pc' = [pc EXCEPT ![c] = "auditCreated"] /\ pc[c] = "idle"
        /\ req' = [req EXCEPT ![c] = [id |-> id, next |-> "REQUESTED", corr |-> "uuid"]]
        /\ UNCHANGED <<audit, timeline>>
    BY <1>1 DEF createSettlement, Goto
  <2>2. CASE s = id
    <3>1. U' = U \cup {c} /\ c \notin U
      BY <2>1, <2>2, <1>t DEF unlogged
    <3>2. Cardinality(U \cup {c}) = Cardinality(U) + 1
      BY <3>1, <1>f, FS_AddElement
    <3>3. status[s] = None /\ status'[s] # None
      BY <2>1, <2>2, <1>t
    <3> QED  BY <2>1, <3>1, <3>2, <3>3, <1>f DEF Complete, Counted, due
  <2>3. CASE s # id
    <3>1. U' = U /\ status'[s] = status[s]
      BY <2>1, <2>3, <1>t DEF unlogged
    <3> QED  BY <2>1, <3>1 DEF Complete, Counted
  <2> QED  BY <2>2, <2>3
<1>2. ASSUME NEW c \in Callers,
             \/ \E id \in Settlements : \E next, corr : progressSettlement(c, id, next, corr)
             \/ DispatchRequested(c) \/ UpdateStatus(c)
      PROVE  Complete(s)'
  <2>1. U' = U
    BY <1>2, <1>t DEF unlogged, progressSettlement, DispatchRequested, UpdateStatus, Goto, Return
  <2> QED
    BY <1>2, <2>1, <1>q DEF progressSettlement, DispatchRequested, UpdateStatus, rows
<1>3. ASSUME NEW c \in Callers, CommitStatus(c) PROVE Complete(s)'
  <2>1. /\ pc[c] = "commit" /\ pc' = [pc EXCEPT ![c] = "audit"]
        /\ timeline' = [timeline EXCEPT ![req[c].id] = Append(@, req[c].next)]
        /\ status' = [status EXCEPT ![req[c].id] = req[c].next]
        /\ UNCHANGED <<audit, req>>
    BY <1>3 DEF CommitStatus, Goto
  <2>2. /\ req[c].id \in Settlements /\ req[c].next \in SettlementStatus
        /\ status[req[c].id] # None
    BY <2>1, <1>t DEF HistoryInv, InFlightJustified
  <2>3. CASE s = req[c].id
    <3>1. U' = U \cup {c} /\ c \notin U
      BY <2>1, <2>3, <1>t DEF unlogged
    <3>2. Cardinality(U \cup {c}) = Cardinality(U) + 1
      BY <3>1, <1>f, FS_AddElement
    <3>3. status[s] # None /\ status'[s] # None /\ timeline'[s] = Append(timeline[s], req[c].next)
      BY <2>1, <2>2, <2>3, <1>t
    <3>4. Len(timeline'[s]) = Len(timeline[s]) + 1
      BY <2>2, <3>3, <1>t
    <3>5. Cardinality(U') = Cardinality(U) + 1
      BY <3>1, <3>2
    <3>6. audit'[s] = audit[s]
      BY <2>1
    <3> HIDE DEF U
    <3>7. Counted(s) <=> Len(audit[s]) + Cardinality(U) = Len(timeline[s]) + 1
      BY <3>3 DEF U, Counted, due
    <3>8. Counted(s)' <=> Len(audit[s]) + Cardinality(U') = Len(timeline'[s]) + 1
      BY <3>3, <3>6 DEF U, Counted, due
    <3>9. Counted(s)'
      BY <3>4, <3>5, <3>7, <3>8, <1>f
    <3> QED  BY <3>9 DEF Complete
  <2>4. CASE s # req[c].id
    <3>1. U' = U /\ status'[s] = status[s] /\ timeline'[s] = timeline[s]
      BY <2>1, <2>2, <2>4, <1>t DEF unlogged
    <3> QED  BY <2>1, <3>1 DEF Complete, Counted
  <2> QED  BY <2>3, <2>4
<1>4. ASSUME NEW c \in Callers, LogCreated(c) \/ (LogChange(c) /\ req[c].corr = "uuid")
      PROVE  Complete(s)'
  <2>1. PICK before, after : /\ auditLog(req[c].id, before, after)
                             /\ [before |-> before, after |-> after] \in AuditRow
    <3>1. CASE LogCreated(c)
      <4>1. [before |-> None, after |-> "REQUESTED"] \in AuditRow
        BY <1>t DEF AuditRow
      <4> QED  BY <3>1, <4>1 DEF LogCreated
    <3>2. CASE LogChange(c)
      <4>1. req[c].corr = "uuid"
        BY <1>4, <3>2 DEF LogCreated, LogChange, Goto
      <4>2. [before |-> seen[c], after |-> req[c].next] \in AuditRow
        BY <3>2, <1>t DEF LogChange, AuditRow, TypeOK
      <4> QED  BY <3>2, <4>1, <4>2 DEF LogChange
    <3> QED  BY <1>4, <3>1, <3>2
  <2>2. /\ pc[c] \in {"auditCreated", "audit"} /\ req[c].id \in Settlements
        /\ UNCHANGED <<status, timeline>>
        /\ U' = U \ {c}
    BY <1>4, <1>t DEF LogCreated, LogChange, Goto, Return, rows, unlogged
  <2>3. CASE s = req[c].id
    <3>1. c \in U
      BY <2>2, <2>3 DEF unlogged
    <3>2. Cardinality(U \ {c}) = Cardinality(U) - 1
      BY <3>1, <1>f, FS_RemoveElement
    <3> DEFINE row == [before |-> before, after |-> after]
    <3>3. audit'[s] = Append(audit[s], row) /\ row \in AuditRow
      BY <2>1, <2>3, <1>t DEF auditLog
    <3> HIDE DEF row
    <3>4. Len(audit'[s]) = Len(audit[s]) + 1
      BY <3>3, <1>t
    <3>5. Cardinality(U') = Cardinality(U) - 1
      BY <2>2, <3>2
    <3>6. timeline'[s] = timeline[s] /\ status'[s] = status[s]
      BY <2>2
    <3> HIDE DEF U
    <3>7. Counted(s) <=> Len(audit[s]) + Cardinality(U) = due(status[s], timeline[s])
      BY DEF U, Counted
    <3>8. Counted(s)' <=> Len(audit'[s]) + Cardinality(U') = due(status[s], timeline[s])
      BY <3>6 DEF U, Counted, due
    <3>9. due(status[s], timeline[s]) \in Nat
      <4>1. CASE status[s] = None
        BY <4>1, <1>f DEF due
      <4>2. CASE status[s] # None
        BY <4>2, <1>f DEF due
      <4> QED  BY <4>1, <4>2
    <3>10. Counted(s)'
      BY <3>4, <3>5, <3>7, <3>8, <3>9, <1>f
    <3> QED  BY <3>10 DEF Complete
  <2>4. CASE s # req[c].id
    <3>1. audit'[s] = audit[s]
      BY <2>1, <2>2, <2>4, Logged
    <3>2. U' = U
      BY <2>2, <2>4 DEF unlogged
    <3> QED  BY <2>2, <3>1, <3>2 DEF Complete, Counted
  <2> QED  BY <2>3, <2>4
<1>5. ASSUME NEW c \in Callers, Fail(c) \/ (LogChange(c) /\ req[c].corr # "uuid")
      PROVE  Complete(s)'
  <2>1. /\ pc[c] # "idle" /\ req[c].id \in Settlements
        /\ Abandon(c) /\ Return(c) /\ UNCHANGED <<status, timeline, audit>>
    BY <1>5, <1>t DEF Fail, LogChange, rows
  <2>2. CASE c \in U
    <3>1. pc[c] \in {"auditCreated", "audit"} /\ req[c].id = s
      BY <2>2 DEF unlogged
    <3>2. rowLost(s)'
      BY <2>1, <3>1, Abandoned
    <3> QED  BY <3>2 DEF Complete
  <2>3. CASE c \notin U
    <3>1. U' = U
      BY <2>1, <2>3, <1>t DEF Return, unlogged
    <3> QED  BY <2>1, <3>1, <1>q
  <2> QED  BY <2>2, <2>3
<1>6. CASE UNCHANGED vars
  <2>1. U' = U
    BY <1>6 DEF vars, unlogged
  <2> QED  BY <1>6, <2>1, <1>q DEF vars
<1> QED
  BY <1>1, <1>2, <1>3, <1>4, <1>5, <1>6
     DEF Next, Call, Step, cancelSettlement, failSettlement, completeSettlement

(* In however many calls at once, no change stays without its audit row,   *)
(* unless a call ended between the commit and the row.                     *)
THEOREM AuditComplete == Spec => []AuditEveryChange
<1> DEFINE Inv == \A s \in Settlements : Complete(s)
<1>1. Init => Inv
  <2> SUFFICES ASSUME Init, NEW s \in Settlements PROVE Complete(s)
    OBVIOUS
  <2>1. unlogged(s) = {} /\ audit[s] = << >> /\ timeline[s] = << >> /\ status[s] = None
    BY DEF Init, unlogged
  <2> QED  BY <2>1, FS_EmptySet DEF Complete, Counted, due
<1>2. TypeOK /\ HistoryInv /\ Inv /\ [Next]_vars => Inv'
  BY CompleteNext
<1>3. TypeOK /\ Inv => AuditEveryChange
  <2> SUFFICES ASSUME TypeOK, Inv, \A c \in Callers : pc[c] = "idle",
                      NEW s \in Settlements, status[s] # None, ~rowLost(s)
               PROVE  Len(audit[s]) = 1 + Len(timeline[s])
    BY DEF AuditEveryChange, rowLost
  <2>1. unlogged(s) = {} /\ Counted(s)
    BY DEF unlogged, Complete
  <2>2. Len(audit[s]) \in Nat /\ Len(timeline[s]) \in Nat
    BY DEF TypeOK
  <2> QED  BY <2>1, <2>2, FS_EmptySet DEF Counted, due
<1> QED
  BY <1>1, <1>2, <1>3, TypeCorrect, HistoryInit, HistoryNext, PTL DEF Spec
===================================================================================

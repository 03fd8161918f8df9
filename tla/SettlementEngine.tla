----------------------------- MODULE SettlementEngine -----------------------------
(***************************************************************************)
(* services/settlement-engine/src/engine.ts over the settlement and audit  *)
(* repositories and the in-memory event dispatcher.                        *)
(*                                                                         *)
(* Every await of an engine method is a point where other calls run, so a  *)
(* method is a sequence of actions of its caller, separated by pc[c]:      *)
(*                                                                         *)
(*   createSettlement    INSERT | audit row | dispatch                     *)
(*   progressSettlement  read and check | UPDATE in a transaction |        *)
(*                       event row and COMMIT | audit row                  *)
(*                                                                         *)
(* A call rejected before its first write (validation, NOT_FOUND, an       *)
(* illegal transition) changes nothing: it is a stuttering step.           *)
(***************************************************************************)
EXTENDS SettlementStateMachine, Sequences, Naturals, FiniteSets

CONSTANTS Callers,      \* concurrent invocations of the engine
          Settlements,  \* ids the database hands out
          None,
          Correlation,  \* the correlationId arguments callers use, see below
          MaxTimeline,  \* bound: no change begins once this many are committed
          Faults        \* may a database call fail, or the process die?

VARIABLES status,     \* settlements.status of the committed row, None: no row
          timeline,   \* the settlement_events of a settlement, in commit order
          lock,       \* who holds the row lock of the settlement's UPDATE
          audit,      \* its audit_logs rows: [before, after]
          eventLog,   \* the dispatcher's log of SettlementRequested events
          pc,         \* where each caller is
          req,        \* its arguments
          seen,       \* existing.status, as it read it
          cutShort    \* history: which calls ended early, where; see Abandon

vars == <<status, timeline, lock, audit, eventLog, pc, req, seen, cutShort>>
rows == <<status, timeline, lock>>

(* The call's arguments; next is REQUESTED for a createSettlement.         *)
Request == [id : Settlements, next : SettlementStatus, corr : Correlation]

(* A correlationId is a UUID or a string makeCorrelationId throws on.      *)
ASSUME SettlementAssumption == /\ Correlation \subseteq {"uuid", "malformed"}
                               /\ MaxTimeline \in Nat
                               /\ Faults \in BOOLEAN
                               /\ None \notin SettlementStatus \cup Callers \cup Request
                               /\ IsFiniteSet(Callers)

AuditRow == [before : SettlementStatus \cup {None}, after : SettlementStatus]

Init == /\ status   = [s \in Settlements |-> None]
        /\ timeline = [s \in Settlements |-> << >>]
        /\ lock     = [s \in Settlements |-> None]
        /\ audit    = [s \in Settlements |-> << >>]
        /\ eventLog = << >>
        /\ pc       = [c \in Callers |-> "idle"]
        /\ req      = [c \in Callers |-> None]
        /\ seen     = [c \in Callers |-> None]
        /\ cutShort = {}

Goto(c, from, to) == pc[c] = from /\ pc' = [pc EXCEPT ![c] = to]

(* A call returns or throws: its local variables are gone.                 *)
Return(c) == /\ pc'   = [pc EXCEPT ![c] = "idle"]
             /\ req'  = [req EXCEPT ![c] = None]
             /\ seen' = [seen EXCEPT ![c] = None]

(* The points where a call has committed a row but not yet its audit row,  *)
(* or not yet the event; the history variable records that a call ended    *)
(* there.  No action reads it: the properties below tell by it what is     *)
(* missing from what was lost.                                             *)
Owing == {"auditCreated", "dispatch", "audit"}
Abandon(c) == cutShort' = cutShort \cup {w \in Settlements \X Owing : w = <<req[c].id, pc[c]>>}

(* Slip: the before and after arguments of log swapped.                    *)
auditLogSwapped(id, before, after) ==
  audit' = [audit EXCEPT ![id] = Append(@, [before |-> after, after |-> before])]

auditLog(id, before, after) ==
  audit' = [audit EXCEPT ![id] = Append(@, [before |-> before, after |-> after])]

-----------------------------------------------------------------------------------
(* Slip: the audit row of the creation forgotten.                          *)
createSettlementUnaudited(c, id) ==
  /\ Goto(c, "idle", "dispatch")
  /\ status[id] = None
  /\ status' = [status EXCEPT ![id] = "REQUESTED"]
  /\ req' = [req EXCEPT ![c] = [id |-> id, next |-> "REQUESTED", corr |-> "uuid"]]
  /\ UNCHANGED <<timeline, lock, audit, eventLog, seen, cutShort>>

(* createSettlement: the INSERT.  The correlationId is checked before it.  *)
createSettlement(c, id) ==
  /\ Goto(c, "idle", "auditCreated")
  /\ "uuid" \in Correlation
  /\ status[id] = None
  /\ status' = [status EXCEPT ![id] = "REQUESTED"]
  /\ req' = [req EXCEPT ![c] = [id |-> id, next |-> "REQUESTED", corr |-> "uuid"]]
  /\ UNCHANGED <<timeline, lock, audit, eventLog, seen, cutShort>>

(* Slip: createSettlement returns before it dispatches.                    *)
LogCreatedReturns(c) ==
  /\ pc[c] = "auditCreated"
  /\ auditLog(req[c].id, None, "REQUESTED")
  /\ Return(c)
  /\ UNCHANGED <<rows, eventLog, cutShort>>

LogCreated(c) ==
  /\ Goto(c, "auditCreated", "dispatch")
  /\ auditLog(req[c].id, None, "REQUESTED")
  /\ UNCHANGED <<rows, eventLog, req, seen, cutShort>>

(* dispatch: the event is logged before its handlers are called, and the   *)
(* call ends the same way whether they return or one of them throws.       *)
DispatchRequested(c) ==
  /\ pc[c] = "dispatch"
  /\ eventLog' = Append(eventLog, req[c].id)
  /\ Return(c)
  /\ UNCHANGED <<rows, audit, cutShort>>

-----------------------------------------------------------------------------------
(* Slip: only terminal states are checked, not the transition table.       *)
progressSettlementUnchecked(c, id, next, corr) ==
  /\ Goto(c, "idle", "update")
  /\ status[id] # None /\ ~isTerminal(status[id])
  /\ Len(timeline[id]) < MaxTimeline
  /\ req'  = [req EXCEPT ![c] = [id |-> id, next |-> next, corr |-> corr]]
  /\ seen' = [seen EXCEPT ![c] = status[id]]
  /\ UNCHANGED <<rows, audit, eventLog, cutShort>>

(* progressSettlement: findSettlementById and the state machine's check.   *)
progressSettlement(c, id, next, corr) ==
  /\ Goto(c, "idle", "update")
  /\ canTransition(status[id], next)
  /\ Len(timeline[id]) < MaxTimeline
  /\ req'  = [req EXCEPT ![c] = [id |-> id, next |-> next, corr |-> corr]]
  /\ seen' = [seen EXCEPT ![c] = status[id]]
  /\ UNCHANGED <<rows, audit, eventLog, cutShort>>

cancelSettlement(c, id, corr)   == progressSettlement(c, id, "CANCELLED", corr)
failSettlement(c, id, corr)     == progressSettlement(c, id, "FAILED", corr)
completeSettlement(c, id, corr) == progressSettlement(c, id, "COMPLETED", corr)

(* Slip: the UPDATE runs outside the transaction.                          *)
UpdateStatusAutocommit(c) ==
  /\ Goto(c, "update", "commit")
  /\ lock[req[c].id] = None
  /\ lock' = [lock EXCEPT ![req[c].id] = c]
  /\ status' = [status EXCEPT ![req[c].id] = req[c].next]
  /\ UNCHANGED <<timeline, audit, eventLog, req, seen, cutShort>>

(* updateSettlementStatus: UPDATE ... SET status takes the row lock inside *)
(* a transaction, whatever the status now is, and is not visible yet.      *)
UpdateStatus(c) ==
  /\ Goto(c, "update", "commit")
  /\ lock[req[c].id] = None
  /\ lock' = [lock EXCEPT ![req[c].id] = c]
  /\ UNCHANGED <<status, timeline, audit, eventLog, req, seen, cutShort>>

(* Slip: no SettlementEvent row.                                           *)
CommitStatusNoEvent(c) ==
  /\ Goto(c, "commit", "audit")
  /\ status' = [status EXCEPT ![req[c].id] = req[c].next]
  /\ lock'   = [lock EXCEPT ![req[c].id] = None]
  /\ UNCHANGED <<timeline, audit, eventLog, req, seen, cutShort>>

(* Slip: the transaction is left open.                                     *)
CommitStatusHoldsLock(c) ==
  /\ Goto(c, "commit", "audit")
  /\ status'   = [status EXCEPT ![req[c].id] = req[c].next]
  /\ timeline' = [timeline EXCEPT ![req[c].id] = Append(@, req[c].next)]
  /\ UNCHANGED <<lock, audit, eventLog, req, seen, cutShort>>

(* The SettlementEvent row and the COMMIT, which publishes both writes.    *)
CommitStatus(c) ==
  /\ Goto(c, "commit", "audit")
  /\ status'   = [status EXCEPT ![req[c].id] = req[c].next]
  /\ timeline' = [timeline EXCEPT ![req[c].id] = Append(@, req[c].next)]
  /\ lock'     = [lock EXCEPT ![req[c].id] = None]
  /\ UNCHANGED <<audit, eventLog, req, seen, cutShort>>

(* Slip: before is read again instead of taken from existing.              *)
LogChangeReread(c) ==
  /\ pc[c] = "audit"
  /\ \/ /\ req[c].corr = "uuid"
        /\ auditLog(req[c].id, status[req[c].id], req[c].next)
        /\ UNCHANGED cutShort
     \/ req[c].corr = "malformed" /\ Abandon(c) /\ UNCHANGED audit
  /\ Return(c)
  /\ UNCHANGED <<rows, eventLog>>

(* auditRepo.log(...): its argument makeCorrelationId(correlationId) is    *)
(* evaluated here, after the commit, and throws on a malformed one.        *)
LogChange(c) ==
  /\ pc[c] = "audit"
  /\ \/ /\ req[c].corr = "uuid"
        /\ auditLog(req[c].id, seen[c], req[c].next)
        /\ UNCHANGED cutShort
     \/ req[c].corr = "malformed" /\ Abandon(c) /\ UNCHANGED audit
  /\ Return(c)
  /\ UNCHANGED <<rows, eventLog>>

(* A database call fails or the process dies: an open transaction rolls    *)
(* back, what was committed stays, and nothing resumes the call.           *)
Fail(c) ==
  /\ Faults
  /\ pc[c] # "idle"
  /\ lock' = [s \in Settlements |-> IF lock[s] = c THEN None ELSE lock[s]]
  /\ Abandon(c)
  /\ Return(c)
  /\ UNCHANGED <<status, timeline, audit, eventLog>>

(* The steps of a call after its first.                                    *)
Step(c) == \/ LogCreated(c) \/ DispatchRequested(c)
           \/ UpdateStatus(c) \/ CommitStatus(c) \/ LogChange(c)

Call(c) == \E id \in Settlements :
  \/ createSettlement(c, id)
  \/ \E corr \in Correlation : \/ cancelSettlement(c, id, corr)
                               \/ failSettlement(c, id, corr)
                               \/ completeSettlement(c, id, corr)
                               \/ \E next \in SettlementStatus :
                                    progressSettlement(c, id, next, corr)

Next == \E c \in Callers : Call(c) \/ Step(c) \/ Fail(c)

Spec == Init /\ [][Next]_vars

(* A caller's promise is always resumed.  SF for the row lock: Postgres    *)
(* queues those who wait for it.  Nobody is obliged to start a call.       *)
Fairness == \A c \in Callers : WF_vars(Step(c)) /\ SF_vars(UpdateStatus(c))

FairSpec == Spec /\ Fairness

-----------------------------------------------------------------------------------
(* What validateSettlement answers; the row is read, nothing is written.   *)
validateSettlement(id) ==
  IF status[id] = None
  THEN [valid |-> FALSE, status |-> "FAILED", nextStates |-> {}]
  ELSE [valid      |-> ~isTerminal(status[id]),
        status     |-> status[id],
        nextStates |-> allowedTransitions(status[id])]

-----------------------------------------------------------------------------------
(* The variables have their types; a caller inside a transaction, and no   *)
(* other, holds its settlement's row lock.                                 *)
TypeOK ==
  /\ status   \in [Settlements -> SettlementStatus \cup {None}]
  /\ timeline \in [Settlements -> Seq(SettlementStatus)]
  /\ lock     \in [Settlements -> Callers \cup {None}]
  /\ audit    \in [Settlements -> Seq(AuditRow)]
  /\ eventLog \in Seq(Settlements)
  /\ pc       \in [Callers -> {"idle", "auditCreated", "dispatch",
                              "update", "commit", "audit"}]
  /\ req      \in [Callers -> Request \cup {None}]
  /\ seen     \in [Callers -> SettlementStatus \cup {None}]
  /\ cutShort \subseteq Settlements \X Owing
  /\ \A c \in Callers : pc[c] # "idle" => req[c] # None

LockDiscipline ==
  \A c \in Callers, s \in Settlements :
    lock[s] = c <=> pc[c] = "commit" /\ req[c].id = s

(* The statuses a settlement has had, oldest first.                        *)
history(s) == <<"REQUESTED">> \o timeline[s]

(* "Every transition produces a SettlementEvent record": whatever calls    *)
(* race or fail, the row's status is the last one of its timeline, so the  *)
(* UPDATE and the event row of updateSettlementStatus never part.          *)
TimelineMatchesStatus ==
  \A s \in Settlements :
    status[s] # None => status[s] = history(s)[Len(history(s))]

(* The check of progressSettlement survives races in this weaker form: no  *)
(* status is recorded unless the table allows it from one the settlement   *)
(* had before, and none at all before the settlement exists.               *)
TimelineJustified ==
  \A s \in Settlements :
    /\ timeline[s] # << >> => status[s] # None
    /\ \A i \in 1..Len(timeline[s]) :
         \E j \in 1..i : canTransition(history(s)[j], timeline[s][i])

(* Nothing completes by a shortcut: a settlement that was ever COMPLETED   *)
(* went through every stage of the protocol, even when calls raced.        *)
CompletedAfterEveryStage ==
  \A s \in Settlements : \A i \in 1..Len(timeline[s]) :
    timeline[s][i] = "COMPLETED" =>
      \A stage \in Stages : \E j \in 1..i : history(s)[j] = stage

(* The rows of a log and the records of a timeline that tell of status x,  *)
(* and the calls past their commit that still owe such a row.              *)
rowsTo(log, x)    == {i \in DOMAIN log : log[i].after = x}
changesTo(seq, x) == {i \in DOMAIN seq : seq[i] = x}
owed(s, x) == {c \in Callers : pc[c] = "audit" /\ req[c].id = s /\ req[c].next = x}

(* The audit log never tells of a change that did not happen: for every    *)
(* status there are at most as many rows, written or owed, as timeline     *)
(* records; a row names an allowed transition out of a status the          *)
(* settlement really had.                                                  *)
AuditOnlyCommitted ==
  \A s \in Settlements :
    /\ \A x \in SettlementStatus \ {"REQUESTED"} :
         Cardinality(rowsTo(audit[s], x)) + Cardinality(owed(s, x))
           <= Cardinality(changesTo(timeline[s], x))
    /\ \A i \in DOMAIN audit[s] : LET row == audit[s][i] IN
         row.before # None => /\ canTransition(row.before, row.after)
                              /\ \E j \in 1..Len(history(s)) : history(s)[j] = row.before

(* SettlementRequested is announced at most once per settlement, and only  *)
(* when its row and the audit row of its creation are durable, so that a   *)
(* handler may look both up; of which audit rows there is one at most.     *)
AnnouncedWhenDurable ==
  /\ \A i, j \in DOMAIN eventLog : eventLog[i] = eventLog[j] => i = j
  /\ \A i \in DOMAIN eventLog :
       \E k \in DOMAIN audit[eventLog[i]] : audit[eventLog[i]][k].before = None
  /\ \A s \in Settlements : \A j, k \in DOMAIN audit[s] :
       audit[s][j].before = None /\ audit[s][k].before = None => j = k /\ status[s] # None

(* "Creates audit log" (docs/domain-services.md:32): once no call is in    *)
(* flight, a settlement has an audit row for its creation and one for      *)
(* every change of its status, in however many calls at once, unless a     *)
(* call ended between the commit and the row: by a failure, or by a        *)
(* malformed correlationId, which is found out only there.                 *)
AuditEveryChange ==
  (\A c \in Callers : pc[c] = "idle") =>
    \A s \in Settlements :
      \/ status[s] = None
      \/ cutShort \cap ({s} \X {"auditCreated", "audit"}) # {}
      \/ Len(audit[s]) = 1 + Len(timeline[s])

(* "Terminal states are irreversible" (docs/state-machine.md:77).          *)
TerminalIrreversible ==
  [][\A s \in Settlements : status[s] \in TERMINAL_STATES => status'[s] = status[s]]_vars

(* What is left of it when calls race: only a call that passed its check   *)
(* while the status was not terminal yet may still replace it.  Once none  *)
(* is under way the status is final, and nothing can begin to change it.   *)
Settled(s) == /\ status[s] \in TERMINAL_STATES
              /\ \A c \in Callers : pc[c] \in {"update", "commit"} => req[c].id # s
SettledForGood ==
  [][\A s \in Settlements : Settled(s) => Settled(s)' /\ status'[s] = status[s]]_vars

(* Every step is a step of the abstract lifecycle or leaves it unchanged.  *)
Lifecycle == INSTANCE SettlementLifecycle
LifecycleSpec == Lifecycle!Spec

(* No call hangs: whoever waits for a row lock gets it.                    *)
EveryCallEnds == \A c \in Callers : pc[c] # "idle" ~> pc[c] = "idle"

(* Every settlement that exists is announced, unless the call that created *)
(* it ended between its INSERT and its dispatch.                           *)
RequestedAnnounced ==
  \A s \in Settlements :
    status[s] # None ~> \/ \E i \in 1..Len(eventLog) : eventLog[i] = s
                        \/ cutShort \cap ({s} \X {"auditCreated", "dispatch"}) # {}
===================================================================================

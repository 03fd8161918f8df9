---------------------------- MODULE SettlementLifecycle ----------------------------
(***************************************************************************)
(* What the settlement service promises (docs/state-machine.md, "Rules"):  *)
(* a settlement is created in REQUESTED and from then on its status and    *)
(* its timeline of SettlementEvent records advance together, one allowed   *)
(* transition at a time.  No callers, transactions or audit rows here.     *)
(***************************************************************************)
EXTENDS SettlementStateMachine, Sequences

CONSTANTS Settlements,  \* settlement ids
          None          \* "no such row"

VARIABLES status,       \* status[s]: the settlement's status, None before it exists
          timeline      \* timeline[s]: the statuses recorded for it, oldest first

vars == <<status, timeline>>

Init == /\ status = [s \in Settlements |-> None]
        /\ timeline = [s \in Settlements |-> << >>]

Create(s) == /\ status[s] = None
             /\ status' = [status EXCEPT ![s] = "REQUESTED"]
             /\ UNCHANGED timeline

Advance(s, next) == /\ canTransition(status[s], next)
                    /\ status' = [status EXCEPT ![s] = next]
                    /\ timeline' = [timeline EXCEPT ![s] = Append(@, next)]

Next == \E s \in Settlements : \/ Create(s)
                               \/ \E next \in SettlementStatus : Advance(s, next)

Spec == Init /\ [][Next]_vars
====================================================================================

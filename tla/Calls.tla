----------------------------------- MODULE Calls -----------------------------------
(***************************************************************************)
(* The calls under way in engines that share a database: where each one    *)
(* awaits, and its arguments.                                              *)
(***************************************************************************)
CONSTANTS Callers, \* calls that may run at the same time
          Faults,  \* may a database call fail?
          None

VARIABLES pc,  \* pc[c]: the step at which call c awaits the database
          req  \* req[c]: what it was called with, and has found out since

calls == <<pc, req>>

ASSUME CallsAssumption == Faults \in BOOLEAN

CallsInit == pc = [c \in Callers |-> "idle"] /\ req = [c \in Callers |-> None]

Begin(c, step, r) == /\ pc[c] = "idle"
                     /\ pc'  = [pc EXCEPT ![c] = step]
                     /\ req' = [req EXCEPT ![c] = r]

Goto(c, from, to) == /\ pc[c] = from
                     /\ pc' = [pc EXCEPT ![c] = to]
                     /\ UNCHANGED req

(* The call returns, or throws.                                            *)
Return(c, from) == /\ pc[c] = from
                   /\ pc'  = [pc EXCEPT ![c] = "idle"]
                   /\ req' = [req EXCEPT ![c] = None]
====================================================================================

--------------------------------- MODULE MoneyFlow ---------------------------------
(***************************************************************************)
(* What happens to the money of a settlement in the hands of a client of   *)
(* the value objects: it is created by the factory, and then added to,     *)
(* subtracted from and charged fees, in any order.                         *)
(***************************************************************************)
EXTENDS Money

CONSTANTS Inputs,       \* numbers that callers pass for amounts
          Percentages,  \* and for percentages
          MaxRoundings, \* bound: no amount comes in once this many were rounded
          None

VARIABLES balance,   \* the Money at hand, or None
          fees,      \* cents charged so far
          exact,     \* ticks that came in minus ticks that went out, or Huge
          roundings, \* how many amounts those were
          fee        \* the fee just charged: what percentage of what, and what
                     \* came of it by Money and by calculateFee, None if it threw

flow == <<balance, fees, exact, roundings, fee>>

Fee == [of : Nat \cup {Infinity}, percent : Number,
        money : Nat \cup {None}, treasury : Number \cup {None}]

ASSUME FlowAssumption == /\ Inputs \subseteq Number
                         /\ Percentages \subseteq Number
                         /\ MaxRoundings \in Nat
                         /\ None \notin Money \cup Number \cup Fee

FlowInit == balance = None /\ fees = 0 /\ exact = 0 /\ roundings = 0 /\ fee = None

Create(x, currency) ==
  /\ balance = None
  /\ balance' \in createSettlement(x, currency)
  /\ exact' = x
  /\ roundings' = 1
  /\ fee' = None /\ UNCHANGED fees

Add(x, currency) ==
  /\ balance # None /\ roundings < MaxRoundings
  /\ \E m \in makeMoney(x, currency) : balance' \in add(balance, m)
  /\ exact' = exact + x
  /\ roundings' = roundings + 1
  /\ fee' = None /\ UNCHANGED fees

Subtract(x, currency) ==
  /\ balance # None /\ roundings < MaxRoundings
  /\ \E m \in makeMoney(x, currency) : balance' \in subtract(balance, m)
  /\ exact' = exact - x
  /\ roundings' = roundings + 1
  /\ fee' = None /\ UNCHANGED fees

(* What a caller sees of a call that may throw.                            *)
outcomes(S) == IF S = {} THEN {None} ELSE S

(* The fee is a percentage of the balance, computed both ways, and the one *)
(* by Money is taken out of it: in vain if it throws or is more.           *)
Charge(x) ==
  /\ balance # None
  /\ \E f \in outcomes(UNION {multiply(balance, p) : p \in percentage(x)}),
        t \in outcomes(calculateFee(amount(balance), x)) :
       /\ fee' = [of |-> balance.cents, percent |-> x,
                  money |-> IF f = None THEN None ELSE f.cents, treasury |-> t]
       /\ \/ f # None /\ balance' \in subtract(balance, f) /\ fees' = fees + f.cents
          \/ (f # None => subtract(balance, f) = {}) /\ UNCHANGED <<balance, fees>>
  /\ UNCHANGED <<exact, roundings>>

FlowNext == \/ \E x \in Inputs, currency \in Currencies :
                 Create(x, currency) \/ Add(x, currency) \/ Subtract(x, currency)
            \/ \E x \in Percentages : Charge(x)
====================================================================================

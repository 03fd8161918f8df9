------------------------------- MODULE DomainValues -------------------------------
(***************************************************************************)
(* The value objects and the ledger schema, in the hands of clients that   *)
(* use them in any order.                                                  *)
(***************************************************************************)
EXTENDS MoneyFlow, LedgerSchema

vars == <<flow, draft>>

Init == FlowInit /\ SchemaInit

Next == \/ FlowNext /\ UNCHANGED draft
        \/ SchemaNext /\ UNCHANGED flow

Spec == Init /\ [][Next]_vars

-----------------------------------------------------------------------------------
(* The variables have their types: a Money is never negative or NaN, but   *)
(* of a finite number that is too big it is infinite.                      *)
TypeOK ==
  /\ balance \in Money \cup {None}
  /\ fees \in Nat /\ exact \in Int \cup {Huge} /\ roundings \in Nat
  /\ fee \in Fee \cup {None}
  /\ draft \in Drafts

(* "Amounts are stored as integers (minor units) to avoid floating-point   *)
(* drift": balance and fees are off by half a cent at most for each amount *)
(* that came in or went out; sums, differences and fees add nothing.       *)
DriftBounded ==
  balance # None /\ balance.cents # Infinity =>
    LET drift == (balance.cents + fees) * 1000 - exact
    IN  -500 * roundings <= drift /\ drift <= 500 * roundings

(* Money and Percentage give a fee for the percentages from 0 to 100 of a  *)
(* finite amount and throw for all others, NaN included.  Such a fee is    *)
(* never more than what it is taken from, so that subtract does not throw, *)
(* and the treasury's calculateFee, which goes another way about it and    *)
(* has other bounds, comes within a cent of it unless there is nothing to  *)
(* take it from.                                                           *)
FeesAgree ==
  fee # None =>
    IF fee.of # Infinity /\ fee.percent \in 0..100
    THEN /\ fee.money # None /\ fee.money <= fee.of
         /\ fee.of # 0 => fee.treasury \in (fee.money - 1)..(fee.money + 1)
    ELSE fee.money = None

(* The factory asks the policy about the number it was given, but makes a  *)
(* Money of it that is rounded: that one is beyond a limit by half a cent  *)
(* at most, and so never beyond one in whole cents.                        *)
CreatedWithinLimits ==
  [][balance = None /\ balance' # None =>
       LET min == config.minAmount
           max == config.maxAmountByCurrency[balance'.currency]
       IN  /\ min \in Int /\ balance'.cents # Infinity => balance'.cents * 1000 >= min - 500
           /\ limited(balance'.currency) /\ max \in Int =>
                balance'.cents # Infinity /\ balance'.cents * 1000 <= max + 500]_vars

(* "Sum of debits must equal sum of credits": as the columns keep it, an   *)
(* accepted transaction in one currency is off by no more than 0.0001, and *)
(* half of that for every entry that had more than four decimals.  The     *)
(* schema adds up amounts of different currencies, so of a transaction in  *)
(* several nothing of the kind can be said.                                *)
AcceptedNearlyBalanced ==
  [][draft # empty /\ draft' = empty =>
       \A c \in EntryCurrencies : draft.currencies = {c} =>
         LET off == 10 * draft.columns[c]
         IN  -(10 + 5 * draft.size) <= off /\ off <= 10 + 5 * draft.size]_vars
===================================================================================

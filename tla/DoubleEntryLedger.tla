---------------------------- MODULE DoubleEntryLedger ----------------------------
(***************************************************************************)
(* What a double-entry ledger promises the treasury: every posting moves   *)
(* one amount from one account to another in a single step, and the three  *)
(* operations post between fixed pairs of accounts.                        *)
(***************************************************************************)
EXTENDS Integers

CONSTANT Postings      \* the amounts a posting may have once stored

VARIABLE balance       \* debits minus credits of each account

(* External is whatever account the organization is funded from.           *)
LedgerAccounts == {"SETTLEMENT", "RESERVE", "EXTERNAL"}

Init == balance = [a \in LedgerAccounts |-> 0]

Post(debit, credit, amount) ==
  balance' = [balance EXCEPT ![debit] = @ + amount, ![credit] = @ - amount]

Fund(amount)    == Post("SETTLEMENT", "EXTERNAL", amount)
Reserve(amount) == Post("SETTLEMENT", "RESERVE", amount)
Release(amount) == Post("RESERVE", "SETTLEMENT", amount)

Next == \E amount \in Postings : Fund(amount) \/ Reserve(amount) \/ Release(amount)

Spec == Init /\ [][Next]_balance
==================================================================================

------------------------------- MODULE LedgerSchema -------------------------------
(***************************************************************************)
(* packages/shared/src/validation: ledgerTransactionSchema, which decides  *)
(* whether the entries of a transaction balance, and what the columns of   *)
(* ledger_entries, with four decimals, would keep of those it lets pass.   *)
(* An amount is a number of ticks of 10^-5.                                *)
(***************************************************************************)
EXTENDS Integers

CONSTANTS EntryAmounts,    \* amounts of entries
          EntryCurrencies, \* and their currencies
          MaxEntries       \* bound on the entries of a transaction

VARIABLE draft \* of the entries so far: debits minus credits, the same of the
               \* columns in each currency, their number and their currencies

Drafts == [net : Int, columns : [EntryCurrencies -> Int], size : Nat, currencies : SUBSET EntryCurrencies]

ASSUME SchemaAssumption == /\ EntryAmounts \subseteq Nat
                           /\ MaxEntries \in Nat

empty == [net |-> 0, columns |-> [c \in EntryCurrencies |-> 0], size |-> 0, currencies |-> {}]

SchemaInit == draft = empty

signed(type, n) == IF type = "DEBIT" THEN n ELSE -n

(* Decimal(18,4), rounding half up.                                        *)
stored(n) == (n + 5) \div 10

(* One entry of the reduce over debits, or over credits, which both run    *)
(* over the entries of all currencies: z.positive.                         *)
AddEntry(type, entered, currency) ==
  /\ entered > 0 /\ draft.size < MaxEntries
  /\ draft' = [net        |-> draft.net + signed(type, entered),
               columns    |-> [draft.columns EXCEPT ![currency] = @ + signed(type, stored(entered))],
               size       |-> draft.size + 1,
               currencies |-> draft.currencies \cup {currency}]

(* Slip: no Math.abs.                                                      *)
mayBalanceOneSided(d) == d.net <= 10

(* Math.abs(debits - credits) < 0.0001, in floating point: a difference of *)
(* just 0.0001 may pass (1.0001 - 1 is below it).                          *)
mayBalance(d) == -10 <= d.net /\ d.net <= 10

(* The schema accepts.  When it refuses, nothing changes.                  *)
Accept == /\ draft.size >= 2
          /\ mayBalance(draft)
          /\ draft' = empty

SchemaNext ==
  \/ Accept
  \/ \E entered \in EntryAmounts, type \in {"DEBIT", "CREDIT"}, currency \in EntryCurrencies :
       AddEntry(type, entered, currency)
===================================================================================

--------------------------------- MODULE Treasury ---------------------------------
(***************************************************************************)
(* services/treasury/src/engine.ts over the treasury and audit             *)
(* repositories, for one organization and one currency.                    *)
(*                                                                         *)
(*   reserveFunds   accounts and balance read and checked | transaction    *)
(*                  and debit rows | credit row and COMMIT | audit row     *)
(*   releaseFunds   accounts found | transaction and debit rows |          *)
(*                  credit row and COMMIT                                  *)
(*                                                                         *)
(* The organization gets its money by executeLedgerTransaction too, called *)
(* from outside the engines (fund).  A rejected call is a stuttering step. *)
(***************************************************************************)
EXTENDS Integers, FiniteSets, FiniteSetsExt

CONSTANTS Callers,      \* concurrent invocations
          Settlements,  \* what funds are reserved for
          TxIds,        \* ids for ledger transactions: bounds their number
          Amounts,      \* requested amounts, in units of 10^-5
          Faults,       \* may a database call fail, or the process die?
          None

VARIABLES accounts,     \* names of the ledger accounts that exist
          transactions, \* committed ledger_transactions: [id, op, settlement]
          entries,      \* committed ledger_entries: [tx, account, type, amount]
          pending,      \* pending[c]: entries of c's open transaction
          audit,        \* FUNDS_RESERVED rows: [tx, settlement, amount]
          pc,
          req,          \* the arguments of the call
          txId          \* id of the ledger transaction it opened

vars   == <<accounts, transactions, entries, pending, audit, pc, req, txId>>
ledger == <<transactions, entries>>

Account == {"SETTLEMENT", "RESERVE", "EXTERNAL"}
Op      == {"FUND", "RESERVE", "RELEASE"}
Request == [op : Op, settlement : Settlements, amount : Amounts]

ASSUME TreasuryAssumption == /\ Amounts \subseteq Nat \ {0}
                             /\ Faults \in BOOLEAN
                             /\ None \notin TxIds \cup Request

(* A column Decimal(18,4) keeps four decimals, rounding half up: stored    *)
(* amounts count units of 10^-4.                                           *)
Stored(amount) == (amount + 5) \div 10

Header == [id : TxIds, op : Op, settlement : Settlements]
Entry  == [tx : TxIds, account : Account, type : {"DEBIT", "CREDIT"}, amount : Nat]
Row    == [tx : TxIds, settlement : Settlements, amount : Amounts]

(* Slip: releaseFunds looks up the wrong account to credit.                *)
creditAccountSwapped(op) == IF op = "RESERVE" THEN "RESERVE" ELSE "EXTERNAL"

debitAccount(op)  == IF op = "RELEASE" THEN "RESERVE" ELSE "SETTLEMENT"
creditAccount(op) == CASE op = "FUND"    -> "EXTERNAL"
                       [] op = "RESERVE" -> "RESERVE"
                       [] op = "RELEASE" -> "SETTLEMENT"

(* computeLedgerAccountBalance: debits minus credits, from the entries.    *)
Total(account, type) ==
  MapThenSumSet(LAMBDA e : e.amount,
                { e \in entries : e.account = account /\ e.type = type })
computeLedgerAccountBalance(account) == Total(account, "DEBIT") - Total(account, "CREDIT")

-----------------------------------------------------------------------------------
Init == /\ accounts = {"EXTERNAL"}
        /\ transactions = {} /\ entries = {} /\ audit = {}
        /\ pending = [c \in Callers |-> {}]
        /\ pc   = [c \in Callers |-> "idle"]
        /\ req  = [c \in Callers |-> None]
        /\ txId = [c \in Callers |-> None]

Goto(c, from, to) == pc[c] = from /\ pc' = [pc EXCEPT ![c] = to]

Return(c) == /\ pc'   = [pc EXCEPT ![c] = "idle"]
             /\ req'  = [req EXCEPT ![c] = None]
             /\ txId' = [txId EXCEPT ![c] = None]

(* The insert is refused if the name is taken (unique organization, name). *)
createLedgerAccount(account) ==
  /\ account \notin accounts
  /\ accounts' = accounts \cup {account}
  /\ UNCHANGED <<ledger, pending, audit, pc, req, txId>>

Begin(c, op, settlement, amount) ==
  /\ Goto(c, "idle", "debit")
  /\ {debitAccount(op), creditAccount(op)} \subseteq accounts
  /\ req' = [req EXCEPT ![c] = [op |-> op, settlement |-> settlement, amount |-> amount]]
  /\ UNCHANGED <<accounts, ledger, pending, audit, txId>>

(* The balance is compared with the amount as requested, not as stored,    *)
(* and nothing holds it until the entries are written.                     *)
reserveFunds(c, settlement, amount) ==
  /\ computeLedgerAccountBalance("SETTLEMENT") * 10 >= amount
  /\ Begin(c, "RESERVE", settlement, amount)

(* No balance, reservation or earlier release is looked at.                *)
releaseFunds(c, settlement, amount) == Begin(c, "RELEASE", settlement, amount)

fund(c, settlement, amount) == Begin(c, "FUND", settlement, amount)

-----------------------------------------------------------------------------------
(* executeLedgerTransaction, in three parts: the entries it writes ...     *)
entry(c, id, type) ==
  [tx |-> id, type |-> type, amount |-> Stored(req[c].amount),
   account |-> IF type = "DEBIT" THEN debitAccount(req[c].op) ELSE creditAccount(req[c].op)]

FreshIds == TxIds \ ({ t.id : t \in transactions } \cup { txId[c] : c \in Callers })

(* Slip: the debit is written outside the transaction.                     *)
WriteDebitAutocommit(c) ==
  /\ Goto(c, "debit", "credit")
  /\ \E id \in FreshIds : /\ txId' = [txId EXCEPT ![c] = id]
                          /\ entries' = entries \cup {entry(c, id, "DEBIT")}
  /\ UNCHANGED <<accounts, transactions, pending, audit, req>>

(* Slip: the audit row is written before the reservation is committed.     *)
WriteDebitAudited(c) ==
  /\ Goto(c, "debit", "credit")
  /\ \E id \in FreshIds : /\ txId' = [txId EXCEPT ![c] = id]
                          /\ pending' = [pending EXCEPT ![c] = {entry(c, id, "DEBIT")}]
                          /\ audit' = audit \cup {[tx |-> id, settlement |-> req[c].settlement,
                                                    amount |-> req[c].amount]}
  /\ UNCHANGED <<accounts, ledger, req>>

(* ... the ledger transaction and its debit, invisible until the COMMIT ... *)
WriteDebit(c) ==
  /\ Goto(c, "debit", "credit")
  /\ \E id \in FreshIds : /\ txId' = [txId EXCEPT ![c] = id]
                          /\ pending' = [pending EXCEPT ![c] = {entry(c, id, "DEBIT")}]
  /\ UNCHANGED <<accounts, ledger, audit, req>>

(* ... its credit, and the COMMIT.  reserveFunds goes on to the audit log, *)
(* the others return.                                                      *)
CommitCredit(c) ==
  /\ pc[c] = "credit"
  /\ transactions' = transactions \cup
       {[id |-> txId[c], op |-> req[c].op, settlement |-> req[c].settlement]}
  /\ entries' = entries \cup pending[c] \cup {entry(c, txId[c], "CREDIT")}
  /\ pending' = [pending EXCEPT ![c] = {}]
  /\ \/ /\ req[c].op = "RESERVE"
        /\ pc' = [pc EXCEPT ![c] = "audit"]
        /\ UNCHANGED <<req, txId>>
     \/ req[c].op # "RESERVE" /\ Return(c)
  /\ UNCHANGED <<accounts, audit>>

(* Slip: the row tells the stored amount instead of the requested one.     *)
LogReservedStored(c) ==
  /\ pc[c] = "audit"
  /\ audit' = audit \cup {[tx |-> txId[c], settlement |-> req[c].settlement,
                           amount |-> Stored(req[c].amount)]}
  /\ Return(c)
  /\ UNCHANGED <<accounts, ledger, pending>>

LogReserved(c) ==
  /\ pc[c] = "audit"
  /\ audit' = audit \cup {[tx |-> txId[c], settlement |-> req[c].settlement,
                           amount |-> req[c].amount]}
  /\ Return(c)
  /\ UNCHANGED <<accounts, ledger, pending>>

(* An open transaction rolls back; what was committed stays.               *)
Fail(c) ==
  /\ Faults
  /\ pc[c] # "idle"
  /\ pending' = [pending EXCEPT ![c] = {}]
  /\ Return(c)
  /\ UNCHANGED <<accounts, ledger, audit>>

Call(c) == \E settlement \in Settlements, amount \in Amounts :
             \/ reserveFunds(c, settlement, amount)
             \/ releaseFunds(c, settlement, amount)
             \/ fund(c, settlement, amount)

Step(c) == WriteDebit(c) \/ CommitCredit(c) \/ LogReserved(c)

Next == \/ \E account \in Account : createLedgerAccount(account)
        \/ \E c \in Callers : Call(c) \/ Step(c) \/ Fail(c)

Spec == Init /\ [][Next]_vars

-----------------------------------------------------------------------------------
(* The variables have their types; a call under way knows its arguments.   *)
TypeOK ==
  /\ accounts \subseteq Account
  /\ transactions \subseteq Header
  /\ entries \subseteq Entry
  /\ audit \subseteq Row
  /\ pending \in [Callers -> SUBSET Entry]
  /\ pc   \in [Callers -> {"idle", "debit", "credit", "audit"}]
  /\ req  \in [Callers -> Request \cup {None}]
  /\ txId \in [Callers -> TxIds \cup {None}]
  /\ \A c \in Callers : pc[c] # "idle" => req[c] # None
  /\ \A c \in Callers : pc[c] \in {"credit", "audit"} => txId[c] # None

(* "Create exactly one Debit", "exactly one Credit"                        *)
(* (repositories/treasury.ts:70, :81), whatever fails in between: the      *)
(* entries of a transaction are none, and then it does not exist, or two   *)
(* of opposite types and equal amounts in the two accounts of its          *)
(* operation.                                                              *)
DoubleEntry ==
  \A id \in TxIds :
    LET mine == { e \in entries : e.tx = id }
    IN  \/ mine = {} /\ \A t \in transactions : t.id # id
        \/ \E t \in transactions, amount \in { e.amount : e \in mine } :
             /\ t.id = id
             /\ mine = { [tx |-> id, account |-> debitAccount(t.op),
                          type |-> "DEBIT", amount |-> amount],
                         [tx |-> id, account |-> creditAccount(t.op),
                          type |-> "CREDIT", amount |-> amount] }

(* A FUNDS_RESERVED row is evidence: its reservation is in the ledger, for *)
(* that settlement and for that amount as the ledger stores it.            *)
AuditedReservationsExist ==
  \A row \in audit :
    /\ [id |-> row.tx, op |-> "RESERVE", settlement |-> row.settlement] \in transactions
    /\ \E e \in entries : e.tx = row.tx /\ e.amount = Stored(row.amount)

(* Seen through its balances the ledger posts atomically: no state shows   *)
(* half a transaction, or an amount that came from nowhere.                *)
Ledger == INSTANCE DoubleEntryLedger
            WITH balance  <- [a \in Account |-> computeLedgerAccountBalance(a)],
                 Postings <- { Stored(amount) : amount \in Amounts }
LedgerSpec == Ledger!Spec

(* What the transactions of one operation add up to.                       *)
Posted(op) ==
  MapThenSumSet(LAMBDA e : e.amount,
    { e \in entries : e.type = "DEBIT" /\ \E t \in transactions : t.id = e.tx /\ t.op = op })

(* "Verify available balance" (engine.ts:49): what is reserved and not     *)
(* released never exceeds what the organization was funded with.           *)
ReservationsCovered == Posted("RESERVE") - Posted("RELEASE") <= Posted("FUND")
===================================================================================

------------------------------ MODULE TreasuryProofs ------------------------------
(***************************************************************************)
(* The treasury's ledger is double-entry, and its audit rows are backed by *)
(* it, for any number of callers, settlements and transactions.            *)
(***************************************************************************)
EXTENDS Treasury, FiniteSetTheorems, TLAPS

(* Rounding keeps an amount a natural number; it may round it to zero.     *)
LEMMA StoredNat == \A amount \in Nat : Stored(amount) \in Nat
BY DEF Stored

LEMMA EntryType ==
  ASSUME TypeOK, NEW c \in Callers, pc[c] # "idle", NEW id \in TxIds,
         NEW type \in {"DEBIT", "CREDIT"}
  PROVE  entry(c, id, type) \in Entry
<1>1. req[c] \in Request
  BY DEF TypeOK
<1>2. Stored(req[c].amount) \in Nat
  BY <1>1, StoredNat, TreasuryAssumption DEF Request
<1>3. debitAccount(req[c].op) \in Account /\ creditAccount(req[c].op) \in Account
  BY <1>1 DEF Request, Op, Account, debitAccount, creditAccount
<1> QED  BY <1>2, <1>3 DEF entry, Entry

LEMMA TypeNext == TypeOK /\ [Next]_vars => TypeOK'
<1> SUFFICES ASSUME TypeOK, [Next]_vars PROVE TypeOK'
  OBVIOUS
<1>1. ASSUME NEW account \in Account, createLedgerAccount(account) PROVE TypeOK'
  BY <1>1 DEF TypeOK, createLedgerAccount, ledger
<1>2. ASSUME NEW c \in Callers, NEW op \in Op, NEW settlement \in Settlements,
             NEW amount \in Amounts, Begin(c, op, settlement, amount)
      PROVE  TypeOK'
  <2>1. [op |-> op, settlement |-> settlement, amount |-> amount] \in Request \ {None}
    BY TreasuryAssumption DEF Request
  <2> QED  BY <1>2, <2>1 DEF TypeOK, Begin, Goto, ledger
<1>3. ASSUME NEW c \in Callers, WriteDebit(c) PROVE TypeOK'
  <2>1. PICK id \in TxIds : /\ txId' = [txId EXCEPT ![c] = id]
                            /\ pending' = [pending EXCEPT ![c] = {entry(c, id, "DEBIT")}]
    BY <1>3 DEF WriteDebit, FreshIds
  <2>2. entry(c, id, "DEBIT") \in Entry /\ id # None
    BY <1>3, EntryType, TreasuryAssumption DEF WriteDebit, Goto
  <2> QED  BY <1>3, <2>1, <2>2 DEF TypeOK, WriteDebit, Goto, ledger
<1>4. ASSUME NEW c \in Callers, CommitCredit(c) PROVE TypeOK'
  <2>1. txId[c] \in TxIds /\ req[c] \in Request /\ pending[c] \subseteq Entry
    BY <1>4 DEF TypeOK, CommitCredit
  <2>2. entry(c, txId[c], "CREDIT") \in Entry
    BY <1>4, <2>1, EntryType DEF CommitCredit
  <2>3. [id |-> txId[c], op |-> req[c].op, settlement |-> req[c].settlement] \in Header
    BY <2>1 DEF Header, Request
  <2> QED  BY <1>4, <2>1, <2>2, <2>3 DEF TypeOK, CommitCredit, Return
<1>5. ASSUME NEW c \in Callers, LogReserved(c) PROVE TypeOK'
  <2>1. [tx |-> txId[c], settlement |-> req[c].settlement, amount |-> req[c].amount] \in Row
    BY <1>5 DEF TypeOK, LogReserved, Row, Request
  <2> QED  BY <1>5, <2>1 DEF TypeOK, LogReserved, Return, ledger
<1>6. ASSUME NEW c \in Callers, Fail(c) PROVE TypeOK'
  BY <1>6 DEF TypeOK, Fail, Return, ledger
<1>7. CASE UNCHANGED vars
  BY <1>7 DEF TypeOK, vars
<1> QED
  BY <1>1, <1>2, <1>3, <1>4, <1>5, <1>6, <1>7
     DEF Next, Call, Step, reserveFunds, releaseFunds, fund, Op

(* The treasury's variables keep their types in every behaviour.           *)
THEOREM TypeCorrect == Spec => []TypeOK
<1>1. Init => TypeOK
  BY DEF Init, TypeOK, Account
<1> QED  BY <1>1, TypeNext, PTL DEF Spec

-----------------------------------------------------------------------------------
(* The two entries of transaction id, for an operation and a stored amount. *)
Pair(id, op, amount) ==
  { [tx |-> id, account |-> debitAccount(op),  type |-> "DEBIT",  amount |-> amount],
    [tx |-> id, account |-> creditAccount(op), type |-> "CREDIT", amount |-> amount] }

Mine(id) == { e \in entries : e.tx = id }

(* Every transaction id is unused, or stands for one pair of entries.      *)
Paired == \A id \in TxIds :
  \/ Mine(id) = {} /\ \A t \in transactions : t.id # id
  \/ \E t \in transactions, amount \in Nat : t.id = id /\ Mine(id) = Pair(id, t.op, amount)

(* An open transaction has its debit pending, and an id nobody else uses.  *)
OpenIsFresh == \A c \in Callers : pc[c] = "credit" =>
  /\ pending[c] = {entry(c, txId[c], "DEBIT")}
  /\ Mine(txId[c]) = {} /\ \A t \in transactions : t.id # txId[c]
  /\ \A d \in Callers \ {c} : txId[d] # txId[c]

(* A call that is about to write its audit row has its reservation in the  *)
(* ledger.                                                                 *)
Backed(id, settlement, amount) ==
  /\ [id |-> id, op |-> "RESERVE", settlement |-> settlement] \in transactions
  /\ \E e \in entries : e.tx = id /\ e.amount = Stored(amount)

AuditDue == \A c \in Callers : pc[c] = "audit" =>
  Backed(txId[c], req[c].settlement, req[c].amount)

AuditBacked == \A row \in audit : Backed(row.tx, row.settlement, row.amount)

LedgerInv == Paired /\ OpenIsFresh /\ AuditDue /\ AuditBacked

(* The invariant implies the properties.                                   *)
LEMMA LedgerInvSuffices ==
  TypeOK /\ LedgerInv => DoubleEntry /\ AuditedReservationsExist
<1> SUFFICES ASSUME TypeOK, LedgerInv PROVE DoubleEntry /\ AuditedReservationsExist
  OBVIOUS
<1>1. AuditedReservationsExist
  BY DEF LedgerInv, AuditBacked, Backed, AuditedReservationsExist
<1>2. ASSUME NEW id \in TxIds,
             NEW t \in transactions, NEW amount \in Nat, t.id = id, Mine(id) = Pair(id, t.op, amount)
      PROVE  amount \in { e.amount : e \in Mine(id) }
  BY <1>2 DEF Pair
<1>3. DoubleEntry
  <2> SUFFICES ASSUME NEW id \in TxIds, Mine(id) # {} \/ \E t \in transactions : t.id = id
               PROVE  \E t \in transactions, amount \in { e.amount : e \in Mine(id) } :
                        t.id = id /\ Mine(id) = Pair(id, t.op, amount)
    BY DEF DoubleEntry, Mine, Pair
  <2> QED  BY <1>2 DEF LedgerInv, Paired
<1> QED  BY <1>1, <1>3

LEMMA LedgerInit == Init => LedgerInv
BY DEF Init, LedgerInv, Paired, OpenIsFresh, AuditDue, AuditBacked, Mine

(* A step that writes nothing to the ledger, and changes no call that has  *)
(* a transaction open or an audit row due, except to end it.               *)
LEMMA QuietStep ==
  ASSUME TypeOK, LedgerInv, UNCHANGED ledger,
         \A c \in Callers : pc'[c] \in {"credit", "audit"} =>
           pc'[c] = pc[c] /\ req'[c] = req[c] /\ txId'[c] = txId[c] /\ pending'[c] = pending[c],
         \A c \in Callers : txId'[c] \in {txId[c], None}
  PROVE  /\ (Paired /\ OpenIsFresh /\ AuditDue)'
         /\ AuditBacked' => LedgerInv'
         /\ audit' = audit => LedgerInv'
<1>1. Paired' /\ (audit' = audit => AuditBacked')
  BY DEF ledger, LedgerInv, Paired, AuditBacked, Mine, Backed
<1>2. AuditDue'
  BY DEF ledger, LedgerInv, AuditDue, Backed
<1>3. OpenIsFresh'
  <2> SUFFICES ASSUME NEW c \in Callers, pc'[c] = "credit"
               PROVE  /\ pending'[c] = {entry(c, txId[c], "DEBIT")'}
                      /\ (Mine(txId[c]) = {})' /\ (\A t \in transactions : t.id # txId[c])'
                      /\ (\A d \in Callers \ {c} : txId[d] # txId[c])'
    BY DEF OpenIsFresh
  <2>1. /\ pc[c] = "credit" /\ req'[c] = req[c] /\ txId'[c] = txId[c] /\ pending'[c] = pending[c]
        /\ txId[c] # None
    BY DEF TypeOK
  <2> QED  BY <2>1 DEF ledger, LedgerInv, OpenIsFresh, Mine, entry
<1> QED  BY <1>1, <1>2, <1>3 DEF LedgerInv

(* WriteDebit: the id is fresh, the debit is not in the ledger yet.        *)
LEMMA WriteDebitKeeps ==
  ASSUME TypeOK, LedgerInv, NEW c \in Callers, WriteDebit(c)
  PROVE  LedgerInv'
<1>1. PICK id \in FreshIds : /\ txId' = [txId EXCEPT ![c] = id]
                             /\ pending' = [pending EXCEPT ![c] = {entry(c, id, "DEBIT")}]
  BY DEF WriteDebit
<1>2. /\ pc' = [pc EXCEPT ![c] = "credit"] /\ UNCHANGED <<ledger, audit, req>>
      /\ DOMAIN pc = Callers /\ DOMAIN txId = Callers /\ DOMAIN pending = Callers
  BY DEF WriteDebit, Goto, TypeOK
<1>3. /\ id \in TxIds /\ \A t \in transactions : t.id # id
      /\ \A d \in Callers : txId[d] # id
      /\ Mine(id) = {}
  <2>1. id \in TxIds /\ (\A t \in transactions : t.id # id) /\ \A d \in Callers : txId[d] # id
    BY <1>1 DEF FreshIds
  <2> QED  BY <2>1 DEF LedgerInv, Paired
<1>4. Paired' /\ AuditBacked'
  BY <1>2 DEF ledger, LedgerInv, Paired, AuditBacked, Mine, Backed
<1>5. AuditDue'
  BY <1>1, <1>2 DEF ledger, LedgerInv, AuditDue, Backed
<1>6. OpenIsFresh'
  <2> SUFFICES ASSUME NEW d \in Callers, pc'[d] = "credit"
               PROVE  /\ pending'[d] = {entry(d, txId[d], "DEBIT")'}
                      /\ (Mine(txId[d]) = {})' /\ (\A t \in transactions : t.id # txId[d])'
                      /\ (\A x \in Callers \ {d} : txId[x] # txId[d])'
    BY DEF OpenIsFresh
  <2>1. CASE d = c
    BY <1>1, <1>2, <1>3, <2>1 DEF ledger, Mine, entry
  <2>2. CASE d # c
    BY <1>1, <1>2, <1>3, <2>2 DEF ledger, LedgerInv, OpenIsFresh, Mine, entry
  <2> QED  BY <2>1, <2>2
<1> QED  BY <1>4, <1>5, <1>6 DEF LedgerInv

(* CommitCredit: the pending debit and the credit make the pair.           *)
LEMMA CommitCreditKeeps ==
  ASSUME TypeOK, LedgerInv, NEW c \in Callers, CommitCredit(c)
  PROVE  LedgerInv'
<1> PICK id \in TxIds, op \in Op, s \in Settlements, amt \in Amounts :
      txId[c] = id /\ req[c].op = op /\ req[c].settlement = s /\ req[c].amount = amt
  BY DEF CommitCredit, TypeOK, Request
<1> DEFINE header == [id |-> id, op |-> op, settlement |-> s]
<1>1. /\ pc[c] = "credit"
      /\ transactions' = transactions \cup {header}
      /\ entries' = entries \cup pending[c] \cup {entry(c, id, "CREDIT")}
      /\ audit' = audit
      /\ DOMAIN pc = Callers /\ DOMAIN txId = Callers /\ DOMAIN pending = Callers
      /\ DOMAIN req = Callers
  BY DEF CommitCredit, TypeOK
<1>2. /\ pending[c] = {entry(c, id, "DEBIT")}
      /\ Mine(id) = {} /\ \A t \in transactions : t.id # id
      /\ \A d \in Callers \ {c} : txId[d] # id
  BY <1>1 DEF LedgerInv, OpenIsFresh
<1>3. entries' = entries \cup Pair(id, op, Stored(amt))
  BY <1>1, <1>2 DEF entry, Pair
<1>4. Stored(amt) \in Nat
  BY StoredNat, TreasuryAssumption
<1>5. \A e \in Pair(id, op, Stored(amt)) : e.tx = id /\ e.amount = Stored(amt)
  BY DEF Pair
<1> DEFINE M(x) == { e \in entries' : e.tx = x }
<1>6. M(id) = Pair(id, op, Stored(amt)) /\ \A x \in TxIds \ {id} : M(x) = Mine(x)
  BY <1>2, <1>3, <1>5 DEF Mine
<1>7. Paired'
  <2> SUFFICES ASSUME NEW x \in TxIds
               PROVE  \/ M(x) = {} /\ \A t \in transactions' : t.id # x
                      \/ \E t \in transactions', amount \in Nat :
                           t.id = x /\ M(x) = Pair(x, t.op, amount)
    BY DEF Paired, Mine, Pair, debitAccount, creditAccount
  <2> HIDE DEF M
  <2>1. CASE x = id
    <3>1. header \in transactions' /\ header.id = id /\ header.op = op
      BY <1>1
    <3> QED  BY <1>4, <1>6, <2>1, <3>1
  <2>2. CASE x # id
    BY <1>1, <1>6, <2>2 DEF LedgerInv, Paired
  <2> QED  BY <2>1, <2>2
<1>8. \A x, settlement, amount :
        Backed(x, settlement, amount) => Backed(x, settlement, amount)'
  BY <1>1 DEF Backed
<1>9. AuditBacked'
  BY <1>1, <1>8 DEF LedgerInv, AuditBacked
<1>10. AuditDue'
  <2> SUFFICES ASSUME NEW d \in Callers, pc'[d] = "audit"
               PROVE  Backed(txId[d], req[d].settlement, req[d].amount)'
    BY DEF AuditDue
  <2>1. CASE d # c
    BY <1>1, <2>1 DEF LedgerInv, AuditDue, Backed, CommitCredit, Return
  <2>2. CASE d = c
    <3>1. op = "RESERVE" /\ req' = req /\ txId' = txId
      BY <1>1, <2>2 DEF CommitCredit, Return
    <3>2. \E e \in entries' : e.tx = id /\ e.amount = Stored(amt)
      <4> DEFINE debit == [tx |-> id, account |-> debitAccount(op), type |-> "DEBIT",
                           amount |-> Stored(amt)]
      <4>1. debit \in entries'
        BY <1>3 DEF Pair
      <4> QED  BY <4>1
    <3> QED  BY <1>1, <2>2, <3>1, <3>2 DEF Backed
  <2> QED  BY <2>1, <2>2
<1>11. OpenIsFresh'
  <2> SUFFICES ASSUME NEW d \in Callers, pc'[d] = "credit"
               PROVE  /\ pending'[d] = {entry(d, txId[d], "DEBIT")'}
                      /\ (Mine(txId[d]) = {})' /\ (\A t \in transactions : t.id # txId[d])'
                      /\ (\A x \in Callers \ {d} : txId[x] # txId[d])'
    BY DEF OpenIsFresh
  <2>1. /\ d # c /\ pc[d] = "credit" /\ txId'[d] = txId[d] /\ req'[d] = req[d]
        /\ pending'[d] = pending[d] /\ txId[d] \in TxIds \ {id}
        /\ \A x \in Callers : txId'[x] \in {txId[x], None}
    BY <1>1, <1>2, TreasuryAssumption DEF CommitCredit, Return, TypeOK
  <2>2. (Mine(txId[d]) = {})'
    BY <1>6, <2>1 DEF LedgerInv, OpenIsFresh, Mine
  <2> QED
    BY <1>1, <2>1, <2>2, TreasuryAssumption DEF LedgerInv, OpenIsFresh, entry
<1> QED  BY <1>7, <1>9, <1>10, <1>11 DEF LedgerInv

LEMMA LedgerNext == TypeOK /\ LedgerInv /\ [Next]_vars => LedgerInv'
<1> SUFFICES ASSUME TypeOK, LedgerInv, [Next]_vars PROVE LedgerInv'
  OBVIOUS
<1>t. DOMAIN pc = Callers /\ DOMAIN req = Callers /\ DOMAIN txId = Callers /\ DOMAIN pending = Callers
  BY DEF TypeOK
<1>1. ASSUME NEW account \in Account, createLedgerAccount(account) PROVE LedgerInv'
  BY <1>1, QuietStep DEF createLedgerAccount
<1>2. ASSUME NEW c \in Callers, NEW op \in Op, NEW settlement \in Settlements,
             NEW amount \in Amounts, Begin(c, op, settlement, amount)
      PROVE  LedgerInv'
  BY <1>2, <1>t, QuietStep DEF Begin, Goto
<1>3. ASSUME NEW c \in Callers, LogReserved(c) PROVE LedgerInv'
  <2> DEFINE row == [tx |-> txId[c], settlement |-> req[c].settlement,
                     amount |-> req[c].amount]
  <2>1. /\ Backed(row.tx, row.settlement, row.amount)
        /\ \A r \in audit : Backed(r.tx, r.settlement, r.amount)
    BY <1>3 DEF LogReserved, LedgerInv, AuditBacked, AuditDue
  <2>2. audit' = audit \cup {row} /\ UNCHANGED ledger
    BY <1>3 DEF LogReserved
  <2> HIDE DEF row
  <2>3. AuditBacked'
    BY <2>1, <2>2 DEF AuditBacked, Backed, ledger
  <2> QED  BY <1>3, <1>t, <2>3, QuietStep DEF LogReserved, Return
<1>4. ASSUME NEW c \in Callers, Fail(c) PROVE LedgerInv'
  BY <1>4, <1>t, QuietStep DEF Fail, Return
<1>5. CASE UNCHANGED vars
  BY <1>5, QuietStep DEF vars, ledger
<1> QED
  BY <1>1, <1>2, <1>3, <1>4, <1>5, WriteDebitKeeps, CommitCreditKeeps
     DEF Next, Call, Step, reserveFunds, releaseFunds, fund, Op

(* The ledger is double-entry, however calls race and wherever they fail.  *)
THEOREM LedgerIsDoubleEntry == Spec => []DoubleEntry
BY TypeCorrect, LedgerInit, LedgerNext, LedgerInvSuffices, PTL DEF Spec

(* No FUNDS_RESERVED row without its reservation in the ledger.            *)
THEOREM AuditIsBacked == Spec => []AuditedReservationsExist
BY TypeCorrect, LedgerInit, LedgerNext, LedgerInvSuffices, PTL DEF Spec
-----------------------------------------------------------------------------------
(* The balances are sums over the entries; what FoldLemmas says of a fold  *)
(* holds of them, in whatever order the entries are added up.              *)
amountOf(e) == e.amount

Sum == INSTANCE FoldLemmas WITH Op <- +, Weight <- amountOf

(* The entries of E of one account and one type.                           *)
Side(E, account, type) == { e \in E : e.account = account /\ e.type = type }

LEMMA TotalIsFold ==
  \A account, type : Total(account, type) = Sum!Fold(0, Side(entries, account, type))
BY DEF Total, Side, MapThenSumSet, MapThenFoldSet, Sum!MapThenFoldSet, Sum!Fold, Sum!Pick, amountOf

LEMMA TotalIsFoldNext ==
  \A account, type : Total(account, type)' = Sum!Fold(0, Side(entries', account, type))
BY DEF Total, Side, MapThenSumSet, MapThenFoldSet, Sum!MapThenFoldSet, Sum!Fold, Sum!Pick, amountOf

LEMMA SumEmpty == Sum!Fold(0, {}) = 0
BY FS_EmptySet, Sum!FoldRecursion DEF IsFiniteSet, Sum!IsFiniteSet

LEMMA SumAdd ==
  ASSUME NEW E \in SUBSET Entry, IsFiniteSet(E), NEW e \in Entry, e \notin E
  PROVE  Sum!Fold(0, E) \in Nat /\ Sum!Fold(0, E \cup {e}) = e.amount + Sum!Fold(0, E)
<1>1. \A x \in E \cup {e} : amountOf(x) \in Nat
  BY DEF Entry, amountOf
<1>2. Sum!AnyOrder(0, E \cup {e}, Nat)
  BY <1>1 DEF Sum!AnyOrder
<1> QED  BY <1>2, Sum!FoldAdd DEF IsFiniteSet, Sum!IsFiniteSet, amountOf

(* The ledger is finite.                                                   *)
LedgerFinite == IsFiniteSet(entries)

(* The balances a set of entries amounts to.                               *)
Balance(E, account) == Sum!Fold(0, Side(E, account, "DEBIT")) - Sum!Fold(0, Side(E, account, "CREDIT"))

(* Entering a pair moves its amount from the credited account to the       *)
(* debited one, and leaves the third account alone.                        *)
LEMMA PairPosts ==
  ASSUME NEW E \in SUBSET Entry, IsFiniteSet(E), NEW id \in TxIds, NEW op \in Op,
         NEW amount \in Nat, \A e \in E : e.tx # id
  PROVE  \A account \in Account :
           /\ Balance(E, account) \in Int
           /\ Balance(E \cup Pair(id, op, amount), account) =
                IF account = debitAccount(op) THEN Balance(E, account) + amount
                ELSE IF account = creditAccount(op) THEN Balance(E, account) - amount
                ELSE Balance(E, account)
<1> SUFFICES ASSUME NEW account \in Account
             PROVE  /\ Balance(E, account) \in Int
                    /\ Balance(E \cup Pair(id, op, amount), account) =
                         IF account = debitAccount(op) THEN Balance(E, account) + amount
                         ELSE IF account = creditAccount(op) THEN Balance(E, account) - amount
                         ELSE Balance(E, account)
  OBVIOUS
<1> DEFINE debit  == [tx |-> id, account |-> debitAccount(op),  type |-> "DEBIT",  amount |-> amount]
           credit == [tx |-> id, account |-> creditAccount(op), type |-> "CREDIT", amount |-> amount]
           D      == Side(E, account, "DEBIT")
           C      == Side(E, account, "CREDIT")
<1>1. /\ debit \in Entry /\ credit \in Entry
      /\ debit \notin E /\ credit \notin E
      /\ debit.amount = amount /\ credit.amount = amount
      /\ debitAccount(op) # creditAccount(op)
  BY DEF Entry, Account, Op, debitAccount, creditAccount
<1>2. D \in SUBSET Entry /\ C \in SUBSET Entry /\ D \in SUBSET E /\ C \in SUBSET E
  BY DEF Side
<1>3. IsFiniteSet(D) /\ IsFiniteSet(C)
  BY <1>2, FS_Subset
<1> DEFINE D2 == Side(E \cup Pair(id, op, amount), account, "DEBIT")
           C2 == Side(E \cup Pair(id, op, amount), account, "CREDIT")
<1>4. D2 = IF account = debitAccount(op) THEN D \cup {debit} ELSE D
  BY DEF Side, Pair
<1>5. C2 = IF account = creditAccount(op) THEN C \cup {credit} ELSE C
  BY DEF Side, Pair
<1>6. /\ Balance(E, account) = Sum!Fold(0, D) - Sum!Fold(0, C)
      /\ Balance(E \cup Pair(id, op, amount), account) = Sum!Fold(0, D2) - Sum!Fold(0, C2)
  BY DEF Balance
<1> HIDE DEF debit, credit, D, C, D2, C2
<1>7. PICK d \in Nat : d = Sum!Fold(0, D) /\ Sum!Fold(0, D \cup {debit}) = amount + d
  BY <1>1, <1>2, <1>3, SumAdd
<1>8. PICK c \in Nat : c = Sum!Fold(0, C) /\ Sum!Fold(0, C \cup {credit}) = amount + c
  BY <1>1, <1>2, <1>3, SumAdd
<1>9. CASE account = debitAccount(op)
  <2>1. D2 = D \cup {debit} /\ C2 = C
    BY <1>1, <1>4, <1>5, <1>9
  <2>2. Balance(E, account) = d - c /\ Balance(E \cup Pair(id, op, amount), account) = amount + d - c
    BY <1>6, <1>7, <1>8, <2>1
  <2> QED  BY <1>9, <2>2
<1>10. CASE account = creditAccount(op)
  <2>1. D2 = D /\ C2 = C \cup {credit}
    BY <1>1, <1>4, <1>5, <1>10
  <2>2. Balance(E, account) = d - c /\ Balance(E \cup Pair(id, op, amount), account) = d - (amount + c)
    BY <1>6, <1>7, <1>8, <2>1
  <2> QED  BY <1>1, <1>10, <2>2
<1>11. CASE account # debitAccount(op) /\ account # creditAccount(op)
  BY <1>4, <1>5, <1>6, <1>7, <1>8, <1>11
<1> QED  BY <1>9, <1>10, <1>11

LEMMA BalanceIs ==
  /\ \A account : computeLedgerAccountBalance(account) = Balance(entries, account)
  /\ \A account : computeLedgerAccountBalance(account)' = Balance(entries', account)
BY TotalIsFold, TotalIsFoldNext DEF computeLedgerAccountBalance, Balance

(* A COMMIT enters one pair and its transaction, under an unused id.       *)
LEMMA CommitEnters ==
  ASSUME TypeOK, LedgerInv, NEW c \in Callers, CommitCredit(c)
  PROVE  \E id \in TxIds, op \in Op, amount \in Amounts, s \in Settlements :
           /\ entries' = entries \cup Pair(id, op, Stored(amount))
           /\ transactions' = transactions \cup {[id |-> id, op |-> op, settlement |-> s]}
           /\ \A e \in entries : e.tx # id
           /\ \A t \in transactions : t.id # id
<1>1. txId[c] \in TxIds /\ req[c] \in Request
  BY DEF CommitCredit, TypeOK
<1>2. /\ pending[c] = {entry(c, txId[c], "DEBIT")} /\ Mine(txId[c]) = {}
      /\ \A t \in transactions : t.id # txId[c]
  BY DEF CommitCredit, LedgerInv, OpenIsFresh
<1>3. /\ entries' = entries \cup Pair(txId[c], req[c].op, Stored(req[c].amount))
      /\ transactions' = transactions \cup
           {[id |-> txId[c], op |-> req[c].op, settlement |-> req[c].settlement]}
  BY <1>2 DEF CommitCredit, entry, Pair
<1> QED  BY <1>1, <1>2, <1>3 DEF Mine, Request

LEMMA EntriesNext ==
  ASSUME Next, \A c \in Callers : ~CommitCredit(c)
  PROVE  entries' = entries /\ transactions' = transactions
BY DEF Next, createLedgerAccount, Call, reserveFunds, releaseFunds, fund, Begin, Step,
       WriteDebit, LogReserved, Fail, ledger

LEMMA FiniteNext == TypeOK /\ LedgerInv /\ LedgerFinite /\ [Next]_vars => LedgerFinite'
<1> SUFFICES ASSUME TypeOK, LedgerInv, LedgerFinite, [Next]_vars PROVE LedgerFinite'
  OBVIOUS
<1>1. ASSUME NEW c \in Callers, CommitCredit(c) PROVE LedgerFinite'
  <2>1. PICK id \in TxIds, op \in Op, amount \in Amounts :
          entries' = entries \cup Pair(id, op, Stored(amount))
    BY <1>1, CommitEnters
  <2>2. PICK d, k : entries' = (entries \cup {d}) \cup {k}
    BY <2>1 DEF Pair
  <2> QED  BY <2>2, FS_AddElement DEF LedgerFinite
<1>2. CASE entries' = entries
  BY <1>2 DEF LedgerFinite
<1> QED  BY <1>1, <1>2, EntriesNext DEF vars

(* A COMMIT posts one stored amount between the two accounts of its        *)
(* operation, and no other step moves a balance.                           *)
LEMMA CommitPosts ==
  ASSUME TypeOK, LedgerInv, LedgerFinite, NEW c \in Callers, CommitCredit(c)
  PROVE  Ledger!Next
<1>1. PICK id \in TxIds, op \in Op, amount \in Amounts :
        /\ entries' = entries \cup Pair(id, op, Stored(amount))
        /\ \A e \in entries : e.tx # id
  BY CommitEnters
<1> DEFINE posted == Stored(amount)
<1>2. posted \in Nat /\ posted \in { Stored(a) : a \in Amounts }
  BY StoredNat, TreasuryAssumption
<1> HIDE DEF posted
<1>3. \A account \in Account :
        /\ Balance(entries, account) \in Int
        /\ Balance(entries', account) =
             IF account = debitAccount(op) THEN Balance(entries, account) + posted
             ELSE IF account = creditAccount(op) THEN Balance(entries, account) - posted
             ELSE Balance(entries, account)
  <2>1. entries' = entries \cup Pair(id, op, posted)
    BY <1>1 DEF posted
  <2>2. entries \in SUBSET Entry /\ IsFiniteSet(entries)
    BY DEF TypeOK, LedgerFinite
  <2>3. \A account \in Account :
          /\ Balance(entries, account) \in Int
          /\ Balance(entries \cup Pair(id, op, posted), account) =
               IF account = debitAccount(op) THEN Balance(entries, account) + posted
               ELSE IF account = creditAccount(op) THEN Balance(entries, account) - posted
               ELSE Balance(entries, account)
    <3>1. posted \in Nat /\ \A e \in entries : e.tx # id
      BY <1>1, <1>2
    <3> QED  BY <2>2, <3>1, PairPosts
  <2> QED  BY <2>1, <2>3
<1> DEFINE before == [account \in Account |-> Balance(entries, account)]
           after  == [account \in Account |-> Balance(entries', account)]
<1>4. after = [before EXCEPT ![debitAccount(op)] = @ + posted, ![creditAccount(op)] = @ - posted]
  BY <1>3 DEF Account, Op, debitAccount, creditAccount
<1> HIDE DEF before, after
<1>5. Ledger!Post(debitAccount(op), creditAccount(op), posted)
  BY <1>4, BalanceIs DEF Ledger!Post, before, after
<1>6. Ledger!Fund(posted) \/ Ledger!Reserve(posted) \/ Ledger!Release(posted)
  BY <1>5 DEF Op, debitAccount, creditAccount, Ledger!Fund, Ledger!Reserve, Ledger!Release
<1> QED  BY <1>2, <1>6 DEF Ledger!Next

(* The treasury implements the double-entry ledger: in its balances, every *)
(* operation is one posting of one stored amount, done at the COMMIT of    *)
(* executeLedgerTransaction, whatever else runs or fails meanwhile.        *)
THEOREM LedgerRefined == Spec => LedgerSpec
<1>1. Init => Ledger!Init /\ LedgerFinite
  <2> SUFFICES ASSUME Init PROVE Ledger!Init /\ LedgerFinite
    OBVIOUS
  <2>1. \A account : Balance(entries, account) = 0
    BY SumEmpty DEF Init, Balance, Side
  <2> QED
    BY <2>1, BalanceIs, FS_EmptySet DEF Init, Ledger!Init, Ledger!LedgerAccounts, Account, LedgerFinite
<1>2. TypeOK /\ LedgerInv /\ LedgerFinite /\ [Next]_vars =>
        [Ledger!Next]_[a \in Account |-> computeLedgerAccountBalance(a)]
  <2> SUFFICES ASSUME TypeOK, LedgerInv, LedgerFinite, [Next]_vars,
                      \A c \in Callers : ~CommitCredit(c)
               PROVE  UNCHANGED [a \in Account |-> computeLedgerAccountBalance(a)]
    BY CommitPosts
  <2>1. entries' = entries
    BY EntriesNext DEF vars
  <2> QED  BY <2>1, BalanceIs
<1> QED
  BY <1>1, <1>2, TypeCorrect, LedgerInit, LedgerNext, FiniteNext, PTL
     DEF Spec, LedgerSpec, Ledger!Spec
-----------------------------------------------------------------------------------
(* The books balance: what one account gained, others lost.                *)
BooksBalance ==
  LET b == [a \in Account |-> computeLedgerAccountBalance(a)]
  IN  /\ b \in [Account -> Int]
      /\ b["SETTLEMENT"] + b["RESERVE"] + b["EXTERNAL"] = 0

LEMMA PostingKeepsBooks ==
  ASSUME BooksBalance, Ledger!Next PROVE BooksBalance'
<1> DEFINE b  == [a \in Account |-> computeLedgerAccountBalance(a)]
           b2 == [a \in Account |-> computeLedgerAccountBalance(a)']
<1>1. b \in [Account -> Int] /\ b["SETTLEMENT"] + b["RESERVE"] + b["EXTERNAL"] = 0
  BY DEF BooksBalance
<1>2. PICK amount \in Nat :
        \/ b2 = [b EXCEPT !["SETTLEMENT"] = @ + amount, !["EXTERNAL"] = @ - amount]
        \/ b2 = [b EXCEPT !["SETTLEMENT"] = @ + amount, !["RESERVE"] = @ - amount]
        \/ b2 = [b EXCEPT !["RESERVE"] = @ + amount, !["SETTLEMENT"] = @ - amount]
  <2>1. \A a \in Amounts : Stored(a) \in Nat
    BY StoredNat, TreasuryAssumption
  <2> QED  BY <2>1 DEF Ledger!Next, Ledger!Fund, Ledger!Reserve, Ledger!Release, Ledger!Post
<1> HIDE DEF b, b2
<1>3. b2 \in [Account -> Int] /\ b2["SETTLEMENT"] + b2["RESERVE"] + b2["EXTERNAL"] = 0
  BY <1>1, <1>2 DEF Account
<1> QED  BY <1>3 DEF BooksBalance, b2

(* No money appears or disappears, however calls race and fail: at every   *)
(* moment the balances of the organization's accounts add up to zero.      *)
THEOREM MoneyConserved == Spec => []BooksBalance
<1>1. Init => BooksBalance
  <2> SUFFICES ASSUME Init PROVE BooksBalance
    OBVIOUS
  <2>1. \A account : computeLedgerAccountBalance(account) = 0
    BY SumEmpty, BalanceIs DEF Init, Balance, Side
  <2> QED  BY <2>1 DEF BooksBalance, Account
<1>2. BooksBalance /\ [Ledger!Next]_[a \in Account |-> computeLedgerAccountBalance(a)]
        => BooksBalance'
  <2>1. CASE UNCHANGED [a \in Account |-> computeLedgerAccountBalance(a)]
    BY <2>1 DEF BooksBalance
  <2> QED  BY <2>1, PostingKeepsBooks
<1> QED
  BY <1>1, <1>2, LedgerRefined, PTL DEF Spec, LedgerSpec, Ledger!Spec

-----------------------------------------------------------------------------------
(* The balance that a reservation is checked against is what was funded    *)
(* plus what is reserved and not released, transaction by transaction: a   *)
(* reservation debits the account it should deplete.                       *)
BalanceCountsReservations ==
  computeLedgerAccountBalance("SETTLEMENT") = Posted("FUND") + Posted("RESERVE") - Posted("RELEASE")

(* The debits of the transactions in T that did one operation.             *)
Debits(E, T, op) ==
  { e \in E : e.type = "DEBIT" /\ \E t \in T : t.id = e.tx /\ t.op = op }

LEMMA PostedIs ==
  /\ \A op : Posted(op) = Sum!Fold(0, Debits(entries, transactions, op))
  /\ \A op : Posted(op)' = Sum!Fold(0, Debits(entries', transactions', op))
BY DEF Posted, Debits, MapThenSumSet, MapThenFoldSet, Sum!MapThenFoldSet, Sum!Fold, Sum!Pick, amountOf

LEMMA CountNext ==
  TypeOK /\ LedgerInv /\ LedgerFinite /\ BalanceCountsReservations /\ [Next]_vars
    => BalanceCountsReservations'
<1> SUFFICES ASSUME TypeOK, LedgerInv, LedgerFinite, BalanceCountsReservations, [Next]_vars
             PROVE  BalanceCountsReservations'
  OBVIOUS
<1> DEFINE P(op)  == Sum!Fold(0, Debits(entries, transactions, op))
           P2(op) == Sum!Fold(0, Debits(entries', transactions', op))
<1>1. Balance(entries, "SETTLEMENT") = P("FUND") + P("RESERVE") - P("RELEASE")
  BY BalanceIs, PostedIs DEF BalanceCountsReservations
<1>2. SUFFICES Balance(entries', "SETTLEMENT") = P2("FUND") + P2("RESERVE") - P2("RELEASE")
  BY BalanceIs, PostedIs DEF BalanceCountsReservations
<1>3. ASSUME NEW c \in Callers, CommitCredit(c)
      PROVE  Balance(entries', "SETTLEMENT") = P2("FUND") + P2("RESERVE") - P2("RELEASE")
  <2>1. PICK id \in TxIds, op \in Op, amount \in Amounts, s \in Settlements :
          /\ entries' = entries \cup Pair(id, op, Stored(amount))
          /\ transactions' = transactions \cup {[id |-> id, op |-> op, settlement |-> s]}
          /\ \A e \in entries : e.tx # id
          /\ \A t \in transactions : t.id # id
    BY <1>3, CommitEnters
  <2>2. PICK posted \in Nat : posted = Stored(amount)
    BY StoredNat, TreasuryAssumption
  <2>3. entries \in SUBSET Entry /\ IsFiniteSet(entries)
    BY DEF TypeOK, LedgerFinite
  <2>4. ASSUME NEW o \in Op
        PROVE  P(o) \in Nat /\ P2(o) = IF o = op THEN posted + P(o) ELSE P(o)
    <3> DEFINE debit == [tx |-> id, account |-> debitAccount(op), type |-> "DEBIT", amount |-> posted]
               D  == Debits(entries, transactions, o)
               D2 == Debits(entries', transactions', o)
    <3>1. debit \in Entry /\ debit \notin entries /\ debit.amount = posted
      BY <2>1, <2>2 DEF Entry, Account, Op, debitAccount
    <3>2. D \in SUBSET Entry /\ D \in SUBSET entries /\ IsFiniteSet(D)
      <4>1. D \in SUBSET Entry /\ D \in SUBSET entries
        BY <2>3 DEF Debits
      <4> QED  BY <2>3, <4>1, FS_Subset
    <3>3. D2 = IF o = op THEN D \cup {debit} ELSE D
      <4>1. PICK header : /\ header.id = id /\ header.op = op
                          /\ transactions' = transactions \cup {header}
        BY <2>1
      <4>2. \A e \in entries : (\E t \in transactions' : t.id = e.tx /\ t.op = o)
                             <=> \E t \in transactions : t.id = e.tx /\ t.op = o
        BY <2>1, <4>1
      <4>3. (\E t \in transactions' : t.id = id /\ t.op = o) <=> o = op
        BY <2>1, <4>1
      <4> QED  BY <2>1, <2>2, <4>2, <4>3 DEF Debits, Pair
    <3> HIDE DEF debit, D, D2
    <3>4. Sum!Fold(0, D) \in Nat /\ Sum!Fold(0, D \cup {debit}) = posted + Sum!Fold(0, D)
      BY <3>1, <3>2, SumAdd
    <3> QED  BY <3>3, <3>4 DEF D, D2
  <2>5. \A account \in Account :
          /\ Balance(entries, account) \in Int
          /\ Balance(entries \cup Pair(id, op, posted), account) =
               IF account = debitAccount(op) THEN Balance(entries, account) + posted
               ELSE IF account = creditAccount(op) THEN Balance(entries, account) - posted
               ELSE Balance(entries, account)
    BY <2>1, <2>3, PairPosts
  <2>6. /\ Balance(entries, "SETTLEMENT") \in Int
        /\ Balance(entries', "SETTLEMENT") = IF op = "RELEASE"
             THEN Balance(entries, "SETTLEMENT") - posted ELSE Balance(entries, "SETTLEMENT") + posted
    BY <2>1, <2>2, <2>5 DEF Account, Op, debitAccount, creditAccount
  <2> HIDE DEF P, P2
  <2>7. CASE op = "FUND"
    BY <1>1, <2>4, <2>6, <2>7 DEF Op
  <2>8. CASE op = "RESERVE"
    BY <1>1, <2>4, <2>6, <2>8 DEF Op
  <2>9. CASE op = "RELEASE"
    BY <1>1, <2>4, <2>6, <2>9 DEF Op
  <2> QED  BY <2>7, <2>8, <2>9 DEF Op
<1>4. CASE entries' = entries /\ transactions' = transactions
  BY <1>1, <1>4
<1> QED  BY <1>3, <1>4, EntriesNext DEF vars

(* In the account that reserveFunds looks at, reservations count as funds, *)
(* not against them: what it compares with the amount is what was funded   *)
(* plus what is reserved and not released.                                 *)
THEOREM ReservationsRaiseBalance == Spec => []BalanceCountsReservations
<1>1. Init => LedgerFinite /\ BalanceCountsReservations
  <2> SUFFICES ASSUME Init PROVE LedgerFinite /\ BalanceCountsReservations
    OBVIOUS
  <2>1. \A op : Posted(op) = 0
    BY PostedIs, SumEmpty DEF Init, Debits
  <2>2. \A account : Balance(entries, account) = 0
    BY SumEmpty DEF Init, Balance, Side
  <2> QED  BY <2>1, <2>2, BalanceIs, FS_EmptySet DEF Init, LedgerFinite, BalanceCountsReservations
<1> QED
  BY <1>1, CountNext, FiniteNext, TypeCorrect, LedgerInit, LedgerNext, PTL DEF Spec
===================================================================================

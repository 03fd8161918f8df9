---------------------------- MODULE DomainValuesProofs ----------------------------
(***************************************************************************)
(* Proofs about DomainValues, for every amount, percentage, policy and     *)
(* ledger transaction.                                                     *)
(***************************************************************************)
EXTENDS DomainValues, TLAPS

(* What rounding to cents returns.                                         *)
LEMMA RoundedToCents ==
  ASSUME NEW n \in Int, NEW q \in rounded(n, 1000)
  PROVE  /\ q \in Int
         /\ -500 <= q * 1000 - n /\ q * 1000 - n <= 500
         /\ n >= 0 => q >= 0
BY DEF rounded

LEMMA RoundedPercent ==
  ASSUME NEW n \in Int, NEW q \in rounded(n, 100000)
  PROVE  /\ q \in Int
         /\ -50000 <= q * 100000 - n /\ q * 100000 - n <= 50000
BY DEF rounded

(* What the constructor returns.                                           *)
LEMMA MoneyMade ==
  ASSUME NEW x \in Number, NEW currency \in Currencies, NEW m \in makeMoney(x, currency)
  PROVE  /\ m \in Money /\ m.currency = currency
         /\ \/ x = Huge /\ m.cents = Infinity
            \/ /\ x \in Nat /\ m.cents \in Nat
               /\ -500 <= m.cents * 1000 - x /\ m.cents * 1000 - x <= 500
<1>1. CASE x = Huge
  BY <1>1 DEF makeMoney, toCents, Money
<1>2. CASE x # Huge
  <2>1. x \in Nat
    BY <1>2 DEF makeMoney, toCents
  <2>2. PICK c \in rounded(x, 1000) : m = [cents |-> c, currency |-> currency]
    BY <1>2, <2>1 DEF makeMoney, toCents
  <2> QED
    BY <2>1, <2>2, RoundedToCents DEF Money
<1> QED
  BY <1>1, <1>2

(* Whole cents go through the constructor unchanged.                       *)
LEMMA WholeCents ==
  ASSUME NEW n \in Nat, NEW currency \in Currencies, NEW m \in makeMoney(n * 1000, currency)
  PROVE  m = [cents |-> n, currency |-> currency]
<1>1. n * 1000 \in Nat /\ n * 1000 # Huge
  BY MoneyAssumption
<1>2. PICK c \in rounded(n * 1000, 1000) : m = [cents |-> c, currency |-> currency]
  BY <1>1 DEF makeMoney, toCents
<1>3. c \in Int /\ -500 <= c * 1000 - n * 1000 /\ c * 1000 - n * 1000 <= 500
  BY RoundedToCents
<1> QED
  BY <1>2, <1>3

LEMMA SumExact ==
  ASSUME NEW a \in Money, NEW b \in Money, NEW m \in add(a, b)
  PROVE  /\ a.cents \in Nat /\ b.cents \in Nat
         /\ m \in Money /\ m.cents = a.cents + b.cents
<1>1. a.cents \in Nat /\ b.cents \in Nat /\ a.currency \in Currencies
  BY DEF add, addable, Money
<1>2. m \in makeMoney((a.cents + b.cents) * 1000, a.currency)
  BY DEF add
<1>3. m = [cents |-> a.cents + b.cents, currency |-> a.currency]
  BY <1>1, <1>2, WholeCents
<1> QED
  BY <1>1, <1>3 DEF Money

LEMMA DifferenceExact ==
  ASSUME NEW a \in Money, NEW b \in Money, NEW m \in subtract(a, b)
  PROVE  /\ a.cents \in Nat /\ b.cents \in Nat
         /\ m \in Money /\ m.cents = a.cents - b.cents
<1>1. a.cents \in Nat /\ b.cents \in Nat /\ a.cents - b.cents \in Nat /\ a.currency \in Currencies
  BY DEF subtract, addable, Money
<1>2. m \in makeMoney((a.cents - b.cents) * 1000, a.currency)
  BY DEF subtract
<1>3. m = [cents |-> a.cents - b.cents, currency |-> a.currency]
  BY <1>1, <1>2, WholeCents
<1> QED
  BY <1>1, <1>3 DEF Money

LEMMA PartOfWhole ==
  ASSUME NEW n \in Nat, NEW p \in Nat, p <= 100
  PROVE  n * p \in Nat /\ n * p <= n * 100
OBVIOUS

(* What Money makes of a percentage: a fee if it is one from 0 to 100 of a *)
(* finite amount, and nothing otherwise.                                   *)
LEMMA FeeByMoney ==
  ASSUME NEW m \in Money, NEW x \in Number,
         NEW f \in UNION {multiply(m, p) : p \in percentage(x)}
  PROVE  /\ x \in 0..100 /\ m.cents \in Nat
         /\ f \in Money /\ f.cents \in Nat /\ f.cents <= m.cents
         /\ -500 <= f.cents * 1000 - m.cents * x * 10 /\ f.cents * 1000 - m.cents * x * 10 <= 500
<1> DEFINE k == m.cents * x
<1>1. x \in percentage(x) /\ f \in multiply(m, x)
  BY DEF percentage
<1>2. x \in Nat /\ x <= 100 /\ m.cents \in Nat /\ m.currency \in Currencies
  BY <1>1 DEF percentage, multiply, below, Money
<1>3. k \in Nat /\ k <= m.cents * 100
  BY <1>2, PartOfWhole
<1>4. f \in makeMoney(k * 10, m.currency)
  BY <1>1, <1>2 DEF multiply
<1> HIDE DEF k
<1>5. k * 10 \in Nat /\ k * 10 \in Number /\ k * 10 # Huge
  BY <1>3, MoneyAssumption DEF Number
<1>6. /\ f \in Money /\ f.cents \in Nat
      /\ -500 <= f.cents * 1000 - k * 10 /\ f.cents * 1000 - k * 10 <= 500
  BY <1>2, <1>4, <1>5, MoneyMade
<1>7. f.cents <= m.cents
  BY <1>2, <1>3, <1>6
<1>8. f.cents * 1000 - m.cents * x * 10 = f.cents * 1000 - k * 10
  BY DEF k
<1> QED
  BY <1>2, <1>6, <1>7, <1>8

(* For those percentages there is a fee.                                   *)
LEMMA FeeExists ==
  ASSUME NEW m \in Money, m.cents \in Nat, NEW x \in 0..100
  PROVE  UNION {multiply(m, p) : p \in percentage(x)} # {}
<1> DEFINE n == m.cents * x * 10
<1>1. n \in Nat
  BY PartOfWhole
<1>2. n # Huge
  BY <1>1, MoneyAssumption
<1>3. x \in percentage(x)
  BY MoneyAssumption DEF percentage, below
<1>4. multiply(m, x) = makeMoney(n, m.currency)
  BY DEF multiply
<1> HIDE DEF n
<1>5. \E q \in rounded(n, 1000) : TRUE
  <2>1. CASE 2 * ((n \div 1000) * 1000 - n) >= -1000
    <3>1. n \div 1000 \in rounded(n, 1000)
      BY <1>1, <2>1 DEF rounded
    <3> QED
      BY <3>1
  <2>2. CASE ~(2 * ((n \div 1000) * 1000 - n) >= -1000)
    <3>1. n \div 1000 + 1 \in rounded(n, 1000)
      BY <1>1, <2>2 DEF rounded
    <3> QED
      BY <3>1
  <2> QED
    BY <2>1, <2>2
<1>6. PICK q \in rounded(n, 1000) : TRUE
  BY <1>5
<1>7. [cents |-> q, currency |-> m.currency] \in makeMoney(n, m.currency)
  BY <1>1, <1>2 DEF makeMoney, toCents
<1>8. [cents |-> q, currency |-> m.currency] \in UNION {multiply(m, p) : p \in percentage(x)}
  BY <1>3, <1>4, <1>7
<1> QED
  BY <1>8

(* What calculateFee makes of the same.                                    *)
LEMMA TreasuryFeeExists ==
  ASSUME NEW n \in Nat, n # 0, NEW x \in 0..100
  PROVE  calculateFee(n * 1000, x) # {}
<1> DEFINE k == n * x * 1000
<1>1. k \in Nat
  BY PartOfWhole
<1>2. calculateFee(n * 1000, x) = rounded(k, 100000)
  <2>1. (n * 1000) * x = k
    OBVIOUS
  <2> QED
    BY <2>1 DEF calculateFee
<1> HIDE DEF k
<1>3. CASE 2 * ((k \div 100000) * 100000 - k) >= -100000
  <2>1. k \div 100000 \in rounded(k, 100000)
    BY <1>1, <1>3 DEF rounded
  <2> QED
    BY <1>2, <2>1
<1>4. CASE ~(2 * ((k \div 100000) * 100000 - k) >= -100000)
  <2>1. k \div 100000 + 1 \in rounded(k, 100000)
    BY <1>1, <1>4 DEF rounded
  <2> QED
    BY <1>2, <2>1
<1> QED
  BY <1>3, <1>4

LEMMA FeeByTreasury ==
  ASSUME NEW n \in Nat, n # 0, NEW x \in 0..100, NEW t \in calculateFee(n * 1000, x)
  PROVE  /\ t \in Int
         /\ -50000 <= t * 100000 - n * x * 1000 /\ t * 100000 - n * x * 1000 <= 50000
<1> DEFINE k == n * x * 1000
<1>1. k \in Nat
  BY PartOfWhole
<1>2. (n * 1000) * x = k
  OBVIOUS
<1>3. t \in rounded(k, 100000)
  BY <1>2 DEF calculateFee
<1> HIDE DEF k
<1>4. t \in Int /\ -50000 <= t * 100000 - k /\ t * 100000 - k <= 50000
  BY <1>1, <1>3, RoundedPercent
<1> QED
  BY <1>4 DEF k

(* Whatever calculateFee answers is a number.                              *)
LEMMA FeeIsNumber ==
  ASSUME NEW m \in Money, NEW x \in Number, NEW t \in calculateFee(amount(m), x)
  PROVE  t \in Number
<1>1. m.cents \in Nat /\ amount(m) = m.cents * 1000
  BY MoneyAssumption DEF calculateFee, amount, Money
<1>2. CASE x \in Int
  <2>1. t \in rounded((m.cents * 1000) * x, 100000)
    BY <1>1, <1>2 DEF calculateFee
  <2>2. (m.cents * 1000) * x \in Int
    BY <1>1, <1>2
  <2> QED
    BY <2>1, <2>2, RoundedPercent DEF Number
<1>3. CASE x \notin Int
  BY <1>1, <1>3 DEF calculateFee, Number
<1> QED
  BY <1>2, <1>3

-----------------------------------------------------------------------------------
(* How far the columns of the entries are from their amounts, as long as   *)
(* these are of one currency.                                              *)
StoredNearly ==
  \A c \in EntryCurrencies : draft.currencies \subseteq {c} =>
    LET off == 10 * draft.columns[c] - draft.net
    IN  -(5 * draft.size) <= off /\ off <= 5 * draft.size

(* Nothing is charged before there is anything to charge it from, and what *)
(* came in is only forgotten together with the amount itself.              *)
MoneyTracked == /\ balance = None => fees = 0
                /\ balance # None => (exact = Huge <=> balance.cents = Infinity)

Inv == TypeOK /\ DriftBounded /\ FeesAgree /\ StoredNearly /\ MoneyTracked

LEMMA InvInit == Init => Inv
BY DEF Init, FlowInit, SchemaInit, empty, Inv, TypeOK, DriftBounded, FeesAgree, StoredNearly,
       MoneyTracked, Drafts

LEMMA StoredAmount ==
  ASSUME NEW n \in Nat, NEW type \in {"DEBIT", "CREDIT"}
  PROVE  /\ signed(type, n) \in Int /\ signed(type, stored(n)) \in Int
         /\ -5 <= 10 * signed(type, stored(n)) - signed(type, n)
         /\ 10 * signed(type, stored(n)) - signed(type, n) <= 5
BY DEF stored, signed

LEMMA SchemaStep ==
  ASSUME Inv, SchemaNext, UNCHANGED flow
  PROVE  Inv'
<1>1. draft' \in Drafts /\ StoredNearly'
  <2>1. CASE Accept
    BY <2>1 DEF Accept, empty, Drafts, StoredNearly
  <2>2. ASSUME NEW entered \in EntryAmounts, NEW type \in {"DEBIT", "CREDIT"},
               NEW currency \in EntryCurrencies, AddEntry(type, entered, currency)
        PROVE  draft' \in Drafts /\ StoredNearly'
    <3> DEFINE a == signed(type, entered)
               s == signed(type, stored(entered))
    <3>1. /\ a \in Int /\ s \in Int
          /\ -5 <= 10 * s - a /\ 10 * s - a <= 5
      BY SchemaAssumption, StoredAmount
    <3>2. draft' = [net        |-> draft.net + a,
                    columns    |-> [draft.columns EXCEPT ![currency] = @ + s],
                    size       |-> draft.size + 1,
                    currencies |-> draft.currencies \cup {currency}]
      BY <2>2 DEF AddEntry
    <3> HIDE DEF a, s
    <3>3. draft \in Drafts
      BY DEF Inv, TypeOK
    <3>4. /\ draft.net \in Int /\ draft.size \in Nat
          /\ draft.columns \in [EntryCurrencies -> Int]
          /\ draft.currencies \in SUBSET EntryCurrencies
      BY <3>3 DEF Drafts
    <3>5. draft' \in Drafts
      BY <3>1, <3>2, <3>4 DEF Drafts
    <3>6. ASSUME NEW c \in EntryCurrencies, draft'.currencies \subseteq {c}
          PROVE  /\ -(5 * draft'.size) <= 10 * draft'.columns[c] - draft'.net
                 /\ 10 * draft'.columns[c] - draft'.net <= 5 * draft'.size
      <4>1. c = currency /\ draft.currencies \subseteq {c}
        BY <3>2, <3>6
      <4>2. /\ -(5 * draft.size) <= 10 * draft.columns[c] - draft.net
            /\ 10 * draft.columns[c] - draft.net <= 5 * draft.size
        BY <4>1 DEF Inv, StoredNearly
      <4>3. /\ draft'.columns[c] = draft.columns[c] + s
            /\ draft'.net = draft.net + a
            /\ draft'.size = draft.size + 1
        BY <3>2, <3>4, <4>1
      <4>4. draft.columns[c] \in Int
        BY <3>4
      <4> QED
        BY <3>1, <3>4, <4>2, <4>3, <4>4
    <3> QED
      BY <3>5, <3>6 DEF StoredNearly
  <2> QED
    BY <2>1, <2>2 DEF SchemaNext
<1> QED
  BY <1>1 DEF Inv, TypeOK, DriftBounded, FeesAgree, MoneyTracked, flow

LEMMA FlowStep ==
  ASSUME Inv, FlowNext, UNCHANGED draft
  PROVE  Inv'
<1> USE DEF Inv
<1>1. StoredNearly' /\ draft' \in Drafts
  BY DEF StoredNearly, TypeOK
<1>2. ASSUME NEW x \in Inputs, NEW currency \in Currencies,
             Create(x, currency) \/ Add(x, currency) \/ Subtract(x, currency)
      PROVE  /\ balance' \in Money /\ exact' \in Int \cup {Huge} /\ roundings' \in Nat
             /\ fees' = fees /\ fee' = None /\ DriftBounded' /\ MoneyTracked'
  <2>1. x \in Number
    BY FlowAssumption
  <2>2. CASE Create(x, currency)
    <3>1. balance' \in makeMoney(x, currency)
      BY <2>2 DEF Create, createSettlement
    <3>2. /\ balance' \in Money
          /\ \/ x = Huge /\ balance'.cents = Infinity
             \/ /\ x \in Nat /\ balance'.cents \in Nat
                /\ -500 <= balance'.cents * 1000 - x /\ balance'.cents * 1000 - x <= 500
      BY <2>1, <3>1, MoneyMade
    <3>3. balance' # None
      BY <3>2, FlowAssumption
    <3>4. fees = 0
      BY <2>2 DEF Create, MoneyTracked
    <3>5. CASE x = Huge /\ balance'.cents = Infinity
      BY <2>2, <3>2, <3>3, <3>5 DEF Create, DriftBounded, MoneyTracked
    <3>6. CASE /\ x \in Nat /\ balance'.cents \in Nat
               /\ -500 <= balance'.cents * 1000 - x /\ balance'.cents * 1000 - x <= 500
      BY <2>2, <3>2, <3>3, <3>4, <3>6, MoneyAssumption DEF Create, DriftBounded, MoneyTracked
    <3> QED
      BY <3>2, <3>5, <3>6
  <2>3. ASSUME NEW d \in Int, NEW e \in Int, -500 <= d * 1000 - e, d * 1000 - e <= 500,
               balance # None, balance.cents \in Nat,
               balance' \in Money, balance'.cents \in Nat, balance'.cents = balance.cents + d,
               exact' = exact + e, roundings' = roundings + 1, fees' = fees
        PROVE  exact' \in Int /\ roundings' \in Nat /\ DriftBounded' /\ MoneyTracked'
    <3>1. exact \in Int /\ fees \in Nat /\ roundings \in Nat
      BY <2>3, MoneyAssumption DEF MoneyTracked, TypeOK
    <3>2. /\ -500 * roundings <= (balance.cents + fees) * 1000 - exact
          /\ (balance.cents + fees) * 1000 - exact <= 500 * roundings
      BY <2>3, MoneyAssumption DEF DriftBounded
    <3>3. /\ -500 * roundings' <= (balance'.cents + fees') * 1000 - exact'
          /\ (balance'.cents + fees') * 1000 - exact' <= 500 * roundings'
      BY <2>3, <3>1, <3>2
    <3>4. balance' # None /\ balance'.cents # Infinity
      BY <2>3, MoneyAssumption, FlowAssumption
    <3>5. exact' \in Int /\ exact' # Huge /\ roundings' \in Nat
      BY <2>3, <3>1, MoneyAssumption
    <3> QED
      BY <3>3, <3>4, <3>5 DEF DriftBounded, MoneyTracked
  <2>4. CASE Add(x, currency)
    <3>1. PICK m \in makeMoney(x, currency) : balance' \in add(balance, m)
      BY <2>4 DEF Add
    <3>2. balance \in Money /\ m \in Money
      BY <2>1, <2>4, <3>1, MoneyMade DEF Add, TypeOK
    <3>3. /\ balance.cents \in Nat /\ m.cents \in Nat
          /\ balance' \in Money /\ balance'.cents = balance.cents + m.cents
      BY <3>1, <3>2, SumExact
    <3>4. /\ x \in Nat
          /\ -500 <= m.cents * 1000 - x /\ m.cents * 1000 - x <= 500
      BY <2>1, <3>1, <3>3, MoneyMade, MoneyAssumption
    <3>5. exact \in Int
      BY <2>4, <3>3, MoneyAssumption DEF Add, MoneyTracked, TypeOK
    <3>6. balance'.cents \in Nat /\ exact' = exact + x
      BY <2>4, <3>3 DEF Add
    <3>7. exact' \in Int /\ roundings' \in Nat /\ DriftBounded' /\ MoneyTracked'
      BY <2>3, <2>4, <3>3, <3>4, <3>6 DEF Add
    <3> QED
      BY <2>4, <3>3, <3>7 DEF Add
  <2>5. CASE Subtract(x, currency)
    <3>1. PICK m \in makeMoney(x, currency) : balance' \in subtract(balance, m)
      BY <2>5 DEF Subtract
    <3>2. balance \in Money /\ m \in Money
      BY <2>1, <2>5, <3>1, MoneyMade DEF Subtract, TypeOK
    <3>3. /\ balance.cents \in Nat /\ m.cents \in Nat
          /\ balance' \in Money /\ balance'.cents = balance.cents - m.cents
      BY <3>1, <3>2, DifferenceExact
    <3>4. /\ x \in Nat
          /\ -500 <= m.cents * 1000 - x /\ m.cents * 1000 - x <= 500
      BY <2>1, <3>1, <3>3, MoneyMade, MoneyAssumption
    <3>5. exact \in Int
      BY <2>5, <3>3, MoneyAssumption DEF Subtract, MoneyTracked, TypeOK
    <3> DEFINE d == -m.cents
               e == -x
    <3>6. /\ d \in Int /\ e \in Int
          /\ -500 <= d * 1000 - e /\ d * 1000 - e <= 500
          /\ balance'.cents \in Nat /\ balance'.cents = balance.cents + d /\ exact' = exact + e
      <4>1. balance'.cents \in Nat
        BY <3>3, MoneyAssumption DEF Money
      <4> QED
        BY <2>5, <3>3, <3>4, <3>5, <4>1 DEF Subtract
    <3> HIDE DEF d, e
    <3>7. exact' \in Int /\ roundings' \in Nat /\ DriftBounded' /\ MoneyTracked'
      BY <2>3, <2>5, <3>3, <3>6 DEF Subtract
    <3> QED
      BY <2>5, <3>3, <3>7 DEF Subtract
  <2> QED
    BY <1>2, <2>2, <2>4, <2>5
<1>3. ASSUME NEW x \in Percentages, Charge(x)
      PROVE  Inv'
  <2>1. x \in Number /\ balance \in Money /\ balance # None
    BY <1>3, FlowAssumption DEF Charge, TypeOK
  <2> DEFINE byMoney == UNION {multiply(balance, p) : p \in percentage(x)}
             byTreasury == calculateFee(amount(balance), x)
  <2>2. PICK f \in outcomes(byMoney), t \in outcomes(byTreasury) :
          /\ fee' = [of |-> balance.cents, percent |-> x,
                     money |-> IF f = None THEN None ELSE f.cents, treasury |-> t]
          /\ \/ f # None /\ balance' \in subtract(balance, f) /\ fees' = fees + f.cents
             \/ (f # None => subtract(balance, f) = {}) /\ UNCHANGED <<balance, fees>>
    BY <1>3 DEF Charge
  <2>3. \/ byMoney = {} /\ f = None
        \/ f \in byMoney /\ f # None
    <3>1. byMoney \subseteq Money
      BY <2>1, FeeByMoney
    <3> QED
      BY <3>1, FlowAssumption DEF outcomes
  <2>4. t \in Number \cup {None}
    <3>1. byTreasury \subseteq Number
      BY <2>1, FeeIsNumber
    <3> QED
      BY <3>1 DEF outcomes
  <2>5. balance.cents \in Nat \cup {Infinity}
    BY <2>1 DEF Money
  <2>6. CASE byMoney = {} /\ f = None
    <3>1. fee' \in Fee
      BY <2>1, <2>2, <2>4, <2>5, <2>6 DEF Fee
    <3>2. FeesAgree'
      <4>1. ~(balance.cents # Infinity /\ x \in 0..100)
        BY <2>1, <2>5, <2>6, FeeExists
      <4>2. fee'.of = balance.cents /\ fee'.percent = x /\ fee'.money = None
        BY <2>2, <2>6
      <4> QED
        BY <4>1, <4>2 DEF FeesAgree
    <3>3. UNCHANGED <<balance, fees, exact, roundings>>
      BY <1>3, <2>2, <2>6 DEF Charge
    <3> QED
      BY <1>1, <3>1, <3>2, <3>3 DEF TypeOK, DriftBounded, MoneyTracked
  <2>7. CASE f \in byMoney /\ f # None
    <3>1. /\ x \in 0..100 /\ balance.cents \in Nat /\ balance.cents # Infinity
          /\ f \in Money /\ f.cents \in Nat /\ f.cents <= balance.cents
          /\ -500 <= f.cents * 1000 - balance.cents * x * 10
          /\ f.cents * 1000 - balance.cents * x * 10 <= 500
      BY <2>1, <2>7, FeeByMoney, MoneyAssumption
    <3>2. /\ fee'.of = balance.cents /\ fee'.percent = x
          /\ fee'.money = f.cents /\ fee'.treasury = t /\ fee' \in Fee
      BY <2>1, <2>2, <2>4, <2>7, <3>1 DEF Fee
    <3>3. ASSUME balance.cents # 0
          PROVE  t \in Int /\ f.cents - 1 <= t /\ t <= f.cents + 1
      <4>1. PICK n \in Nat : n = balance.cents /\ n # 0
        BY <3>1, <3>3
      <4>0. x \in 0..100
        BY <3>1
      <4>2. byTreasury = calculateFee(n * 1000, x)
        BY <3>1, <4>1 DEF amount
      <4>3. n # 0
        BY <4>1
      <4>4. calculateFee(n * 1000, x) # {}
        BY <4>0, <4>3, TreasuryFeeExists
      <4>5. t \in calculateFee(n * 1000, x)
        BY <4>2, <4>4 DEF outcomes
      <4> DEFINE k == n * x
      <4>6. k \in Nat
        BY <4>1, <4>0
      <4>7. /\ t \in Int
            /\ -500 <= f.cents * 1000 - k * 10 /\ f.cents * 1000 - k * 10 <= 500
            /\ -50000 <= t * 100000 - k * 1000 /\ t * 100000 - k * 1000 <= 50000
        <5>1. /\ -500 <= f.cents * 1000 - n * x * 10
              /\ f.cents * 1000 - n * x * 10 <= 500
          BY <3>1, <4>1
        <5> QED
          BY <4>0, <4>3, <4>5, <5>1, FeeByTreasury
      <4>8. f.cents \in Nat
        BY <3>1
      <4> HIDE DEF k
      <4> QED
        BY <4>6, <4>7, <4>8
    <3>4. FeesAgree'
      <4>1. f.cents # None
        BY <3>1, FlowAssumption DEF Number
      <4>2. fee'.of # 0 => fee'.treasury \in (fee'.money - 1)..(fee'.money + 1)
        BY <3>1, <3>2, <3>3
      <4> QED
        BY <3>1, <3>2, <4>1, <4>2 DEF FeesAgree
    <3>5. balance' \in Money /\ fees' \in Nat /\ balance'.cents \in Nat
          /\ balance'.cents + fees' = balance.cents + fees
      <4>1. CASE balance' \in subtract(balance, f) /\ fees' = fees + f.cents
        <5>1. balance' \in Money /\ balance'.cents = balance.cents - f.cents
          BY <2>1, <3>1, <4>1, DifferenceExact
        <5>2. fees \in Nat
          BY DEF TypeOK
        <5>3. balance.cents \in Nat /\ f.cents \in Nat /\ f.cents <= balance.cents /\ fees' = fees + f.cents
          BY <3>1, <4>1
        <5>4. balance'.cents \in Nat /\ balance'.cents + fees' = balance.cents + fees /\ fees' \in Nat
          BY <5>1, <5>2, <5>3
        <5> QED
          BY <5>1, <5>4
      <4>2. CASE UNCHANGED <<balance, fees>>
        BY <2>1, <3>1, <4>2 DEF TypeOK
      <4> QED
        BY <2>2, <4>1, <4>2
    <3>6. balance' # None /\ balance'.cents # Infinity
      BY <3>5, FlowAssumption, MoneyAssumption
    <3>7. UNCHANGED <<exact, roundings>>
      BY <1>3 DEF Charge
    <3>8. DriftBounded' /\ MoneyTracked'
      <4>1. exact # Huge
        BY <2>1, <3>1 DEF MoneyTracked
      <4>2. /\ -500 * roundings <= (balance.cents + fees) * 1000 - exact
            /\ (balance.cents + fees) * 1000 - exact <= 500 * roundings
        BY <2>1, <3>1 DEF DriftBounded
      <4>3. /\ -500 * roundings' <= (balance'.cents + fees') * 1000 - exact'
            /\ (balance'.cents + fees') * 1000 - exact' <= 500 * roundings'
        BY <3>5, <3>7, <4>2
      <4> QED
        BY <3>6, <3>7, <4>1, <4>3 DEF DriftBounded, MoneyTracked
    <3> QED
      BY <1>1, <3>2, <3>4, <3>5, <3>7, <3>8 DEF TypeOK
  <2> QED
    BY <2>3, <2>6, <2>7
<1> QED
  <2>1. CASE \E x \in Inputs, currency \in Currencies :
               Create(x, currency) \/ Add(x, currency) \/ Subtract(x, currency)
    BY <1>1, <1>2, <2>1 DEF TypeOK, FeesAgree
  <2> QED
    BY <1>3, <2>1 DEF FlowNext

LEMMA InvNext == Inv /\ [Next]_vars => Inv'
<1> SUFFICES ASSUME Inv, [Next]_vars PROVE Inv'
  OBVIOUS
<1>1. CASE UNCHANGED vars
  BY <1>1 DEF vars, flow, Inv, TypeOK, DriftBounded, FeesAgree, StoredNearly, MoneyTracked
<1> QED
  BY <1>1, SchemaStep, FlowStep DEF Next

LEMMA InvAlways == Spec => []Inv
BY InvInit, InvNext, PTL DEF Spec

(* Whatever numbers are passed, no Money is negative or NaN, and a finite  *)
(* one holds whole cents.                                                  *)
THEOREM TypeCorrect == Spec => []TypeOK
BY InvAlways, PTL DEF Inv

(* Rounding costs half a cent at most for each amount, and sums, fees and  *)
(* differences cost nothing.                                               *)
THEOREM NoFurtherDrift == Spec => []DriftBounded
BY InvAlways, PTL DEF Inv

(* Money and Percentage give a fee for the percentages from 0 to 100 of a  *)
(* finite amount and no other; it can be paid, and calculateFee agrees to  *)
(* a cent.                                                                 *)
THEOREM FeesAlwaysAgree == Spec => []FeesAgree
BY InvAlways, PTL DEF Inv

LEMMA CreatedStep ==
  ASSUME Inv, [Next]_vars, balance = None, balance' # None
  PROVE  LET min == config.minAmount
             max == config.maxAmountByCurrency[balance'.currency]
         IN  /\ min \in Int /\ balance'.cents # Infinity => balance'.cents * 1000 >= min - 500
             /\ limited(balance'.currency) /\ max \in Int =>
                  balance'.cents # Infinity /\ balance'.cents * 1000 <= max + 500
<1>1. PICK x \in Inputs, currency \in Currencies : Create(x, currency)
  BY DEF Next, FlowNext, Add, Subtract, Charge, vars, flow
<1>2. x \in Number
  BY FlowAssumption
<1>3. balance' \in makeMoney(x, currency) /\ isAmountWithinLimits(x, currency)
  BY <1>1 DEF Create, createSettlement
<1>4. /\ balance' \in Money /\ balance'.currency = currency
      /\ \/ x = Huge /\ balance'.cents = Infinity
         \/ /\ x \in Nat /\ balance'.cents \in Nat
            /\ -500 <= balance'.cents * 1000 - x /\ balance'.cents * 1000 - x <= 500
  BY <1>2, <1>3, MoneyMade
<1> DEFINE min == config.minAmount
           max == config.maxAmountByCurrency[currency]
<1>5. ASSUME min \in Int, balance'.cents # Infinity
      PROVE  balance'.cents * 1000 >= min - 500
  <2>1. ~(x < min) /\ x \in Nat
    BY <1>3, <1>4, <1>5 DEF isAmountWithinLimits, below
  <2> HIDE DEF min
  <2> QED
    BY <1>4, <1>5, <2>1
<1>6. ASSUME limited(currency), max \in Int
      PROVE  balance'.cents # Infinity /\ balance'.cents * 1000 <= max + 500
  <2>1. ~below(max, x)
    BY <1>3, <1>6 DEF isAmountWithinLimits, aboveMaximum
  <2>2. x # Huge
    BY <1>6, <2>1 DEF below
  <2> HIDE DEF max
  <2>3. x \in Nat /\ balance'.cents \in Nat /\ ~(max < x)
    BY <1>4, <1>6, <2>1, <2>2 DEF below
  <2> QED
    BY <1>4, <1>6, <2>2, <2>3, MoneyAssumption
<1> QED
  BY <1>4, <1>5, <1>6

(* Rounding takes an amount out of the limits it was found within by half  *)
(* a cent at most, whatever the limits.                                    *)
THEOREM LimitsHold == Spec => CreatedWithinLimits
<1>1. Inv /\ [Next]_vars =>
        [balance = None /\ balance' # None =>
           LET min == config.minAmount
               max == config.maxAmountByCurrency[balance'.currency]
           IN  /\ min \in Int /\ balance'.cents # Infinity => balance'.cents * 1000 >= min - 500
               /\ limited(balance'.currency) /\ max \in Int =>
                    balance'.cents # Infinity /\ balance'.cents * 1000 <= max + 500]_vars
  BY CreatedStep
<1> QED
  BY <1>1, InvAlways, PTL DEF Spec, CreatedWithinLimits

LEMMA AcceptedStep ==
  ASSUME Inv, [Next]_vars, draft # empty, draft' = empty
  PROVE  \A c \in EntryCurrencies : draft.currencies = {c} =>
           LET off == 10 * draft.columns[c]
           IN  -(10 + 5 * draft.size) <= off /\ off <= 10 + 5 * draft.size
<1>1. draft \in Drafts
  BY DEF Inv, TypeOK
<1>2. ~ \E entered \in EntryAmounts, type \in {"DEBIT", "CREDIT"}, currency \in EntryCurrencies :
          AddEntry(type, entered, currency)
  <2> SUFFICES ASSUME NEW entered \in EntryAmounts, NEW type \in {"DEBIT", "CREDIT"},
                      NEW currency \in EntryCurrencies, AddEntry(type, entered, currency)
               PROVE  FALSE
    OBVIOUS
  <2>1. draft'.size = draft.size + 1
    BY DEF AddEntry
  <2> QED
    BY <1>1, <2>1 DEF empty, Drafts
<1>3. Accept
  BY <1>2 DEF Next, SchemaNext, vars
<1>4. -10 <= draft.net /\ draft.net <= 10
  BY <1>3 DEF Accept, mayBalance
<1> SUFFICES ASSUME NEW c \in EntryCurrencies, draft.currencies = {c}
             PROVE  /\ -(10 + 5 * draft.size) <= 10 * draft.columns[c]
                    /\ 10 * draft.columns[c] <= 10 + 5 * draft.size
  OBVIOUS
<1>5. /\ -(5 * draft.size) <= 10 * draft.columns[c] - draft.net
      /\ 10 * draft.columns[c] - draft.net <= 5 * draft.size
  BY DEF Inv, StoredNearly
<1>6. draft.net \in Int /\ draft.size \in Nat /\ draft.columns[c] \in Int
  BY <1>1 DEF Drafts
<1> QED
  BY <1>4, <1>5, <1>6

(* How far an accepted transaction in one currency may be from balance     *)
(* once it is stored.                                                      *)
THEOREM AcceptedBalance == Spec => AcceptedNearlyBalanced
<1>1. Inv /\ [Next]_vars =>
        [draft # empty /\ draft' = empty =>
           \A c \in EntryCurrencies : draft.currencies = {c} =>
             LET off == 10 * draft.columns[c]
             IN  -(10 + 5 * draft.size) <= off /\ off <= 10 + 5 * draft.size]_vars
  BY AcceptedStep
<1> QED
  BY <1>1, InvAlways, PTL DEF Spec, AcceptedNearlyBalanced
===================================================================================

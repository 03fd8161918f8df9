----------------------------------- MODULE Money -----------------------------------
(***************************************************************************)
(* The value objects of packages/domain: Money, Percentage and             *)
(* SettlementPolicy, and what the factory and the treasury's fee make of   *)
(* them.                                                                   *)
(*                                                                         *)
(* An operation is the set of values it may return; the empty set says     *)
(* that it throws.  A JavaScript number is an integer count of ticks of    *)
(* 10^-5 currency units (or a whole number of percent), small enough that  *)
(* floating point tells neighbours apart; or it is NaN, Infinity, or Huge, *)
(* a finite number whose hundredfold is no longer finite.                  *)
(***************************************************************************)
EXTENDS Integers

CONSTANTS NaN, Infinity, Huge,
          Currencies,
          DefaultPolicy, \* [minAmount, maxAmountByCurrency], any numbers
          Override       \* the fields an institution configures instead

Number == Int \cup {NaN, Infinity, Huge}
Money  == [cents : Nat \cup {Infinity}, currency : Currencies]

(* JavaScript's x < y.                                                     *)
below(x, y) == \/ x \in Int /\ (y \in {Huge, Infinity} \/ (y \in Int /\ x < y))
               \/ x = Huge /\ y = Infinity

(* Math.round(n / d).  Floating point errs by far less than the distance   *)
(* of any other quotient of ticks to a tie, so only ties may go either way *)
(* (1.005 * 100 is below 100.5, 0.125 * 100 is 12.5).                      *)
rounded(n, d) == { q \in {n \div d, n \div d + 1} : -d <= 2 * (q * d - n) /\ 2 * (q * d - n) <= d }

-----------------------------------------------------------------------------------
(* The constructor's check, Number.isFinite, looks at the amount; it is    *)
(* times a hundred that it is kept, and that may be Infinity.              *)
toCents(x) == IF x = Huge THEN {Infinity} ELSE IF x \in Nat THEN rounded(x, 1000) ELSE {}

(* Slip: NaN and Infinity are not refused.                                 *)
makeMoneyUnchecked(x, currency) ==
  { [cents |-> c, currency |-> currency] : c \in IF x \in {NaN, Infinity} THEN {x} ELSE toCents(x) }

(* The constructor, Money.of.                                              *)
makeMoney(x, currency) == { [cents |-> c, currency |-> currency] : c \in toCents(x) }

(* The getter amount.                                                      *)
amount(m) == IF m.cents = Infinity THEN Infinity ELSE m.cents * 1000

addable(a, b) == a.currency = b.currency /\ a.cents \in Nat /\ b.cents \in Nat

(* Slip: the sum is handed on in cents, not in currency units.             *)
addUnscaled(a, b) ==
  IF addable(a, b) THEN makeMoney((a.cents + b.cents) * 100000, a.currency) ELSE {}

(* Results go through the constructor again, which rounds again, and which *)
(* refuses what comes of an infinite operand: Infinity or NaN.             *)
add(a, b) ==
  IF addable(a, b) THEN makeMoney((a.cents + b.cents) * 1000, a.currency) ELSE {}

subtract(a, b) ==
  IF addable(a, b) /\ a.cents - b.cents >= 0
  THEN makeMoney((a.cents - b.cents) * 1000, a.currency)
  ELSE {}

(* Times p percent, that is times Percentage.of(p).toDecimal().            *)
multiply(m, p) ==
  IF m.cents \in Nat /\ p \in Int THEN makeMoney(m.cents * p * 10, m.currency) ELSE {}

(* Slip: only negative values are refused.                                 *)
percentageUnbounded(x) == IF below(x, 0) THEN {} ELSE {x}

(* Percentage.of: NaN is neither below 0 nor above 100, and passes.        *)
percentage(x) == IF below(x, 0) \/ below(100, x) THEN {} ELSE {x}

(* TreasuryEngine.calculateFee, in cents, for an amount in ticks that      *)
(* validatePositiveAmount lets pass; it takes any percentage.              *)
calculateFee(x, p) ==
  IF x \notin Int \/ x <= 0 THEN {}
  ELSE IF p \in Int THEN rounded(x * p, 100000)
  ELSE IF p = Huge THEN {Huge, Infinity} ELSE {p}

-----------------------------------------------------------------------------------
(* { ...DEFAULT_POLICY, ...config }: a field is taken over as a whole, so  *)
(* an override of the maxima drops those of the currencies it leaves out.  *)
config == [f \in DOMAIN DefaultPolicy |->
             IF f \in DOMAIN Override THEN Override[f] ELSE DefaultPolicy[f]]

limited(currency) == currency \in DOMAIN config.maxAmountByCurrency

aboveMaximum(x, currency) == limited(currency) /\ below(config.maxAmountByCurrency[currency], x)

(* Slip: the minimum is not looked at.                                     *)
isAmountBelowMaximum(x, currency) == ~aboveMaximum(x, currency)

isAmountWithinLimits(x, currency) == ~below(x, config.minAmount) /\ ~aboveMaximum(x, currency)

(* SettlementFactory.create, as far as the amount goes: the policy is      *)
(* asked about the number, and lets NaN pass; Money.of, before it, threw.  *)
createSettlement(x, currency) ==
  { m \in makeMoney(x, currency) : isAmountWithinLimits(x, currency) }

ASSUME MoneyAssumption ==
  /\ NaN \notin Int /\ Infinity \notin Int /\ Huge \notin Int
  /\ NaN # Infinity /\ NaN # Huge /\ Huge # Infinity
  /\ config.minAmount \in Number
  /\ \A c \in DOMAIN config.maxAmountByCurrency : config.maxAmountByCurrency[c] \in Number
====================================================================================

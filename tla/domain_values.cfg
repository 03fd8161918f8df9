\* Amounts, percentages and ledger entries about every limit and tie.
SPECIFICATION Spec
CONSTANTS
  NaN = NaN
  Infinity = Infinity
  Huge = Huge
  USD = USD
  NGN = NGN
  None = None
  Currencies = {USD, NGN}
  DefaultPolicy <- MCDefaultPolicy
  Override <- MCOverride
  Inputs <- MCInputs
  Percentages <- MCPercentages
  MaxRoundings = 2
  EntryAmounts <- MCEntryAmounts
  EntryCurrencies = {USD, NGN}
  MaxEntries = 3
INVARIANTS
  TypeOK
  DriftBounded
  FeesAgree
PROPERTIES
  CreatedWithinLimits
  AcceptedNearlyBalanced
CHECK_DEADLOCK FALSE

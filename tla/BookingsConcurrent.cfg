\* Two requests at once.
CONSTANTS
  s1 = s1 s2 = s2 q1 = q1 q2 = q2 b1 = b1 b2 = b2
  None = None
  Sessions = {s1, s2}
  BookingIds = {b1, b2}
  Quotes = {q1}
  Terms <- MCTerms
  Amounts = {1}
  MaxReceived = 2
  DepositPct = 50
  BalanceDays = 1
  WithinDays = 1
  Horizon = 3
  YearLength = 2
SPECIFICATION FairSpec
INVARIANTS TypeOK ReferencesAreGapless ConfirmedHasDeposit
PROPERTIES RequestsEnd
CHECK_DEADLOCK FALSE

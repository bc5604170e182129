\* One request on quotes and one on bookings, side by side.
CONSTANTS
  e1 = e1 q1 = q1 o1 = o1 o2 = o2 s1 = s1 b1 = b1 b2 = b2
  None = None
  Editors = {e1}
  Quotes = {q1}
  Options = {o1, o2}
  Tables <- Rates
  Itineraries = {3}
  Validity = 0
  StatusEdits = {}
  MaxVersions = 2
  Sessions = {s1}
  BookingIds = {b1}
  Amounts = {}
  MaxReceived = 0
  DepositPct = 50
  BalanceDays = 1
  Arrival = 2
  Departure = 3
  Horizon = 1
  YearLength = 3
SPECIFICATION SalesSpec
INVARIANTS BookedTotalIsAcceptedOptions
CHECK_DEADLOCK FALSE

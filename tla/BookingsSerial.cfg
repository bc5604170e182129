\* One request at a time; two trips and two bookings, of one trip or of both.
CONSTANTS
  s1 = s1 s2 = s2 q1 = q1 q2 = q2 b1 = b1 b2 = b2
  None = None
  Sessions = {s1}
  BookingIds = {b1, b2}
  Quotes = {q1, q2}
  Terms <- SomeTerms
  Amounts = {1, 3}
  MaxReceived = 6
  DepositPct = 30
  BalanceDays = 1
  WithinDays = 1
  Horizon = 3
  YearLength = 2
SPECIFICATION Spec
INVARIANTS OneTripHeldOnce DepositConfirms
INVARIANTS WalkFindsTheShortfall SettledMeansNothingDue UnpaidIsChased
PROPERTIES CancelledIsClosed HoldsTrips PaymentsOnlySettle
CHECK_DEADLOCK FALSE
SYMMETRY Symmetric

\* One day inside a longer trip, asked of the same vehicle and guide.
CONSTANTS
  t1 = t1 t2 = t2 v1 = v1 c1 = c1
  None = None
  s1 = s1 s2 = s2
  Sessions = {s1, s2}
  Asked <- AskedRoles
  Deadlines <- NoneOrTwo
  Contested = {r1}
  Trip = {t1, t2}
  Arrives <- FirstDay
  Departs <- LastDay
  Pax <- Heads
  Horizon = 5
  YearLength = 7
  Vehicles = {v1}
  CrewMembers = {c1}
  Capacity <- Seating
  CrewRows <- Rows
  AskedDays <- DayTwoAlone
  AssignmentIds = {1, 2, 3}
  WarningDays = 2
  Readings = {0, 2, 4}
  Litres = {1}
  Currencies = {kes, tzs}
  MostLitres = 3
  ModelKmpl <- Model
  MinKm = 1
  MinTrips = 2
  TolerancePct = 10
  SupplyIds = {r1, r2}
  References = {ref}
  Budgets = {1}
  Bills = {2}
  Money = {kes, usd}
  ConfirmByDays = 2
  BillTolerance = 2
  Grants = {g1}
  DaysAfter = 1
  MinimumDays = 2
  MostVisits = 2
  Committed <- ThreeTimes
  BoardDays = 5
  Desks = {"fleet"}
SPECIFICATION Spec
INVARIANTS InTwoPlaces
CHECK_DEADLOCK FALSE
SYMMETRY Alike

\* The record-keeping desks.
CONSTANTS
  l1 = l1 q1 = q1 k1 = k1 s1 = s1 s2 = s2
  None = None
  Sessions = {s1, s2}
  Horizon = 2
  YearLength = 7
  Leads = {l1}
  Clients = {k1}
  Stages <- ThreeStages
  NextActionDays = 1
  Instants = 4
  MostMoves = 2
  EntryIds = {1, 2, 3}
  Subjects = {l1, q1, k1}
  Behind <- LeadBehind
  StaleAfterDays = 2
  ChaseThreshold = 2
  NarrativeIds = {1, 2, 3}
  Topics = {lodge}
  Authors = {ann}
  Texts = {a, b}
  Docs = {d1, d2}
  Sheets = {sheet}
  Rows = {1, 2, 3}
  Slots = {low, high}
  MostRead = 2
  MostDecided = 2
  Fewer = {1, 2}
  Followed = {"leads", "calls", "log", "narratives", "review"}
SPECIFICATION Spec
INVARIANTS HistoryIsAPath StampsFollowTheLog MorningListMissesNobody
INVARIANTS ClientReadsWhatWasApproved RateHasItsRow ReviewedHasNothingPending
CHECK_DEADLOCK FALSE
SYMMETRY Alike

\* Two requests at once on one quote with two options, at most two versions.
CONSTANTS
  e1 = e1 e2 = e2 q1 = q1 o1 = o1 o2 = o2
  None = None
  Editors = {e1, e2}
  Quotes = {q1}
  Options = {o1, o2}
  Tables <- FlatRates
  Itineraries = {3}
  Validity = 0
  StatusEdits = {}
  MaxVersions = 2
  Horizon = 1
  YearLength = 3
SPECIFICATION Spec
INVARIANTS QuoteTypeOK CurrentIsNewest SentWasIssued
CHECK_DEADLOCK FALSE
SYMMETRY Symmetric

SPECIFICATION Spec
CONSTANTS
  None = None
  PackageQuestions <- MCPackageQuestions
  OrderQuestions <- MCOrderQuestions
  JourneyQuestions <- MCJourneyQuestions
  StayQuestions <- MCStayQuestions
  OfferQuestions <- MCOfferQuestions
INVARIANTS
  PackageCoversTheTrip
  BetterOrderIsDrivable
  ReadyJourneyIsCharged
  BedsForEveryone
  CohortsBearTheCost
  EveryOptionIsAccountedFor
  PapersAgree
\* One question, one answer.
CHECK_DEADLOCK FALSE

SPECIFICATION FairSpec
CONSTANTS
  Accounts = {"work"}
  Emails = {"ann", "bob"}
  Connectors = {c1, c2}
  Requests = {r1}
  Positions = 4
  FirstCalendar <- MCFirstCalendar
  StrayTokens = {0, 1, 2, 5}
  Unmappable = {4}
  PageSize = 1
  MaxPages = 3
  MaxEdits = 1
INVARIANTS CompleteMeansAll WalkIsBounded EventsOfNamedAccounts 
PROPERTIES NeverReplacedUnasked EveryRequestAnswered
CHECK_DEADLOCK FALSE

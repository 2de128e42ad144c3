CONSTANTS
  Openers = {p1, p2}
  V1Columns = {"first_release"}
  V2Additions <- MCV2Additions
  V3Additions <- MCV3Additions
  MaxDeaths = 2
SPECIFICATION FairSpec
INVARIANTS VersionIsHonest
PROPERTIES OnlyRacesRaise EverybodyOpens
CHECK_DEADLOCK FALSE

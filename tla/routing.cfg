CONSTANTS
  Absent = Absent
  Words = {"role", "read", "send", "p", "q", "acct", "ann", "bob"}
  ExecutorRoles <- MCRoles
  Executors = {"m1", "m2", "m3", "m4", "m5", "m6", "c1", "c2", "c3", "c4", "c5"}
  Offers <- MCOffers
  Requests <- MCRequests
SPECIFICATION Spec
INVARIANTS ExplicitRouteUnique ManifestIsWhole ImplicitAgreesWithExplicit
PROPERTY NamedRouteIsStable
CHECK_DEADLOCK FALSE

\* Two registrations against changes of mode and code; three requests against the clock and the replay table;
\* two addresses of which one has a bucket of its own; five rows leafed through by ones and twos.
SPECIFICATION PartSpec
CONSTANTS
  n1 = n1
  Requests = {1, 2, 3}
  Challenges = {1, 2, 3}
  Codes = {k1}
  NoCode = none
  Usernames = {n1, n2}
  Validity = 1
  CleanupInterval = 1
  MaxUsed = 2
  MaxWork = 1
  Limits = {1, 2}
  MaxTime = 3
  p1 = p1
  s1 = s1
  Hosts = {h1, h2}
  Proxies = {p1}
  MaximumForwardedHops = 2
  Callers = {c1, c2}
  Arrivals <- AllArrivals
  SharedBuckets = {s1}
  SharedOf <- OneShared
  Token = 2
  Rate = 1
  BurstTokens = 1
  IdleTTL = 4
  SweepInterval = 4
  MaximumAddresses = 1
  EndTime = 6
  Ids = {1, 2, 3, 4, 5}
  Seconds = {0, 1}
  Subsecond = 2
  PageLimits = {1, 2}
SYMMETRY EndpointSymmetry
ACTION_CONSTRAINT NumberedOnArrival
CONSTRAINT OneEdge
INVARIANTS
  RegInv
  EndpointInv
  PagesInv
PROPERTIES
  PolicyAtCommit

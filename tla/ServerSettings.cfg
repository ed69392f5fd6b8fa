\* Two administrators with two site keys, two health requests beside one of them, two
\* logins beside one, or the bootstrap with a random password for every start.
SPECIFICATION MCSpec
CONSTANTS
  none = none
  p1 = p1
  p2 = p2
  Admins = {1, 2}
  Viewers = {1, 2}
  Probes = {p1, p2}
  Sites = {1, 2}
  NoSite = none
  NoProbe = none
  MaxRevision = 3
  Logins = {1, 2}
  AdmissionSlots = 1
  RandomPasswords = {1, 2, 3, 4, 5}
  ChosenPasswords = {11, 12}
  Absent = Absent
  Torn = Torn
  MaxCrashes = 2
  MaxFailures = 2
CONSTRAINT OneEdge
ACTION_CONSTRAINT NumberedOnArrival
INVARIANTS
  SettingsInv
  TurnstileInv
  BootstrapInv
PROPERTIES
  RequestsEnd
  BootstrapOrTornFile
CHECK_DEADLOCK FALSE

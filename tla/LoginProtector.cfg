\* Three logins of two usernames from two addresses; two source entries, one username entry, one shared bucket.
CONSTANTS
  a1 = a1
  a2 = a2
  a3 = a3
  a4 = a4
  u1 = u1
  u2 = u2
  u3 = u3
  d1 = d1
  d2 = d2
  b1 = b1
  none = none
  Attempts = {a1, a2, a3}
  Users = {u1, u2}
  Addresses = {d1, d2}
  Buckets = {b1}
  BucketOf <- OneBucket
  NoEntry = none
  Threshold = 2
  Window = 2
  BaseLockout = 1
  MaxLockout = 2
  MaxSources = 2
  MaxUsernames = 1
  CleanupInterval = 3
  MaxTime = 5
SPECIFICATION LoginSpec
SYMMETRY LoginSymmetry
CHECK_DEADLOCK FALSE
INVARIANTS
  LoginInv
  GuessesBounded

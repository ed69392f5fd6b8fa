\* Two requests of two users, with two passwords, or two keys, or two tiers.
SPECIFICATION AccountsSpec
CONSTANTS
  Users = {1, 2}
  Bootstrap = 1
  Tiers = {0, 1}
  FirstTier = 0
  Keys = {1, 2}
  Passwords = {p, q}
  Requests = {r1, r2}
  MaxKeys = 1
  MaxVersion = 2
SYMMETRY RequestSymmetry
ACTION_CONSTRAINT NumberedOnCreation
CONSTRAINT OneEdge
INVARIANTS
  AccountsInv
PROPERTIES
  RefusedForEver

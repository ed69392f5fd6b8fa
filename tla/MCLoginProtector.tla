-------------------------- MODULE MCLoginProtector --------------------------
(* Small instances of LoginProtector for TLC. *)
EXTENDS LoginProtector, TLC

CONSTANTS a1, a2, a3, a4, u1, u2, u3, d1, d2, b1, none

\* Every username falls into the same shared bucket.
OneBucket == [u \in Users |-> b1]

\* Attempts take their usernames and addresses freely.
AttemptSymmetry == Permutations(Attempts)
LoginSymmetry == Permutations(Attempts) \cup Permutations(Users) \cup Permutations(Addresses)
=============================================================================

-------------------------- MODULE MCChallengeStore ---------------------------
(* A small instance of ChallengeStore: two wallets at most, whose requests   *)
(* are interchangeable.                                                      *)
EXTENDS ChallengeStore, TLC

CONSTANTS q1, q2, q3, q4, d1, d2, w1, w2

Interchangeable ==
    Permutations(Req) \cup Permutations(Caller) \cup Permutations(Wallet)
=============================================================================

-------------------------- MODULE MCRevocationFeed ---------------------------
(* Small instances of RevocationFeed: a few packs whose revocations are      *)
(* interchangeable.                                                          *)
EXTENDS RevocationFeed, TLC

CONSTANTS p1, p2, p3

Interchangeable == Permutations(Pack)
=============================================================================

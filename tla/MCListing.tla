----------------------------- MODULE MCListing ------------------------------
(* Small instances of Listing for TLC. *)
EXTENDS Listing, TLC

CONSTANTS w1, w2

\* Writers are alike.
Interchangeable == Permutations(Writer)
=============================================================================

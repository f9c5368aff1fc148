----------------------------- MODULE MCListings -----------------------------
(***************************************************************************)
(* TLC instances of Listings.                                              *)
(***************************************************************************)
EXTENDS Listings

\* Below zero, below the cap, at it and past it.
AskedSizes == {-1, 1, 2, 3}
=============================================================================

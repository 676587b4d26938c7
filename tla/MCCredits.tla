----------------------------- MODULE MCCredits -----------------------------
(* Three people who invite one another, with two bookings. *)
EXTENDS Credits, TLC

Symmetry == Permutations(People) \cup Permutations(Bookings) \cup Permutations(Calls)
=============================================================================

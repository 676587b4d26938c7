----------------------------- MODULE MCAccounts -----------------------------
(* One phone number, one device and one session. *)
EXTENDS Accounts, TLC

Symmetry ==
  Permutations(Codes)
    \cup Permutations(Rotations) \cup Permutations(Pages)
=============================================================================

----------------------------- MODULE MCPayments -----------------------------
(* Bookings with rent 14: with a fee and a deposit, without both, and half *)
(* paid with referral credit.                                              *)
EXTENDS Payments

CashOnly == [rent |-> 14, fee |-> 1, deposit |-> 4, credit |-> 0]

NoDeposit == [rent |-> 14, fee |-> 0, deposit |-> 0, credit |-> 0]

CreditNoDeposit == [rent |-> 14, fee |-> 0, deposit |-> 0, credit |-> 7]

Expires == {"EXPIRED"}

ExpiresOrIsCancelled == {"EXPIRED", "CANCELLED"}

NothingKept == {0}

SomeKept == {0, 3}

NoGoodwill == {}

SomeGoodwill == {2}

(* Requests other than the closer are alike. *)
Symmetry == Permutations(Requests \ {Closer})

=============================================================================

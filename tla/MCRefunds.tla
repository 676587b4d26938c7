----------------------------- MODULE MCRefunds ------------------------------
(* One order of a booking with rent 15, fee 1 and deposit 4, of which 5    *)
(* was paid with referral credit: a cancellation gives half the rent back, *)
(* credit first; an admin may give goodwill, of which there is not enough  *)
(* left after the cancellation.                                            *)
EXTENDS Refunds

FifteenEach == [p \in Orders |-> 15]

Cancellation(p) ==
  [order |-> p, kind |-> "CANCELLATION", cash |-> 7,
   amounts |-> [rent |-> 8, fee |-> 0, deposit |-> 4, credit |-> 5]]

Goodwill(p) == [order |-> p, kind |-> "MANUAL", cash |-> 9, amounts |-> NoAmounts]

Nothing(p) == [order |-> p, kind |-> "CANCELLATION", cash |-> 0, amounts |-> NoAmounts]

AnyCaller ==
  UNION {{Cancellation(p), Goodwill(p), Nothing(p)} : p \in Orders}

=============================================================================

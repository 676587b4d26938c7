----------------------------- MODULE MCPayouts ------------------------------
(* A booking with rent 15, of which the lender's share is 13; the lender   *)
(* keeps 3 of the deposit.                                                 *)
EXTENDS Payouts

Activation == {"ACTIVATED"}

=============================================================================

---------------------------- MODULE RefundPolicy ----------------------------
(***************************************************************************)
(* What a cancelled paid booking gives back (refundFor in booking-rules.ts *)
(* and creditBackFor in referrals/credits.ts).  The tier depends on who    *)
(* cancelled and when (RefundTier in BookingRules); the deposit is always  *)
(* returned in full.                                                       *)
(***************************************************************************)
EXTENDS Integers

Tiers == {"FULL", "HALF_RENT", "DEPOSIT_ONLY"}

Half(amount) == (amount + 1) \div 2       \* Math.round(amount / 2)

RentBack(tier, rent) ==
  CASE tier = "FULL" -> rent [] tier = "HALF_RENT" -> Half(rent) [] OTHER -> 0

FeeBack(tier, fee) == IF tier = "FULL" THEN fee ELSE 0

(* Credit is returned first, as credit. *)
CreditBack(credit, rentBack) == IF credit < rentBack THEN credit ELSE rentBack

(* The parts of a refund of booking b. *)
Refund(tier, b) ==
  [rent |-> RentBack(tier, b.rent), fee |-> FeeBack(tier, b.fee), deposit |-> b.deposit,
   credit |-> CreditBack(b.credit, RentBack(tier, b.rent))]

=============================================================================

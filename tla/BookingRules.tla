---------------------------- MODULE BookingRules ----------------------------
(***************************************************************************)
(* The booking rules of apps/api (booking-rules.ts): which party may take  *)
(* which step from which status, the deadline every step runs against, the *)
(* late fee and the cancellation refund.  Pure operators, no state: the    *)
(* modules that change bookings EXTEND this one.                           *)
(*                                                                         *)
(* Time is counted in ticks.  A calendar date is a number d whose midnight *)
(* UTC is tick d * Day; people rent by Indian days, which start IstOffset  *)
(* ticks before the UTC ones (5 h 30 in the code).                         *)
(***************************************************************************)
EXTENDS Integers

CONSTANTS
  Day,            \* ticks in a day (DAY_MS)
  IstOffset,      \* how far the Indian day is ahead of UTC (IST_OFFSET_MS)
  RequestWindow,  \* BOOKING_REQUEST_TTL_MIN
  DocsWindow,     \* BOOKING_DOCS_TTL_MIN
  PaymentWindow   \* BOOKING_PAYMENT_TTL_MIN

ASSUME TimeAssumption ==
  /\ Day \in Nat \ {0}
  /\ IstOffset \in 0..(Day - 1)
  /\ RequestWindow \in Nat \ {0}
  /\ DocsWindow \in Nat \ {0}
  /\ PaymentWindow \in Nat \ {0}

NoTime == -1      \* a null timestamp

----------------------------------------------------------------------------
(* Statuses *)

Open == {"REQUESTED", "AWAITING_DOCS", "AWAITING_PAYMENT", "CONFIRMED",
         "ACTIVE", "RETURNED", "DISPUTED"}

Held == {"AWAITING_PAYMENT", "CONFIRMED", "ACTIVE", "RETURNED", "DISPUTED"}

Paid == {"CONFIRMED", "ACTIVE", "RETURNED", "COMPLETED", "DISPUTED"}

Rental == {"ACTIVE", "RETURNED", "DISPUTED"}

Closed == {"DECLINED", "EXPIRED", "CANCELLED", "COMPLETED"}

Statuses == Open \cup Closed

(* Before payment: what the expiry timer may close (EXPIRABLE). *)
Expirable == {"REQUESTED", "AWAITING_DOCS", "AWAITING_PAYMENT"}

----------------------------------------------------------------------------
(* Points in time *)

RentalStart(startsOn) == startsOn * Day - IstOffset

RentalEnd(endsOn) == endsOn * Day + Day - IstOffset

HandoverOpensAt(startsOn) == RentalStart(startsOn) - Day

ClaimWindow == Day           \* CLAIM_WINDOW_HOURS = 24

ClaimUntil(returnedAt) == returnedAt + ClaimWindow

NotReturnedAfterDays == 2

OverdueFrom(endsOn) == RentalEnd(endsOn) + NotReturnedAfterDays * Day

LastChance(startsOn) == (startsOn + 1) * Day     \* addDays(startsOn, 1)

Earlier(s, t) == IF s < t THEN s ELSE t

(* deadlineFor: when the step the booking is now in times out. *)
Window(status) ==
  CASE status = "REQUESTED"        -> RequestWindow
    [] status = "AWAITING_DOCS"    -> DocsWindow
    [] status = "AWAITING_PAYMENT" -> PaymentWindow

DeadlineFor(status, startsOn, now) ==
  CASE status = "RETURNED"   -> ClaimUntil(now)
    [] status \in Expirable  -> Earlier(now + Window(status), LastChance(startsOn))
    [] OTHER                 -> NoTime

----------------------------------------------------------------------------
(* nextStatus: Permits says who may act and when, Target where it leads.   *)
(* b is a booking: status, startsOn, endsOn, docsSubmitted, returnedAt.    *)

MayCancel(party, status) ==
  \/ party = "ADMIN"    /\ status \in Open \ Rental
  \/ party = "BORROWER" /\ status \in Expirable \cup {"CONFIRMED"}
  \/ party = "LENDER"   /\ status \in {"AWAITING_DOCS", "AWAITING_PAYMENT", "CONFIRMED"}

MayDispute(b, now) ==
  \/ b.status = "RETURNED" /\ b.returnedAt # NoTime /\ now < ClaimUntil(b.returnedAt)
  \/ b.status = "ACTIVE" /\ now >= OverdueFrom(b.endsOn)

Permits(action, party, b, now) ==
  \/ /\ action \in {"accept", "decline"} /\ party = "LENDER" /\ b.status = "REQUESTED"
  \/ /\ action = "cancel" /\ MayCancel(party, b.status)
  \/ /\ action = "submitDocs" /\ party = "BORROWER"
     /\ b.status = "AWAITING_DOCS" /\ ~b.docsSubmitted
  \/ /\ action \in {"approveDocs", "rejectDocs"} /\ party = "LENDER"
     /\ b.status = "AWAITING_DOCS" /\ b.docsSubmitted
  \/ /\ action = "confirmPayment" /\ party = "SYSTEM" /\ b.status = "AWAITING_PAYMENT"
  \/ /\ action = "expire" /\ party = "SYSTEM" /\ b.status \in Expirable
  \/ /\ action = "handOver" /\ party = "LENDER" /\ b.status = "CONFIRMED"
     /\ now >= HandoverOpensAt(b.startsOn) /\ now < RentalEnd(b.endsOn)
  \/ /\ action = "markReturned" /\ party = "BORROWER" /\ b.status = "ACTIVE"
  \/ /\ action = "noShow" /\ party = "LENDER" /\ b.status = "CONFIRMED"
     /\ now >= RentalStart(b.startsOn)
  \/ /\ action = "openDispute" /\ party = "LENDER" /\ MayDispute(b, now)
  \/ /\ action = "complete" /\ party = "SYSTEM" /\ b.status = "RETURNED"
  \/ /\ action = "resolveDispute" /\ party = "ADMIN" /\ b.status = "DISPUTED"

Target(action, asksDocs) ==
  CASE action = "accept"         -> IF asksDocs THEN "AWAITING_DOCS" ELSE "AWAITING_PAYMENT"
    [] action = "submitDocs"     -> "AWAITING_DOCS"
    [] action = "approveDocs"    -> "AWAITING_PAYMENT"
    [] action = "confirmPayment" -> "CONFIRMED"
    [] action = "handOver"       -> "ACTIVE"
    [] action = "markReturned"   -> "RETURNED"
    [] action = "openDispute"    -> "DISPUTED"
    [] action = "expire"         -> "EXPIRED"
    [] action \in {"decline", "rejectDocs"}       -> "DECLINED"
    [] action \in {"cancel", "noShow"}            -> "CANCELLED"
    [] action \in {"complete", "resolveDispute"}  -> "COMPLETED"

----------------------------------------------------------------------------
(* Money: late fee and cancellation refund *)

LateDays(endsOn, returnedAt) ==
  LET late == returnedAt - RentalEnd(endsOn)
  IN  IF late > 0 THEN (late + Day - 1) \div Day ELSE 0

LateFee(lateDays, pricePerDay, deposit) == Earlier(lateDays * pricePerDay, deposit)

MaxKeepable(deposit, lateFee) == IF deposit > lateFee THEN deposit - lateFee ELSE 0

RefundTier(startsOn, cancelledBy, now) ==
  LET before == RentalStart(startsOn) - now
  IN  CASE cancelledBy # "BORROWER" \/ before > 2 * Day -> "FULL"
        [] cancelledBy = "BORROWER" /\ before <= 2 * Day /\ before >= Day -> "HALF_RENT"
        [] OTHER -> "DEPOSIT_ONLY"

=============================================================================

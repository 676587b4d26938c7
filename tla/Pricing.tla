------------------------------ MODULE Pricing ------------------------------
(***************************************************************************)
(* What a rental costs (listings/pricing.ts, listing-rules.ts,             *)
(* chat/offer-rules.ts) and the amounts a new booking is written with,     *)
(* from a request at the listed price or from an accepted offer, with the  *)
(* referral credit taken off.  Pure operators over paise and dates; a      *)
(* date is the number of its day.                                          *)
(***************************************************************************)
EXTENDS Integers

(* The ranges of LISTING_RULES, which the CHECKs of the listings table     *)
(* repeat.  blocks: ranges of dates, the lender's own and, for a request,  *)
(* those held by bookings.                                                 *)
MinPrice == 1000
MaxPrice == 1000 * 1000
PriceRange == MinPrice..MaxPrice
MaxDeposit == 5 * MaxPrice
MaxDays == 90

Listings ==
  [price : PriceRange, discountPct : 0..50, deposit : 0..MaxDeposit,
   minDays : 1..MaxDays, maxDays : 1..MaxDays, notice : 0..7,
   blocks : SUBSET [first : Nat, last : Nat]]

WeekDays == 7

(* Both the first and the last day count. *)
RentalDays(first, last) == last - first + 1

Percent(amount, pct) == (amount * pct + 50) \div 100     \* Math.round(amount * pct / 100)

Discount(listing, days) ==
  IF days >= WeekDays THEN Percent(listing.price * days, listing.discountPct) ELSE 0

RentFor(listing, days) == listing.price * days - Discount(listing, days)

BorrowerFeeBps == 0

FeeOn(rent) == (rent * BorrowerFeeBps + 5000) \div 10000

(* available, of quote() *)
Available(listing, first, last, today) ==
  /\ RentalDays(first, last) \in listing.minDays..listing.maxDays
  /\ first >= today + listing.notice
  /\ \A b \in listing.blocks : ~(b.first <= last /\ b.last >= first)

----------------------------------------------------------------------------
(* The amounts of a booking.                                               *)

CreditLimit(rent) == (rent * 5000) \div 10000            \* Math.floor

(* holdCredit: as much as the person has, up to the limit.                 *)
HeldCredit(balance, rent) ==
  IF balance <= 0 THEN 0 ELSE IF balance < CreditLimit(rent) THEN balance ELSE CreditLimit(rent)

BookingOf(rent, deposit, balance) ==
  [rent |-> rent, fee |-> FeeOn(rent), deposit |-> deposit, credit |-> HeldCredit(balance, rent)]

(* request() *)
RequestedBooking(listing, first, last, balance) ==
  BookingOf(RentFor(listing, RentalDays(first, last)), listing.deposit, balance)

(* propose() and createFromOffer(): the agreed price, without the weekly   *)
(* discount, and the listing's deposit.                                    *)
OfferedBooking(listing, price, first, last, balance) ==
  BookingOf(price * RentalDays(first, last), listing.deposit, balance)

=============================================================================

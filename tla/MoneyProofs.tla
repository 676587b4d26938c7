----------------------------- MODULE MoneyProofs -----------------------------
(***************************************************************************)
(* The arithmetic of money, for every amount and every date.  The ledger:  *)
(* every posting balances and has no negative line (so that post() in      *)
(* ledger.service.ts never throws), at every commission, and rounding      *)
(* leaves nothing behind, however a booking ends.  The policy: it never    *)
(* refunds more than was paid, a later cancellation never gives more back, *)
(* and a late fee and a claim together are never more than the deposit.    *)
(* The prices: what a listing may ask for, what the ledger assumes of a    *)
(* booking and what the constraints of the tables refuse, fit together.    *)
(* The refunds: the ledger says what went back to borrowers, and Razorpay  *)
(* is asked once, in any interleaving of callers, retries and webhooks.    *)
(* The referral credit: nobody overspends it, and none is made or lost.    *)
(***************************************************************************)
EXTENDS Pricing, BookingRules, RefundPolicy, Refunds, Credits, SumsAndLists

AmountsOf(a) ==
  a \in [rent : Nat, fee : Nat, deposit : Nat, credit : Nat]

(* A booking's credit never covers more than its rent (creditLimitFor in   *)
(* referrals/credits.ts lines 19-22).                                      *)
IsBooking(b) == AmountsOf(b) /\ b.credit <= b.rent

(* A refund of booking b: at most its rent and fee, and no more credit     *)
(* than rent.                                                              *)
IsRefundOf(r, b) ==
  /\ AmountsOf(r)
  /\ r.rent <= b.rent
  /\ r.fee <= b.fee
  /\ r.deposit <= b.deposit
  /\ r.credit <= r.rent

----------------------------------------------------------------------------
(* The commission *)

(* The product with a commission of at most 100% is bounded.               *)
LEMMA ProductBounded ==
  ASSUME NEW n \in Nat
  PROVE  n * Bps \in 0..(10000 * n)
  BY BpsAssumption, SMT

(* The commission is a part of the rent, so that the lender's share is one *)
(* too (commissionOn and lenderShare).                                     *)
LEMMA CommissionInRent ==
  ASSUME NEW n \in Nat
  PROVE  CommissionOn(n) \in 0..n
<1> DEFINE p == n * Bps
<1>1. p \in 0..(10000 * n)
  BY ProductBounded
<1>2. (p + 5000) \div 10000 \in 0..n
  <2> HIDE DEF p
  <2> QED BY <1>1, SMT
<1> QED BY <1>2 DEF CommissionOn

(* More rent means no less commission and no less for the lender, however  *)
(* the two are rounded.                                                    *)
LEMMA CommissionMonotone ==
  ASSUME NEW m \in Nat, NEW n \in Nat, m <= n
  PROVE  CommissionOn(n) - CommissionOn(m) \in 0..(n - m)
<1> DEFINE p == m * Bps
           q == (n - m) * Bps
<1>1. p \in 0..(10000 * m)
  BY ProductBounded
<1>2. n - m \in Nat
  OBVIOUS
<1>3. q \in 0..(10000 * (n - m))
  BY <1>2, ProductBounded
<1>4. n * Bps = p + q
  BY BpsAssumption, SMT
<1>5. (p + q + 5000) \div 10000 - (p + 5000) \div 10000 \in 0..(n - m)
  <2> HIDE DEF p, q
  <2> QED BY <1>1, <1>2, <1>3, SMT
<1> QED BY <1>4, <1>5 DEF CommissionOn

----------------------------------------------------------------------------
(* Balance *)

(* What the lines of a posting must satisfy, account by account.           *)
LEMMA AccountsAre ==
  Accounts = {"GATEWAY", "DEPOSIT_HELD", "LENDER_PAYABLE", "PLATFORM_REVENUE",
              "GOODWILL", "PROMOTIONS"}
  BY DEF Accounts, Zero

NaturalLines(x) ==
  /\ x.GATEWAY \in Nat /\ x.DEPOSIT_HELD \in Nat /\ x.LENDER_PAYABLE \in Nat
  /\ x.PLATFORM_REVENUE \in Nat /\ x.GOODWILL \in Nat /\ x.PROMOTIONS \in Nat

LEMMA BalancedLines ==
  ASSUME NEW x, NEW y, NaturalLines(x), NaturalLines(y), Total(x) = Total(y)
  PROVE  IsBalanced([debit |-> x, credit |-> y])
<1>1. \A a \in Accounts : x[a] >= 0 /\ y[a] >= 0
  BY AccountsAre DEF NaturalLines
<1> QED BY <1>1 DEF IsBalanced

(* The commission that is given back is a part of the rent given back.     *)
LEMMA CommissionBackInRent ==
  ASSUME NEW b, NEW r, IsBooking(b), IsRefundOf(r, b)
  PROVE  CommissionBack(r, b.rent) \in 0..r.rent
<1>1. b.rent \in Nat /\ r.rent \in Nat /\ r.rent <= b.rent
  BY DEF IsBooking, IsRefundOf, AmountsOf
<1>2. b.rent - r.rent \in Nat /\ b.rent - r.rent <= b.rent /\ b.rent - (b.rent - r.rent) = r.rent
  BY <1>1
<1> QED BY <1>1, <1>2, CommissionMonotone DEF CommissionBack

(* The lines of a capture.                                                 *)
LEMMA CaptureLines ==
  ASSUME NEW b, IsBooking(b)
  PROVE  LET lines == CapturePostings(b)
         IN  /\ lines = [debit |-> lines.debit, credit |-> lines.credit]
             /\ NaturalLines(lines.debit) /\ NaturalLines(lines.credit)
             /\ Total(lines.debit) = CashOf(b) + b.credit
             /\ Total(lines.credit) = b.deposit + b.rent + b.fee
             /\ lines.credit.LENDER_PAYABLE = LenderShare(b.rent)
             /\ lines.debit.LENDER_PAYABLE = 0
             /\ lines.credit.DEPOSIT_HELD = b.deposit
             /\ lines.debit.DEPOSIT_HELD = 0
<1>1. /\ b.rent \in Nat /\ b.fee \in Nat /\ b.deposit \in Nat /\ b.credit \in Nat
      /\ b.credit <= b.rent
  BY DEF IsBooking, AmountsOf
<1> DEFINE c == CommissionOn(b.rent)
           x == [Zero EXCEPT !.GATEWAY = CashOf(b), !.PROMOTIONS = b.credit]
           y == [Zero EXCEPT !.DEPOSIT_HELD = b.deposit,
                             !.LENDER_PAYABLE = LenderShare(b.rent),
                             !.PLATFORM_REVENUE = c + b.fee]
<1>2. c \in 0..b.rent
  BY <1>1, CommissionInRent
<1>3. LenderShare(b.rent) = b.rent - c
  BY DEF LenderShare
<1> HIDE DEF c
<1>4. CashOf(b) \in Nat /\ b.rent - c \in Nat /\ c + b.fee \in Nat
  BY <1>1, <1>2 DEF CashOf
<1>5. /\ x.GATEWAY = CashOf(b) /\ x.PROMOTIONS = b.credit /\ x.DEPOSIT_HELD = 0
      /\ x.LENDER_PAYABLE = 0 /\ x.PLATFORM_REVENUE = 0 /\ x.GOODWILL = 0
  BY DEF Zero
<1>6. /\ y.DEPOSIT_HELD = b.deposit /\ y.LENDER_PAYABLE = LenderShare(b.rent)
      /\ y.PLATFORM_REVENUE = c + b.fee /\ y.GATEWAY = 0 /\ y.GOODWILL = 0
      /\ y.PROMOTIONS = 0
  BY DEF Zero
<1>7. CapturePostings(b) = [debit |-> x, credit |-> y]
  BY DEF CapturePostings, c
<1> HIDE DEF x, y
<1>8. NaturalLines(x) /\ NaturalLines(y)
  BY <1>1, <1>3, <1>4, <1>5, <1>6 DEF NaturalLines
<1>9. Total(x) = CashOf(b) + b.credit /\ Total(y) = b.deposit + b.rent + b.fee
  BY <1>1, <1>2, <1>3, <1>4, <1>5, <1>6 DEF Total
<1> QED BY <1>5, <1>6, <1>7, <1>8, <1>9

(* The posting of a capture balances: what came in is what is held, owed   *)
(* and earned (capturePostings).                                           *)
THEOREM CaptureBalances ==
  ASSUME NEW b, IsBooking(b)
  PROVE  IsBalanced(CapturePostings(b))
<1> DEFINE x == CapturePostings(b).debit
           y == CapturePostings(b).credit
<1>1. CashOf(b) + b.credit = b.deposit + b.rent + b.fee
  BY DEF CashOf, IsBooking, AmountsOf
<1>2. /\ CapturePostings(b) = [debit |-> x, credit |-> y]
      /\ NaturalLines(x) /\ NaturalLines(y) /\ Total(x) = Total(y)
  BY <1>1, CaptureLines
<1> HIDE DEF x, y
<1> QED BY <1>2, BalancedLines

(* The lines of a refund.                                                  *)
LEMMA RefundLines ==
  ASSUME NEW b, NEW r, IsBooking(b), IsRefundOf(r, b)
  PROVE  LET lines == RefundPostings(r, b.rent)
         IN  /\ lines = [debit |-> lines.debit, credit |-> lines.credit]
             /\ NaturalLines(lines.debit) /\ NaturalLines(lines.credit)
             /\ Total(lines.debit) = r.deposit + r.rent + r.fee
             /\ Total(lines.credit) = CashOf(r) + r.credit
             /\ lines.debit.LENDER_PAYABLE = r.rent - CommissionBack(r, b.rent)
             /\ lines.credit.LENDER_PAYABLE = 0
             /\ lines.debit.DEPOSIT_HELD = r.deposit
             /\ lines.credit.DEPOSIT_HELD = 0
<1>1. /\ r.rent \in Nat /\ r.fee \in Nat /\ r.deposit \in Nat /\ r.credit \in Nat
      /\ r.credit <= r.rent
  BY DEF IsRefundOf, AmountsOf
<1> DEFINE back == CommissionBack(r, b.rent)
           x == [Zero EXCEPT !.DEPOSIT_HELD = r.deposit,
                             !.LENDER_PAYABLE = r.rent - back,
                             !.PLATFORM_REVENUE = back + r.fee]
           y == [Zero EXCEPT !.GATEWAY = CashOf(r), !.PROMOTIONS = r.credit]
<1>2. back \in 0..r.rent
  BY CommissionBackInRent
<1>7. RefundPostings(r, b.rent) = [debit |-> x, credit |-> y]
  BY DEF RefundPostings
<1> HIDE DEF back
<1>4. CashOf(r) \in Nat /\ r.rent - back \in Nat /\ back + r.fee \in Nat
  BY <1>1, <1>2 DEF CashOf
<1>5. /\ y.GATEWAY = CashOf(r) /\ y.PROMOTIONS = r.credit /\ y.DEPOSIT_HELD = 0
      /\ y.LENDER_PAYABLE = 0 /\ y.PLATFORM_REVENUE = 0 /\ y.GOODWILL = 0
  BY DEF Zero
<1>6. /\ x.DEPOSIT_HELD = r.deposit /\ x.LENDER_PAYABLE = r.rent - back
      /\ x.PLATFORM_REVENUE = back + r.fee /\ x.GATEWAY = 0 /\ x.GOODWILL = 0
      /\ x.PROMOTIONS = 0
  BY DEF Zero
<1> HIDE DEF x, y
<1>8. NaturalLines(x) /\ NaturalLines(y)
  BY <1>1, <1>4, <1>5, <1>6 DEF NaturalLines
<1>9. Total(y) = CashOf(r) + r.credit /\ Total(x) = r.deposit + r.rent + r.fee
  BY <1>1, <1>2, <1>4, <1>5, <1>6 DEF Total
<1> QED BY <1>5, <1>6, <1>7, <1>8, <1>9 DEF back

(* The posting of a refund balances, and takes nothing from the lender or  *)
(* from Nivra that they were not given (refundPostings).                   *)
THEOREM RefundBalances ==
  ASSUME NEW b, NEW r, IsBooking(b), IsRefundOf(r, b)
  PROVE  IsBalanced(RefundPostings(r, b.rent))
<1> DEFINE x == RefundPostings(r, b.rent).debit
           y == RefundPostings(r, b.rent).credit
<1>1. CashOf(r) + r.credit = r.deposit + r.rent + r.fee
  BY DEF CashOf, IsRefundOf, AmountsOf
<1>2. /\ RefundPostings(r, b.rent) = [debit |-> x, credit |-> y]
      /\ NaturalLines(x) /\ NaturalLines(y) /\ Total(x) = Total(y)
  BY <1>1, RefundLines
<1> HIDE DEF x, y
<1> QED BY <1>2, BalancedLines

(* Every other posting moves an amount between two different accounts and  *)
(* balances too (goodwillPostings, transferPostings, depositKeepPostings,  *)
(* reversalPostings).                                                      *)
THEOREM MovesBalance ==
  ASSUME NEW amount \in Nat
  PROVE  /\ IsBalanced(GoodwillPostings(amount))
         /\ IsBalanced(TransferPostings(amount))
         /\ IsBalanced(DepositKeepPostings(amount))
         /\ IsBalanced(ReversalPostings(amount))
<1> SUFFICES ASSUME NEW from \in Accounts, NEW to \in Accounts
             PROVE  IsBalanced(Move(from, to, amount))
  BY AccountsAre DEF GoodwillPostings, TransferPostings, DepositKeepPostings, ReversalPostings
<1> DEFINE one(a) == [Zero EXCEPT ![a] = amount]
<1>1. ASSUME NEW a \in Accounts
      PROVE  NaturalLines(one(a)) /\ Total(one(a)) = amount
  <2>1. /\ one(a).GATEWAY = IF a = "GATEWAY" THEN amount ELSE 0
        /\ one(a).DEPOSIT_HELD = IF a = "DEPOSIT_HELD" THEN amount ELSE 0
        /\ one(a).LENDER_PAYABLE = IF a = "LENDER_PAYABLE" THEN amount ELSE 0
        /\ one(a).PLATFORM_REVENUE = IF a = "PLATFORM_REVENUE" THEN amount ELSE 0
        /\ one(a).GOODWILL = IF a = "GOODWILL" THEN amount ELSE 0
        /\ one(a).PROMOTIONS = IF a = "PROMOTIONS" THEN amount ELSE 0
    BY DEF Zero
  <2> HIDE DEF one
  <2> QED BY <2>1, AccountsAre DEF NaturalLines, Total
<1>2. Move(from, to, amount) = [debit |-> one(from), credit |-> one(to)]
  BY DEF Move
<1> HIDE DEF one
<1> QED BY <1>1, <1>2, BalancedLines

----------------------------------------------------------------------------
(* What is left when a booking has ended *)

(* Rounding leaves nothing behind: after a capture and a refund, the       *)
(* lender is owed exactly the share of the rent that was kept, which is    *)
(* what their transfer then sends (keepRent in payouts.service.ts), and    *)
(* the deposit account holds what the refund did not return.               *)
THEOREM LenderOwedShareOfKeptRent ==
  ASSUME NEW b, NEW r, IsBooking(b), IsRefundOf(r, b)
  PROVE  LET after == Posted(Posted(Zero, CapturePostings(b)), RefundPostings(r, b.rent))
         IN  /\ after["LENDER_PAYABLE"] = LenderShare(b.rent - r.rent)
             /\ after["DEPOSIT_HELD"] = b.deposit - r.deposit
<1>1. /\ b.rent \in Nat /\ b.deposit \in Nat /\ r.rent \in Nat /\ r.deposit \in Nat
      /\ r.rent <= b.rent
  BY DEF IsBooking, IsRefundOf, AmountsOf
<1>2. CommissionOn(b.rent) \in Nat /\ CommissionOn(b.rent - r.rent) \in Nat
  BY <1>1, CommissionInRent
<1> DEFINE captured == CapturePostings(b)
           refunded == RefundPostings(r, b.rent)
<1>3. \A a \in Accounts :
        Posted(Posted(Zero, captured), refunded)[a] =
          Zero[a] + captured.credit[a] - captured.debit[a] + refunded.credit[a] - refunded.debit[a]
  BY DEF Posted
<1>4. /\ captured.credit["LENDER_PAYABLE"] = LenderShare(b.rent)
      /\ captured.debit["LENDER_PAYABLE"] = 0
      /\ captured.credit["DEPOSIT_HELD"] = b.deposit
      /\ captured.debit["DEPOSIT_HELD"] = 0
  BY CaptureLines
<1>5. /\ refunded.debit["LENDER_PAYABLE"] = r.rent - CommissionBack(r, b.rent)
      /\ refunded.credit["LENDER_PAYABLE"] = 0
      /\ refunded.debit["DEPOSIT_HELD"] = r.deposit
      /\ refunded.credit["DEPOSIT_HELD"] = 0
  BY RefundLines
<1>6. Zero["LENDER_PAYABLE"] = 0 /\ Zero["DEPOSIT_HELD"] = 0
  BY DEF Zero
<1> HIDE DEF captured, refunded
<1>7. LenderShare(b.rent) - (r.rent - CommissionBack(r, b.rent)) = LenderShare(b.rent - r.rent)
  BY <1>1, <1>2 DEF LenderShare, CommissionBack
<1>8. LenderShare(b.rent) \in Int /\ CommissionBack(r, b.rent) \in Int
  BY <1>1, <1>2 DEF LenderShare, CommissionBack
<1>9. "LENDER_PAYABLE" \in Accounts /\ "DEPOSIT_HELD" \in Accounts
  BY AccountsAre
<1> QED BY <1>1, <1>3, <1>4, <1>5, <1>6, <1>7, <1>8, <1>9 DEF captured, refunded

(* What a cancellation gives back is a refund of the booking, whoever      *)
(* cancelled and however late: never more of any part than was paid, and   *)
(* the whole deposit (refundFor, creditBackFor).                           *)
THEOREM PolicyWithinPayment ==
  ASSUME NEW b, NEW tier \in Tiers, IsBooking(b)
  PROVE  /\ IsRefundOf(Refund(tier, b), b)
         /\ Refund(tier, b).deposit = b.deposit
         /\ CashOf(Refund(tier, b)) \in 0..CashOf(b)
<1>1. /\ b.rent \in Nat /\ b.fee \in Nat /\ b.deposit \in Nat /\ b.credit \in Nat
      /\ b.credit <= b.rent
  BY DEF IsBooking, AmountsOf
<1> DEFINE back == RentBack(tier, b.rent)
           fee == FeeBack(tier, b.fee)
           credit == CreditBack(b.credit, back)
<1>2. back \in 0..b.rent
  BY <1>1 DEF RentBack, Half, Tiers
<1>3. fee \in 0..b.fee
  BY <1>1 DEF FeeBack
<1>4. Refund(tier, b) = [rent |-> back, fee |-> fee, deposit |-> b.deposit, credit |-> credit]
  BY DEF Refund
<1> HIDE DEF back, fee
<1>5. credit \in 0..back /\ b.credit - credit >= 0 /\ b.credit - credit <= b.rent - back
  BY <1>1, <1>2 DEF CreditBack
<1> HIDE DEF credit
<1>6. IsRefundOf(Refund(tier, b), b)
  BY <1>1, <1>2, <1>3, <1>4, <1>5 DEF IsRefundOf, AmountsOf
<1>7. CashOf(Refund(tier, b)) = back + fee + b.deposit - credit
  BY <1>4 DEF CashOf
<1>8. CashOf(b) = b.rent + b.fee + b.deposit - b.credit
  BY DEF CashOf
<1> QED BY <1>1, <1>2, <1>3, <1>4, <1>5, <1>6, <1>7, <1>8

(* So a policy refund always posts.                                        *)
COROLLARY PolicyRefundBalances ==
  ASSUME NEW b, NEW tier \in Tiers, IsBooking(b)
  PROVE  IsBalanced(RefundPostings(Refund(tier, b), b.rent))
BY PolicyWithinPayment, RefundBalances

----------------------------------------------------------------------------
(* What time does to money.                                                *)

CashBack(b, startsOn, party, now) == CashOf(Refund(RefundTier(startsOn, party, now), b))

(* The tiers, by what is left of the time before the rental starts.        *)
LEMMA TierOf ==
  ASSUME NEW startsOn \in Nat, NEW now \in Int, NEW party
  PROVE  LET before == RentalStart(startsOn) - now
         IN  RefundTier(startsOn, party, now) =
               IF party # "BORROWER" \/ before > 2 * Day THEN "FULL"
               ELSE IF before >= Day THEN "HALF_RENT" ELSE "DEPOSIT_ONLY"
<1> DEFINE before == RentalStart(startsOn) - now
<1>1. Day \in Nat \ {0} /\ IstOffset \in Nat
  BY TimeAssumption
<1>2. startsOn * Day \in Int
  BY <1>1
<1>3. before \in Int
  BY <1>1, <1>2 DEF RentalStart
<1>4. CASE party # "BORROWER" \/ before > 2 * Day
  <2>1. ~(party = "BORROWER" /\ before <= 2 * Day /\ before >= Day)
    BY <1>1, <1>3, <1>4
  <2> QED BY <1>4, <2>1 DEF RefundTier
<1>5. CASE ~(party # "BORROWER" \/ before > 2 * Day)
  <2>1. party = "BORROWER" /\ before <= 2 * Day
    BY <1>1, <1>3, <1>5
  <2> QED BY <1>5, <2>1 DEF RefundTier
<1> QED BY <1>4, <1>5

(* The cash of each tier.                                                  *)
LEMMA CashOfTier ==
  ASSUME NEW b, b \in [rent : Nat, fee : Nat, deposit : Nat, credit : Nat], b.credit <= b.rent
  PROVE  /\ CashOf(Refund("FULL", b)) = CashOf(b)
         /\ CashOf(Refund("HALF_RENT", b)) =
              b.deposit + (IF b.credit < Half(b.rent) THEN Half(b.rent) - b.credit ELSE 0)
         /\ CashOf(Refund("DEPOSIT_ONLY", b)) = b.deposit
         /\ Half(b.rent) \in 0..b.rent
<1>1. b.rent \in Nat /\ b.fee \in Nat /\ b.deposit \in Nat /\ b.credit \in Nat
  OBVIOUS
<1>2. Half(b.rent) \in 0..b.rent
  BY <1>1 DEF Half
<1> QED BY <1>1, <1>2 DEF CashOf, Refund, RentBack, FeeBack, CreditBack

(* Waiting never pays: a borrower who cancels later gets no more cash back *)
(* than one who cancels earlier, at every boundary of the policy and with  *)
(* any referral credit (refundFor, creditBackFor).                         *)
THEOREM LaterCancellationsGiveLess ==
  ASSUME NEW b, b \in [rent : Nat, fee : Nat, deposit : Nat, credit : Nat], b.credit <= b.rent,
         NEW startsOn \in Nat, NEW now \in Int, NEW later \in Int, now <= later
  PROVE  CashBack(b, startsOn, "BORROWER", later) <= CashBack(b, startsOn, "BORROWER", now)
<1> DEFINE left == RentalStart(startsOn) - now
           less == RentalStart(startsOn) - later
<1>1. Day \in Nat \ {0} /\ IstOffset \in Nat /\ startsOn * Day \in Int
  BY TimeAssumption
<1>2. left \in Int /\ less \in Int /\ less <= left
  BY <1>1 DEF RentalStart
<1>3. RefundTier(startsOn, "BORROWER", now) =
        IF left > 2 * Day THEN "FULL" ELSE IF left >= Day THEN "HALF_RENT" ELSE "DEPOSIT_ONLY"
  BY TierOf
<1>4. RefundTier(startsOn, "BORROWER", later) =
        IF less > 2 * Day THEN "FULL" ELSE IF less >= Day THEN "HALF_RENT" ELSE "DEPOSIT_ONLY"
  BY TierOf
<1>5. b.rent \in Nat /\ b.fee \in Nat /\ b.deposit \in Nat /\ b.credit \in Nat
  OBVIOUS
<1>6. CashOf(b) = b.rent + b.fee + b.deposit - b.credit
  BY DEF CashOf
<1>7. /\ CashOf(Refund("DEPOSIT_ONLY", b)) <= CashOf(Refund("HALF_RENT", b))
      /\ CashOf(Refund("HALF_RENT", b)) <= CashOf(Refund("FULL", b))
      /\ CashOf(Refund("DEPOSIT_ONLY", b)) \in Int
      /\ CashOf(Refund("HALF_RENT", b)) \in Int
      /\ CashOf(Refund("FULL", b)) \in Int
  BY <1>5, <1>6, CashOfTier
<1> HIDE DEF left, less
<1> QED BY <1>1, <1>2, <1>3, <1>4, <1>7 DEF CashBack

(* If the lender or Nivra cancels, the borrower gets everything back,      *)
(* however late it is (refundFor).                                         *)
THEOREM OthersCancelInFull ==
  ASSUME NEW b, b \in [rent : Nat, fee : Nat, deposit : Nat, credit : Nat], b.credit <= b.rent,
         NEW startsOn \in Nat, NEW now \in Int, NEW party, party # "BORROWER"
  PROVE  CashBack(b, startsOn, party, now) = CashOf(b)
BY TierOf, CashOfTier DEF CashBack

(* Whatever claim is upheld after a late return, the late fee and the      *)
(* claim are within the deposit: settle()'s cap never bites, and what is   *)
(* left of the deposit for a claim is never negative (lateFeeFor,          *)
(* maxKeepable, resolve in disputes.service.ts lines 206-213).             *)
THEOREM KeptWithinDeposit ==
  ASSUME NEW lateDays \in Nat, NEW pricePerDay \in Nat, NEW deposit \in Nat,
         NEW claim \in 0..MaxKeepable(deposit, LateFee(lateDays, pricePerDay, deposit))
  PROVE  LateFee(lateDays, pricePerDay, deposit) + claim \in 0..deposit
<1> DEFINE fee == lateDays * pricePerDay
<1>1. fee \in Nat
  OBVIOUS
<1>2. LateFee(lateDays, pricePerDay, deposit) \in 0..deposit
  <2> HIDE DEF fee
  <2>1. Earlier(fee, deposit) \in 0..deposit
    BY <1>1 DEF Earlier
  <2> QED BY <2>1 DEF LateFee, fee
<1> DEFINE late == LateFee(lateDays, pricePerDay, deposit)
<1>3. claim \in 0..MaxKeepable(deposit, late)
  OBVIOUS
<1> HIDE DEF late
<1>4. late + claim \in 0..deposit
  BY <1>2, <1>3 DEF MaxKeepable, late
<1> QED BY <1>4 DEF late

(* Whole days, rounded up.                                                 *)
LEMMA DaysRoundedUp ==
  ASSUME NEW d \in Nat \ {0}, NEW x \in Nat \ {0}, NEW y \in Nat \ {0}, x <= y
  PROVE  /\ (x + d - 1) \div d \in Nat \ {0}
         /\ (x + d - 1) \div d <= (y + d - 1) \div d
<1> DEFINE p == (x + d - 1) \div d
           q == (y + d - 1) \div d
<1>1. p \in Int /\ d * p <= x + d - 1 /\ x + d - 1 < d * p + d
  BY SMTT(30)
<1>2. q \in Int /\ d * q <= y + d - 1 /\ y + d - 1 < d * q + d
  BY SMTT(30)
<1> HIDE DEF p, q
<1>3. p >= 1
  <2>1. SUFFICES ASSUME p <= 0 PROVE FALSE
    BY <1>1
  <2>2. d * p <= 0
    BY <1>1, <2>1, SMTT(30)
  <2> QED BY <1>1, <2>2
<1>4. p <= q
  <2>1. SUFFICES ASSUME q + 1 <= p PROVE FALSE
    BY <1>1, <1>2
  <2>2. d * (q + 1) <= d * p
    BY <1>1, <1>2, <2>1, SMTT(30)
  <2>3. d * (q + 1) = d * q + d
    BY <1>2
  <2> QED BY <1>1, <1>2, <2>2, <2>3
<1> QED BY <1>1, <1>3, <1>4 DEF p, q

(* A return is late from the first moment after the last rental day, and   *)
(* every started day of lateness counts (lateDaysFor): the lateness of an  *)
(* hour is a day, and a later return has no fewer late days.               *)
THEOREM LateDaysGrow ==
  ASSUME NEW endsOn \in Nat, NEW t \in Int, NEW u \in Int, t <= u
  PROVE  /\ LateDays(endsOn, t) \in Nat
         /\ LateDays(endsOn, t) = 0 <=> t <= RentalEnd(endsOn)
         /\ LateDays(endsOn, t) <= LateDays(endsOn, u)
<1> DEFINE late(s) == s - RentalEnd(endsOn)
           days(s) == (late(s) + Day - 1) \div Day
<1>1. Day \in Nat \ {0} /\ RentalEnd(endsOn) \in Int
  <2>1. endsOn * Day \in Int
    BY TimeAssumption
  <2> QED BY <2>1, TimeAssumption DEF RentalEnd
<1>2. late(t) \in Int /\ late(u) \in Int /\ late(t) <= late(u)
  BY <1>1
<1>3. \A s \in {t, u} : LateDays(endsOn, s) = IF late(s) > 0 THEN days(s) ELSE 0
  BY DEF LateDays
<1>4. CASE late(t) > 0
  <2>1. days(t) \in Nat \ {0} /\ days(t) <= days(u)
    BY <1>1, <1>2, <1>4, DaysRoundedUp
  <2>2. LateDays(endsOn, t) = days(t) /\ LateDays(endsOn, u) = days(u)
    BY <1>2, <1>3, <1>4
  <2>3. ~(t <= RentalEnd(endsOn))
    BY <1>1, <1>4
  <2> HIDE DEF days
  <2> QED BY <2>1, <2>2, <2>3
<1>5. CASE ~(late(t) > 0)
  <2>1. LateDays(endsOn, t) = 0
    BY <1>3, <1>5
  <2>2. t <= RentalEnd(endsOn)
    BY <1>1, <1>5
  <2>3. LateDays(endsOn, u) \in Nat
    <3>1. late(u) > 0 => days(u) \in Nat
      BY <1>1, <1>2, DaysRoundedUp
    <3> QED BY <1>3, <3>1
  <2> QED BY <2>1, <2>2, <2>3
<1> QED BY <1>4, <1>5

----------------------------------------------------------------------------
(* From a price to a booking.                                              *)

MaxInteger == 32768 * 65536 - 1      \* of Postgres' INTEGER

MaxRent == MaxDays * MaxPrice

(* The sizes of the bounds, so that no other step needs their digits.      *)
LEMMA Sizes ==
  /\ MinPrice = 1000
  /\ MaxDays = 90
  /\ MaxPrice \in Nat /\ MinPrice <= MaxPrice
  /\ PriceRange = MinPrice..MaxPrice
  /\ MaxDeposit = 5 * MaxPrice
  /\ MaxRent = 90 * MaxPrice
  /\ MaxInteger \in Nat /\ MaxRent + MaxDeposit <= MaxInteger
<1>1. MinPrice = 1000 /\ MaxDays = 90 /\ MaxPrice \in Nat /\ MinPrice <= MaxPrice
  BY DEF MinPrice, MaxDays, MaxPrice
<1>2. PriceRange = MinPrice..MaxPrice
  BY DEF PriceRange
<1>3. MaxDeposit = 5 * MaxPrice /\ MaxRent = 90 * MaxPrice
  BY <1>1 DEF MaxDeposit, MaxRent
<1>4. MaxInteger \in Nat /\ 95 * MaxPrice <= MaxInteger
  BY DEF MaxInteger, MaxPrice
<1> QED BY <1>1, <1>2, <1>3, <1>4

(* More days never cost less, at one price a day.                          *)
LEMMA ProductGrows ==
  ASSUME NEW k \in Nat, NEW m \in Nat, NEW n \in Nat, m <= n
  PROVE  k * m \in Nat /\ k * n \in Nat /\ k * m <= k * n
<1>1. k * m \in Nat /\ k * (n - m) \in Nat
  BY SMT
<1>2. k * n = k * m + k * (n - m)
  BY SMT
<1> QED BY <1>1, <1>2

(* What 1 to 90 days cost before the discount.                             *)
LEMMA BeforeDiscount ==
  ASSUME NEW price \in PriceRange, NEW days \in 1..MaxDays
  PROVE  price * days \in MinPrice..MaxRent
<1>1. price \in Nat /\ days \in Nat /\ price >= 1000 /\ price <= MaxPrice
  BY Sizes
<1>2. days \in 1..90
  BY Sizes
<1> DEFINE p == price * days
           q == price * 90
<1>3. price * 1 <= p /\ p <= q /\ p \in Nat
  BY <1>1, <1>2, ProductGrows
<1>4. price * 1 = price /\ q = 90 * price
  BY <1>1
<1> HIDE DEF p, q
<1>5. p \in MinPrice..MaxRent
  BY <1>1, <1>3, <1>4, Sizes
<1> QED BY <1>5 DEF p

(* A discount of at most 50% of an amount, and how it grows.               *)
LEMMA PercentBounds ==
  ASSUME NEW amount \in Nat, NEW pct \in 0..50
  PROVE  amount * pct \in 0..(50 * amount) /\ Percent(amount, pct) \in 0..((amount + 1) \div 2)
<1>1. amount * pct \in Nat /\ amount * pct <= amount * 50
  BY ProductGrows
<1> DEFINE p == amount * pct
<1>2. p \in Nat /\ p <= 50 * amount
  BY <1>1
<1> HIDE DEF p
<1>3. (p + 50) \div 100 \in 0..((amount + 1) \div 2)
  BY <1>2
<1> QED BY <1>2, <1>3 DEF Percent, p

LEMMA PercentGrowth ==
  ASSUME NEW m \in Nat, NEW n \in Nat, m <= n, NEW pct \in 0..50
  PROVE  Percent(n, pct) - Percent(m, pct) <= n - m
<1> DEFINE p == m * pct
           q == (n - m) * pct
<1>1. n - m \in Nat
  OBVIOUS
<1>2. p \in 0..(50 * m) /\ q \in 0..(50 * (n - m))
  BY <1>1, PercentBounds
<1>3. n * pct = p + q
  BY SMT
<1> HIDE DEF p, q
<1>4. (p + q + 50) \div 100 - (p + 50) \div 100 <= n - m
  BY <1>1, <1>2
<1> QED BY <1>3, <1>4 DEF Percent, p

(* The rent of a listing stays within what its fields allow.               *)
LEMMA RentRange ==
  ASSUME NEW listing \in Listings, NEW days \in 1..MaxDays
  PROVE  RentFor(listing, days) \in 499..MaxRent
<1> DEFINE before == listing.price * days
<1>1. listing.price \in PriceRange /\ listing.discountPct \in 0..50
  BY DEF Listings
<1>2. before \in Nat /\ before >= 1000 /\ before <= MaxRent /\ MaxRent \in Nat
  <2>1. before \in MinPrice..MaxRent
    BY <1>1, BeforeDiscount
  <2> HIDE DEF before
  <2> QED BY <2>1, Sizes
<1> HIDE DEF before
<1>3. Percent(before, listing.discountPct) \in 0..((before + 1) \div 2)
  BY <1>1, <1>2, PercentBounds
<1>4. (before + 1) \div 2 <= before - 499
  BY <1>2
<1>5. Discount(listing, days) \in 0..((before + 1) \div 2)
  BY <1>2, <1>3 DEF Discount, before
<1>6. before - Discount(listing, days) \in 499..MaxRent
  BY <1>2, <1>4, <1>5
<1> QED BY <1>6 DEF RentFor, before

(* Within the lengths that have the discount, and within those that do     *)
(* not, a longer rental never costs less (rentFor): the rounding of the    *)
(* discount never eats up a day.  Across the week it can, by design.       *)
THEOREM LongerNeverCheaper ==
  ASSUME NEW listing \in Listings, NEW m \in 1..MaxDays, NEW n \in 1..MaxDays, m <= n,
         (m < WeekDays) <=> (n < WeekDays)
  PROVE  RentFor(listing, m) <= RentFor(listing, n)
<1> DEFINE x == listing.price * m
           y == listing.price * n
           pct == listing.discountPct
<1>1. listing.price \in PriceRange /\ pct \in 0..50
  BY DEF Listings
<1>2. x \in Nat /\ y \in Nat /\ x <= y
  <2>1. listing.price \in Nat /\ m \in Nat /\ n \in Nat
    BY <1>1, Sizes
  <2> QED BY <2>1, ProductGrows
<1> HIDE DEF x, y, pct
<1>3. /\ Percent(x, pct) \in Int /\ Percent(y, pct) \in Int
      /\ Percent(y, pct) - Percent(x, pct) <= y - x
  <2>1. Percent(x, pct) \in 0..((x + 1) \div 2) /\ Percent(y, pct) \in 0..((y + 1) \div 2)
    BY <1>1, <1>2, PercentBounds
  <2>2. Percent(y, pct) - Percent(x, pct) <= y - x
    BY <1>1, <1>2, PercentGrowth
  <2>3. (x + 1) \div 2 \in Nat /\ (y + 1) \div 2 \in Nat
    BY <1>2
  <2> QED BY <2>1, <2>2, <2>3
<1>4. CASE m < WeekDays
  BY <1>2, <1>4 DEF RentFor, Discount, WeekDays, x, y
<1>5. CASE ~(m < WeekDays)
  <2>1. m >= WeekDays /\ n >= WeekDays
    BY <1>5 DEF WeekDays
  <2>2. RentFor(listing, m) = x - Percent(x, pct) /\ RentFor(listing, n) = y - Percent(y, pct)
    BY <2>1 DEF RentFor, Discount, x, y, pct
  <2> QED BY <1>2, <1>3, <2>2
<1> QED BY <1>4, <1>5

----------------------------------------------------------------------------
(* The amounts of new bookings *)

LEMMA FeeIsZero ==
  ASSUME NEW rent \in Nat
  PROVE  FeeOn(rent) = 0
<1>1. rent * 0 = 0
  BY SMT
<1> QED BY <1>1 DEF FeeOn, BorrowerFeeBps

(* Credit pays at most half of the rent, rounded down.                     *)
LEMMA CreditHeld ==
  ASSUME NEW rent \in Nat, NEW worth \in Int
  PROVE  HeldCredit(worth, rent) \in 0..(rent \div 2)
<1>1. CreditLimit(rent) = rent \div 2
  BY DEF CreditLimit
<1>2. rent \div 2 \in Nat
  OBVIOUS
<1> QED BY <1>1, <1>2 DEF HeldCredit

(* What bookings_amounts_check, payments_amount_check and                  *)
(* transfers_amount_check ask for, and the width of the columns.           *)
Payable(b) ==
  /\ IsBooking(b)
  /\ CashOf(b) \in 1..MaxInteger
  /\ b.credit + b.credit <= b.rent

LEMMA RentMakesPayable ==
  ASSUME NEW rent \in 499..MaxRent, NEW deposit \in 0..MaxDeposit, NEW worth \in Int
  PROVE  Payable(BookingOf(rent, deposit, worth))
<1> DEFINE credit == HeldCredit(worth, rent)
           b == BookingOf(rent, deposit, worth)
<1>1. rent \in Nat /\ deposit \in Nat /\ rent >= 499 /\ rent + deposit <= MaxInteger
  BY Sizes
<1>2. credit \in 0..(rent \div 2)
  BY <1>1, CreditHeld
<1>3. b = [rent |-> rent, fee |-> 0, deposit |-> deposit, credit |-> credit]
  BY <1>1, FeeIsZero DEF BookingOf
<1> HIDE DEF credit, b
<1>4. credit \in Nat /\ credit + credit <= rent
  BY <1>2
<1>5. IsBooking(b)
  BY <1>1, <1>3, <1>4 DEF IsBooking, AmountsOf
<1>6. CashOf(b) = rent + deposit - credit
  BY <1>1, <1>3, <1>4 DEF CashOf
<1>7. CashOf(b) \in 1..MaxInteger
  BY <1>1, <1>4, <1>6, Sizes
<1> QED BY <1>3, <1>4, <1>5, <1>7 DEF Payable, b

(* The days of a range that quote() accepts.                               *)
LEMMA AvailableDays ==
  ASSUME NEW listing \in Listings, NEW first \in Nat, NEW last \in Nat, NEW today \in Nat,
         Available(listing, first, last, today)
  PROVE  RentalDays(first, last) \in 1..MaxDays
<1>0. MaxDays = 90
  BY Sizes
<1>1. listing.minDays \in 1..MaxDays /\ listing.maxDays \in 1..MaxDays
  BY DEF Listings
<1>2. RentalDays(first, last) \in listing.minDays..listing.maxDays
  BY DEF Available
<1>3. RentalDays(first, last) \in Int
  BY DEF RentalDays
<1> QED BY <1>0, <1>1, <1>2, <1>3

(* A request at the listed price leaves a booking that can be paid for:    *)
(* whatever the price, the discount, the dates and the credit, no column   *)
(* overflows, no constraint refuses its amounts, its payment is never for  *)
(* nothing, and it is what the proofs about the ledger and the refund      *)
(* policy assume (request in bookings.service.ts).                         *)
THEOREM RequestsArePayable ==
  ASSUME NEW listing \in Listings, NEW first \in Nat, NEW last \in Nat, NEW today \in Nat,
         Available(listing, first, last, today), NEW worth \in Int
  PROVE  Payable(RequestedBooking(listing, first, last, worth))
<1>1. RentalDays(first, last) \in 1..MaxDays
  BY AvailableDays
<1>2. RentFor(listing, RentalDays(first, last)) \in 499..MaxRent
  BY <1>1, RentRange
<1>3. listing.deposit \in 0..MaxDeposit
  BY DEF Listings
<1> QED BY <1>2, <1>3, RentMakesPayable DEF RequestedBooking

(* The same for an agreed offer: the price is the two people's own, within *)
(* the range of prices, and the dates were bookable when it was made       *)
(* (propose in offers.service.ts, createFromOffer in bookings.service.ts). *)
THEOREM OffersArePayable ==
  ASSUME NEW listing \in Listings, NEW price \in PriceRange, NEW first \in Nat,
         NEW last \in Nat, NEW today \in Nat,
         Available(listing, first, last, today), NEW worth \in Int
  PROVE  Payable(OfferedBooking(listing, price, first, last, worth))
<1>1. RentalDays(first, last) \in 1..MaxDays
  BY AvailableDays
<1>2. price * RentalDays(first, last) \in 499..MaxRent
  <2>1. price * RentalDays(first, last) \in MinPrice..MaxRent
    BY <1>1, BeforeDiscount
  <2> QED BY <2>1, Sizes
<1>3. listing.deposit \in 0..MaxDeposit
  BY DEF Listings
<1> QED BY <1>2, <1>3, RentMakesPayable DEF OfferedBooking

(* Credit is half the rent at most, rounded down, and a late cancellation  *)
(* gives half the rent back, rounded up: so whenever any rent comes back   *)
(* all the credit does, and the rest of it and the deposit come in cash    *)
(* (creditLimitFor and creditBackFor in credits.ts, refundFor).            *)
THEOREM NoCreditLostWithRentBack ==
  ASSUME NEW b, Payable(b), NEW tier \in {"FULL", "HALF_RENT"}
  PROVE  /\ Refund(tier, b).credit = b.credit
         /\ CashOf(Refund(tier, b)) \in b.deposit..CashOf(b)
<1>1. /\ b.rent \in Nat /\ b.fee \in Nat /\ b.deposit \in Nat /\ b.credit \in Nat
      /\ b.credit + b.credit <= b.rent
  BY DEF Payable, IsBooking, AmountsOf
<1> DEFINE back == RentBack(tier, b.rent)
           fee == FeeBack(tier, b.fee)
<1>2. back \in Nat /\ b.credit <= back
  BY <1>1 DEF RentBack, Half
<1>3. fee \in Nat
  BY <1>1 DEF FeeBack
<1>4. CreditBack(b.credit, back) = b.credit
  BY <1>1, <1>2 DEF CreditBack
<1>5. Refund(tier, b) = [rent |-> back, fee |-> fee, deposit |-> b.deposit, credit |-> b.credit]
  BY <1>4 DEF Refund
<1> HIDE DEF back, fee
<1>6. CashOf(Refund(tier, b)) = back + fee + b.deposit - b.credit
  BY <1>1, <1>2, <1>3, <1>5 DEF CashOf
<1>7. CashOf(Refund(tier, b)) \in 0..CashOf(b)
  BY PolicyWithinPayment DEF Payable, Tiers
<1>8. CashOf(Refund(tier, b)) >= b.deposit
  BY <1>1, <1>2, <1>3, <1>6
<1>9. CashOf(b) \in Int
  BY <1>1 DEF CashOf
<1> QED BY <1>1, <1>5, <1>7, <1>8, <1>9

(* At the commission of 10%, or any up to 90%, the lender is always owed   *)
(* something for a rental, so that a transfer for it passes                *)
(* transfers_amount_check (lenderShare, onConfirmed).                      *)
THEOREM LenderAlwaysEarns ==
  ASSUME NEW rent \in 499..MaxRent, Bps <= 9000
  PROVE  LenderShare(rent) \in 1..MaxInteger
<1> DEFINE p == rent * Bps
<1>1. Bps \in Nat /\ rent \in Nat
  BY BpsAssumption
<1>2. p \in Nat /\ p <= rent * 9000
  BY <1>1, ProductGrows
<1> HIDE DEF p
<1>3. (p + 5000) \div 10000 \in 0..(rent - 1)
  BY <1>1, <1>2
<1>4. rent - (p + 5000) \div 10000 \in 1..rent
  BY <1>1, <1>3
<1>5. rent <= MaxInteger
  BY Sizes
<1> QED BY <1>1, <1>4, <1>5, Sizes DEF LenderShare, CommissionOn, p

----------------------------------------------------------------------------
(* Refunds: the inductive invariant *)

Amounts == [rent : Nat, fee : Nat, deposit : Nat, credit : Nat]

Kinds == {c.kind : c \in Callers}

(* Only goodwill is not split into what it gives back.                     *)
IsSplit(x) == x.kind = "MANUAL" \/ x.cash = CashOf(x.amounts)

RefundRows ==
  {row \in [payment : Orders, kind : Kinds, cash : Int, amounts : Amounts,
            status : {"PENDING", "PROCESSED", "FAILED"}, attempts : Nat, sent : BOOLEAN] :
     IsSplit(row)}

RefundTypes ==
  /\ refund \in [RefundIds -> RefundRows \cup {NoRefund}]
  /\ accepted \in [RefundIds -> Nat]
  /\ \A r \in RefundIds : refund[r] = NoRefund => accepted[r] = 0
  /\ books \in [Accounts -> Int]
  /\ faults \in [crashes : Nat, failures : Nat]

(* The steps a call may have to make, given the refund rows rf.            *)
AskOps == {"createRefund", "insertRefund"}

IdOps == {"attempt", "callRefund", "failRefund"}

PayOps == {"tallyRefund", "saveRefund"}

AboutRow == IdOps \cup {"claimRefund"} \cup PayOps

AskSteps == [op : AskOps, payment : Orders, kind : Kinds, cash : Int, amounts : Amounts]

AnySteps ==
  AskSteps
    \cup [op : {"retryRefunds"}]
    \cup [op : IdOps, id : RefundIds]
    \cup [op : {"claimRefund"}, id : RefundIds, attempts : Nat]
    \cup [op : {"tallyRefund"}, id : RefundIds, status : Counted]
    \cup [op : {"saveRefund"}, id : RefundIds, status : Counted, sum : Int]

RowsIn(rf) == {r \in RefundIds : rf[r] # NoRefund}

Fits(s, rf) ==
  /\ s.op \in AskOps => s \in AskSteps /\ IsSplit(s)
  /\ s.op \in AboutRow => s.id \in RowsIn(rf)
  /\ s.op \in PayOps => s.status \in Counted
  /\ s.op # "catch"

FitSteps(rf) == {s \in AnySteps : Fits(s, rf)}

LaterSteps(rf) == {s \in FitSteps(rf) : s.op = "attempt"}

TodoFits == todo \in [All -> ListsOf(FitSteps(refund), LaterSteps(refund))]

(* The cash that Razorpay accepted to send and a call is about to save.    *)
PendingOf(q, rf) ==
  IF q = <<>> THEN 0 ELSE IF Head(q).op \in PayOps THEN rf[Head(q).id].cash ELSE 0

Pending == SumFunction([h \in All |-> PendingOf(todo[h], refund)])

InBalance ==
  faults.crashes = 0 /\ unheard = {} => books.GATEWAY = SentCash - Pending

RefundsInv == RefundTypes /\ TodoFits /\ InBalance

(* The steps one by one *)
LEMMA IdStep ==
  ASSUME NEW rf, NEW r \in RowsIn(rf), NEW op \in IdOps
  PROVE  /\ [op |-> op, id |-> r] \in FitSteps(rf)
         /\ op = "attempt" => [op |-> op, id |-> r] \in LaterSteps(rf)
  <1>1. PICK s : s = [op |-> op, id |-> r]
    OBVIOUS
  <1>2. s \in AnySteps /\ s.op = op /\ s.id = r
    BY <1>1 DEF AnySteps, RowsIn
  <1>3. Fits(s, rf)
    BY <1>2 DEF Fits, AskOps, IdOps, PayOps
  <1> QED BY <1>1, <1>2, <1>3 DEF FitSteps, LaterSteps

LEMMA ClaimStep ==
  ASSUME NEW rf, NEW r \in RowsIn(rf), NEW n \in Nat
  PROVE  [op |-> "claimRefund", id |-> r, attempts |-> n] \in FitSteps(rf)
  <1>1. PICK s : s = [op |-> "claimRefund", id |-> r, attempts |-> n]
    OBVIOUS
  <1>2. s \in AnySteps /\ s.op = "claimRefund" /\ s.id = r
    BY <1>1 DEF AnySteps, RowsIn
  <1>3. Fits(s, rf)
    BY <1>2 DEF Fits, AskOps, PayOps
  <1> QED BY <1>1, <1>2, <1>3 DEF FitSteps

LEMMA TallyStep ==
  ASSUME NEW rf, NEW r \in RowsIn(rf), NEW st \in Counted
  PROVE  [op |-> "tallyRefund", id |-> r, status |-> st] \in FitSteps(rf)
  <1>1. PICK s : s = [op |-> "tallyRefund", id |-> r, status |-> st]
    OBVIOUS
  <1>2. s \in AnySteps /\ s.op = "tallyRefund" /\ s.id = r /\ s.status = st
    BY <1>1 DEF AnySteps, RowsIn
  <1>3. Fits(s, rf)
    BY <1>2 DEF Fits, AskOps, PayOps
  <1> QED BY <1>1, <1>2, <1>3 DEF FitSteps

LEMMA SaveStep ==
  ASSUME NEW rf, NEW r \in RowsIn(rf), NEW st \in Counted, NEW n \in Int
  PROVE  [op |-> "saveRefund", id |-> r, status |-> st, sum |-> n] \in FitSteps(rf)
  <1>1. PICK s : s = [op |-> "saveRefund", id |-> r, status |-> st, sum |-> n]
    OBVIOUS
  <1>2. s \in AnySteps /\ s.op = "saveRefund" /\ s.id = r /\ s.status = st
    BY <1>1 DEF AnySteps, RowsIn
  <1>3. Fits(s, rf)
    BY <1>2 DEF Fits, AskOps, PayOps
  <1> QED BY <1>1, <1>2, <1>3 DEF FitSteps

LEMMA AskStep ==
  ASSUME NEW rf, NEW s \in AskSteps, IsSplit(s)
  PROVE  s \in FitSteps(rf)
  <1>1. s \in AnySteps /\ s.op \in AskOps
    BY DEF AnySteps, AskSteps
  <1>2. Fits(s, rf)
    BY <1>1 DEF Fits, AskOps, AboutRow, IdOps, PayOps
  <1> QED BY <1>1, <1>2 DEF FitSteps

LEMMA RetryStep ==
  ASSUME NEW rf
  PROVE  [op |-> "retryRefunds"] \in FitSteps(rf)
  <1>1. PICK s : s = [op |-> "retryRefunds"]
    OBVIOUS
  <1>2. s \in AnySteps /\ s.op = "retryRefunds"
    BY <1>1 DEF AnySteps
  <1>3. Fits(s, rf)
    BY <1>2 DEF Fits, AskOps, AboutRow, IdOps, PayOps
  <1> QED BY <1>1, <1>2, <1>3 DEF FitSteps

----------------------------------------------------------------------------
(* What every step keeps: a refund row stays, and so does its cash.        *)

RefundsKept ==
  \A r \in RowsIn(refund) : refund'[r] # NoRefund /\ refund'[r].cash = refund[r].cash

LEMMA StepsStay ==
  ASSUME RefundsKept
  PROVE  /\ FitSteps(refund) \subseteq FitSteps(refund')
         /\ LaterSteps(refund) \subseteq LaterSteps(refund')
         /\ LaterSteps(refund') \subseteq FitSteps(refund')
  <1>1. RowsIn(refund) \subseteq RowsIn(refund')
    BY DEF RefundsKept, RowsIn
  <1>2. \A s \in AnySteps : Fits(s, refund) => Fits(s, refund')
    BY <1>1 DEF Fits
  <1> QED BY <1>2 DEF FitSteps, LaterSteps

LEMMA NothingPending ==
  ASSUME NEW q, NEW rf, q = <<>> \/ Head(q).op \notin PayOps
  PROVE  PendingOf(q, rf) = 0
  BY DEF PendingOf

LEMMA LaterPending ==
  ASSUME NEW rf, NEW q \in Seq(LaterSteps(rf))
  PROVE  PendingOf(q, rf) = 0
  <1>1. CASE q = <<>>
    BY <1>1, NothingPending
  <1>2. CASE q # <<>>
    <2>1. Head(q) \in LaterSteps(rf)
      BY <1>2
    <2>2. Head(q).op \notin PayOps
      BY <2>1 DEF LaterSteps, PayOps
    <2> QED BY <2>2, NothingPending
  <1> QED BY <1>1, <1>2

LEMMA HeadStep ==
  ASSUME TodoFits, NEW h \in All, todo[h] # <<>>
  PROVE  Head(todo[h]) \in AnySteps /\ Fits(Head(todo[h]), refund)
  <1>1. Head(todo[h]) \in FitSteps(refund)
    BY HeadFits DEF TodoFits
  <1> QED BY <1>1 DEF FitSteps

LEMMA SamePending ==
  ASSUME TodoFits, RefundsKept, NEW h \in All, todo'[h] = todo[h]
  PROVE  PendingOf(todo'[h], refund') = PendingOf(todo[h], refund)
  <1>1. PICK q : q = todo[h]
    OBVIOUS
  <1>2. CASE q = <<>>
    BY <1>1, <1>2 DEF PendingOf
  <1>3. CASE q # <<>>
    <2>1. Fits(Head(q), refund)
      BY <1>1, <1>3, HeadStep
    <2>2. Head(q).op \in PayOps => Head(q).id \in RowsIn(refund)
      BY <2>1 DEF Fits, AboutRow
    <2>3. Head(q).op \in PayOps => refund'[Head(q).id].cash = refund[Head(q).id].cash
      BY <2>2 DEF RefundsKept
    <2> QED BY <1>1, <2>3 DEF PendingOf
  <1> QED BY <1>2, <1>3

(* The list of one call changes.                                           *)
LEMMA ListChanged ==
  ASSUME TodoFits, RefundsKept, NEW h \in All, NEW q, todo' = [todo EXCEPT ![h] = q],
         q \in ListsOf(FitSteps(refund'), LaterSteps(refund'))
  PROVE  /\ TodoFits'
         /\ todo'[h] = q
         /\ \A g \in All : g # h => todo'[g] = todo[g]
  <1> DEFINE F == FitSteps(refund)
             L == LaterSteps(refund)
             F2 == FitSteps(refund')
             L2 == LaterSteps(refund')
  <1>1. F \subseteq F2 /\ L \subseteq L2
    BY StepsStay
  <1>2. todo \in [All -> ListsOf(F, L)]
    BY DEF TodoFits
  <1>3. q \in ListsOf(F2, L2)
    OBVIOUS
  <1> HIDE DEF F, L, F2, L2
  <1>4. \A g \in All : todo[g] \in ListsOf(F2, L2)
    BY <1>1, <1>2, ListsGrow
  <1>5. todo' \in [All -> ListsOf(F2, L2)]
    BY <1>2, <1>3, <1>4
  <1>6. TodoFits'
    BY <1>5 DEF TodoFits, F2, L2
  <1>7. todo'[h] = q /\ \A g \in All : g # h => todo'[g] = todo[g]
    BY <1>2
  <1> QED BY <1>6, <1>7

(* A call goes on with other steps, *)
LEMMA GoesOn ==
  ASSUME TodoFits, RefundsKept, NEW h \in All, todo[h] # <<>>,
         NEW steps \in Seq(LaterSteps(refund')), Continue(h, steps)
  PROVE  /\ TodoFits' /\ todo'[h] = steps \o Tail(todo[h])
         /\ PendingOf(todo'[h], refund') = 0
         /\ \A g \in All : g # h => todo'[g] = todo[g]
  <1>1. PICK F, L, F2, L2 : /\ F = FitSteps(refund) /\ L = LaterSteps(refund)
                            /\ F2 = FitSteps(refund') /\ L2 = LaterSteps(refund')
    OBVIOUS
  <1>2. L \subseteq L2 /\ L2 \subseteq F2
    BY <1>1, StepsStay
  <1>3. PICK r : r = steps \o Tail(todo[h])
    OBVIOUS
  <1>4. todo' = [todo EXCEPT ![h] = r]
    BY <1>3 DEF Continue
  <1>5. todo[h] \in ListsOf(F, L) /\ steps \in Seq(L2)
    BY <1>1 DEF TodoFits
  <1>6. r \in Seq(L2) /\ r \in ListsOf(F2, L2)
    BY <1>2, <1>3, <1>5, StepsReplaced
  <1>7. PendingOf(r, refund') = 0
    BY <1>1, <1>6, LaterPending
  <1>8. TodoFits' /\ todo'[h] = r /\ \A g \in All : g # h => todo'[g] = todo[g]
    BY <1>1, <1>4, <1>6, ListChanged
  <1> QED BY <1>3, <1>7, <1>8

(* ... with any one step, *)
LEMMA GoesOnWith ==
  ASSUME TodoFits, RefundsKept, NEW h \in All, todo[h] # <<>>,
         NEW s \in FitSteps(refund'), Continue(h, <<s>>)
  PROVE  /\ TodoFits' /\ todo'[h] = <<s>> \o Tail(todo[h])
         /\ todo'[h] # <<>> /\ Head(todo'[h]) = s
         /\ \A g \in All : g # h => todo'[g] = todo[g]
  <1>1. PICK F, L, F2, L2 : /\ F = FitSteps(refund) /\ L = LaterSteps(refund)
                            /\ F2 = FitSteps(refund') /\ L2 = LaterSteps(refund')
    OBVIOUS
  <1>2. L \subseteq L2 /\ L2 \subseteq F2
    BY <1>1, StepsStay
  <1>3. PICK r : r = <<s>> \o Tail(todo[h])
    OBVIOUS
  <1>4. todo' = [todo EXCEPT ![h] = r]
    BY <1>3 DEF Continue
  <1>5. todo[h] \in ListsOf(F, L) /\ s \in F2
    BY <1>1 DEF TodoFits
  <1>6. r \in ListsOf(F2, L2) /\ r # <<>> /\ Head(r) = s
    BY <1>2, <1>3, <1>5, StepReplaced
  <1>8. TodoFits' /\ todo'[h] = r /\ \A g \in All : g # h => todo'[g] = todo[g]
    BY <1>1, <1>4, <1>6, ListChanged
  <1> QED BY <1>3, <1>6, <1>8

(* ... or starts. *)
LEMMA CallStarts ==
  ASSUME TodoFits, RefundsKept, NEW h \in All, NEW s \in FitSteps(refund'), Begin(h, <<s>>)
  PROVE  /\ TodoFits' /\ todo[h] = <<>> /\ todo'[h] = <<s>>
         /\ todo'[h] # <<>> /\ Head(todo'[h]) = s
         /\ \A g \in All : g # h => todo'[g] = todo[g]
  <1>1. PICK F2, L2 : F2 = FitSteps(refund') /\ L2 = LaterSteps(refund')
    OBVIOUS
  <1>2. PICK r : r = <<s>>
    OBVIOUS
  <1>3. s \in F2
    BY <1>1
  <1>4. r \in Seq(F2) /\ r # <<>> /\ Head(r) = s
    BY <1>2, <1>3
  <1>5. Tail(r) = <<>>
    BY <1>2
  <1>6. <<>> \in Seq(L2)
    OBVIOUS
  <1>7. r \in ListsOf(F2, L2)
    BY <1>4, <1>5, <1>6 DEF ListsOf
  <1>8. todo' = [todo EXCEPT ![h] = r] /\ todo[h] = <<>>
    BY <1>2 DEF Begin, Free
  <1>9. TodoFits' /\ todo'[h] = r /\ \A g \in All : g # h => todo'[g] = todo[g]
    BY <1>1, <1>7, <1>8, ListChanged
  <1> QED BY <1>2, <1>4, <1>8, <1>9

----------------------------------------------------------------------------
(* The sums *)

LEMMA RefundIdsFinite == IsFiniteSet(RefundIds) /\ IsFiniteSet(All) /\ RefundIds \subseteq Nat
  <1>1. IsFiniteSet(1..MaxRefunds)
    <2>1. MaxRefunds \in Int
      BY RefundsAssumption
    <2> QED BY <2>1, FS_Interval
  <1>2. IsFiniteSet(Requests \cup Workers)
    BY HandlersAssumption, FS_Union
  <1> QED BY <1>1, <1>2, RefundsAssumption DEF RefundIds, All

LEMMA RowType ==
  ASSUME RefundTypes, NEW r \in RowsIn(refund)
  PROVE  refund[r] \in RefundRows /\ r \in RefundIds
  BY DEF RefundTypes, RowsIn

LEMMA SentType ==
  ASSUME RefundTypes, NEW r \in RefundIds
  PROVE  refund[r].cash \in Int /\ accepted[r] \in Nat /\ SentOf(r) \in Int
  <1>1. PICK c, n : c = refund[r].cash /\ n = accepted[r]
    OBVIOUS
  <1>2. n \in Nat
    BY <1>1 DEF RefundTypes
  <1>3. c \in Int
    <2>1. CASE refund[r] = NoRefund
      BY <1>1, <2>1 DEF NoRefund
    <2>2. CASE refund[r] \in RefundRows
      BY <1>1, <2>2 DEF RefundRows
    <2> QED BY <2>1, <2>2 DEF RefundTypes
  <1>4. n * c \in Int
    BY <1>2, <1>3
  <1> QED BY <1>1, <1>2, <1>3, <1>4 DEF SentOf

LEMMA SentChanged ==
  ASSUME RefundTypes, RefundTypes', NEW r \in RefundIds,
         \A u \in RefundIds : u # r => SentOf(u)' = SentOf(u)
  PROVE  /\ SentCash \in Int /\ SentOf(r)' \in Int
         /\ SentCash' = SentCash + SentOf(r)' - SentOf(r)
  <1>1. PICK f : f = [u \in RefundIds |-> SentOf(u)]
    OBVIOUS
  <1>2. PICK k : k = [u \in RefundIds |-> SentOf(u)']
    OBVIOUS
  <1>3. f \in [RefundIds -> Int] /\ f[r] = SentOf(r)
    BY <1>1, SentType
  <1>4. PICK v : v = SentOf(r)'
    OBVIOUS
  <1>5. PICK c, n : c = refund'[r].cash /\ n = accepted'[r]
    OBVIOUS
  <1>6. v \in Int
    <2>1. n \in Nat
      BY <1>5 DEF RefundTypes
    <2>2. c \in Int
      <3>1. CASE refund'[r] = NoRefund
        BY <1>5, <3>1 DEF NoRefund
      <3>2. CASE refund'[r] \in RefundRows
        BY <1>5, <3>2 DEF RefundRows
      <3> QED BY <3>1, <3>2 DEF RefundTypes
    <2>3. n * c \in Int
      BY <2>1, <2>2
    <2> QED BY <1>4, <1>5, <2>3 DEF SentOf
  <1>7. k = [f EXCEPT ![r] = v]
    BY <1>1, <1>2, <1>4
  <1>8. SumFunction(f) \in Int /\ SumFunction(k) = SumFunction(f) + v - f[r]
    BY <1>3, <1>6, <1>7, RefundIdsFinite, SumChanged
  <1>9. SentCash = SumFunction(f) /\ SentCash' = SumFunction(k)
    BY <1>1, <1>2 DEF SentCash
  <1> QED BY <1>3, <1>4, <1>6, <1>8, <1>9

LEMMA PendingType ==
  ASSUME NEW rf \in [RefundIds -> RefundRows \cup {NoRefund}],
         NEW q \in ListsOf(FitSteps(rf), LaterSteps(rf))
  PROVE  PendingOf(q, rf) \in Int
  <1>2. CASE q = <<>> \/ Head(q).op \notin PayOps
    BY <1>2, NothingPending
  <1>3. CASE q # <<>> /\ Head(q).op \in PayOps
    <2>1. Head(q) \in FitSteps(rf)
      BY <1>3, HeadFits
    <2>2. PICK r : r = Head(q).id
      OBVIOUS
    <2>3. r \in RowsIn(rf)
      BY <1>3, <2>1, <2>2 DEF FitSteps, Fits, AboutRow
    <2>4. rf[r].cash \in Int
      BY <2>3 DEF RefundRows, RowsIn
    <2> QED BY <1>3, <2>2, <2>4 DEF PendingOf
  <1> QED BY <1>2, <1>3

LEMMA PendingChanged ==
  ASSUME RefundTypes, TodoFits, RefundTypes', TodoFits', RefundsKept, NEW h \in All,
         \A g \in All : g # h => todo'[g] = todo[g]
  PROVE  /\ Pending \in Int
         /\ PendingOf(todo[h], refund) \in Int /\ PendingOf(todo'[h], refund') \in Int
         /\ Pending' = Pending + PendingOf(todo'[h], refund') - PendingOf(todo[h], refund)
  <1>1. PICK f : f = [g \in All |-> PendingOf(todo[g], refund)]
    OBVIOUS
  <1>2. PICK k : k = [g \in All |-> PendingOf(todo'[g], refund')]
    OBVIOUS
  <1>3. f \in [All -> Int] /\ f[h] = PendingOf(todo[h], refund)
    BY <1>1, PendingType DEF RefundTypes, TodoFits
  <1>4. PICK v : v = PendingOf(todo'[h], refund')
    OBVIOUS
  <1>6. v \in Int
    <2>1. /\ refund' \in [RefundIds -> RefundRows \cup {NoRefund}]
          /\ todo'[h] \in ListsOf(FitSteps(refund'), LaterSteps(refund'))
      BY DEF RefundTypes, TodoFits
    <2> QED BY <1>4, <2>1, PendingType
  <1>7. \A g \in All : g # h => PendingOf(todo'[g], refund') = PendingOf(todo[g], refund)
    BY SamePending
  <1>8. k = [f EXCEPT ![h] = v]
    BY <1>1, <1>2, <1>4, <1>7
  <1>9. SumFunction(f) \in Int /\ SumFunction(k) = SumFunction(f) + v - f[h]
    BY <1>3, <1>6, <1>8, RefundIdsFinite, SumChanged
  <1>10. Pending = SumFunction(f) /\ Pending' = SumFunction(k)
    BY <1>1, <1>2 DEF Pending
  <1> QED BY <1>3, <1>4, <1>6, <1>9, <1>10

----------------------------------------------------------------------------
(* Steps that leave the money alone, and those that move it                *)

SameCrashes == faults'.crashes = faults.crashes

SameSent == \A u \in RefundIds : SentOf(u)' = SentOf(u)

LEMMA FaultsKept ==
  ASSUME RefundTypes, UNCHANGED faults \/ Refused
  PROVE  SameCrashes /\ faults' \in [crashes : Nat, failures : Nat]
  BY DEF RefundTypes, Refused, SameCrashes

LEMMA QuietHolds ==
  ASSUME RefundsInv, RefundTypes', TodoFits', RefundsKept, NEW h \in All,
         \A g \in All : g # h => todo'[g] = todo[g],
         PendingOf(todo'[h], refund') = PendingOf(todo[h], refund),
         SameSent, SameCrashes, books' = books, unheard' = unheard
  PROVE  RefundsInv'
  <1>1. \A g \in All : PendingOf(todo'[g], refund') = PendingOf(todo[g], refund)
    BY SamePending DEF RefundsInv
  <1>2. Pending' = Pending
    BY <1>1 DEF Pending
  <1>3. SentCash' = SentCash
    BY DEF SentCash, SameSent
  <1>4. InBalance'
    BY <1>2, <1>3 DEF RefundsInv, InBalance, SameCrashes
  <1> QED BY <1>4 DEF RefundsInv

LEMMA RestHolds ==
  ASSUME RefundsInv, RefundTypes', RefundsKept, todo' = todo,
         SameSent, SameCrashes, books' = books, unheard' = unheard
  PROVE  RefundsInv'
  <1>1. \A g \in All : PendingOf(todo'[g], refund') = PendingOf(todo[g], refund)
    BY SamePending DEF RefundsInv
  <1>2. Pending' = Pending
    BY <1>1 DEF Pending
  <1>3. SentCash' = SentCash
    BY DEF SentCash, SameSent
  <1>4. InBalance'
    BY <1>2, <1>3 DEF RefundsInv, InBalance, SameCrashes
  <1>5. TodoFits'
    <2>1. \A g \in All : todo[g] \in ListsOf(FitSteps(refund'), LaterSteps(refund'))
      BY StepsStay, ListsGrow DEF RefundsInv, TodoFits
    <2> QED BY <2>1 DEF RefundsInv, TodoFits
  <1> QED BY <1>4, <1>5 DEF RefundsInv

LEMMA MoneyMoves ==
  ASSUME RefundsInv, RefundTypes', TodoFits', RefundsKept, NEW h \in All, NEW r \in RefundIds,
         \A u \in RefundIds : u # r => SentOf(u)' = SentOf(u),
         \A g \in All : g # h => todo'[g] = todo[g],
         SameCrashes, unheard' = {} => unheard = {},
         unheard' = {} =>
           books'.GATEWAY - books.GATEWAY =
             (SentOf(r)' - SentOf(r))
               - (PendingOf(todo'[h], refund') - PendingOf(todo[h], refund))
  PROVE  RefundsInv'
  <1>1. PICK old, new, from, to : /\ old = SentOf(r) /\ new = SentOf(r)'
                                  /\ from = PendingOf(todo[h], refund)
                                  /\ to = PendingOf(todo'[h], refund')
    OBVIOUS
  <1>2. PICK s1, s2, p1, p2 : s1 = SentCash /\ s2 = SentCash' /\ p1 = Pending /\ p2 = Pending'
    OBVIOUS
  <1>3. s1 \in Int /\ new \in Int /\ s2 = s1 + new - old
    BY <1>1, <1>2, SentChanged DEF RefundsInv
  <1>4. p1 \in Int /\ from \in Int /\ to \in Int /\ p2 = p1 + to - from
    BY <1>1, <1>2, PendingChanged DEF RefundsInv
  <1>5. old \in Int
    BY <1>1, SentType DEF RefundsInv
  <1>6. PICK b1, b2 : b1 = books.GATEWAY /\ b2 = books'.GATEWAY
    OBVIOUS
  <1>7. b1 \in Int /\ b2 \in Int
    BY <1>6 DEF RefundsInv, RefundTypes, Accounts, Zero
  <1>8. ASSUME faults'.crashes = 0, unheard' = {} PROVE b2 = s2 - p2
    <2>1. b1 = s1 - p1
      BY <1>2, <1>6, <1>8 DEF RefundsInv, InBalance, SameCrashes
    <2>2. b2 - b1 = (new - old) - (to - from)
      BY <1>1, <1>6, <1>8
    <2> QED BY <1>3, <1>4, <1>5, <1>7, <2>1, <2>2
  <1>9. InBalance'
    BY <1>2, <1>6, <1>8 DEF InBalance
  <1> QED BY <1>9 DEF RefundsInv

(* Changes of the rows *)

LEMMA SameRows ==
  ASSUME RefundTypes, UNCHANGED <<refund, accepted, books>>, UNCHANGED faults \/ Refused
  PROVE  RefundTypes' /\ RefundsKept /\ SameSent /\ SameCrashes
  <1>1. SameCrashes /\ faults' \in [crashes : Nat, failures : Nat]
    BY FaultsKept
  <1>2. RefundTypes'
    BY <1>1 DEF RefundTypes
  <1>3. RefundsKept
    BY DEF RefundsKept, RowsIn
  <1>4. SameSent
    BY DEF SameSent, SentOf
  <1> QED BY <1>1, <1>2, <1>3, <1>4

LEMMA RowChanged ==
  ASSUME RefundTypes, NEW r \in RowsIn(refund), NEW row \in RefundRows,
         row.cash = refund[r].cash, refund' = [refund EXCEPT ![r] = row],
         books' \in [Accounts -> Int], UNCHANGED <<accepted, faults>>
  PROVE  /\ RefundTypes' /\ RefundsKept /\ SameSent /\ SameCrashes
         /\ RowsIn(refund') = RowsIn(refund)
         /\ refund'[r] = row /\ \A u \in RefundIds : u # r => refund'[u] = refund[u]
  <1>1. r \in RefundIds /\ refund[r] # NoRefund /\ row # NoRefund
    BY DEF RowsIn, RefundRows, NoRefund
  <1>2. /\ refund' \in [RefundIds -> RefundRows \cup {NoRefund}] /\ refund'[r] = row
        /\ \A u \in RefundIds : u # r => refund'[u] = refund[u]
    BY <1>1 DEF RefundTypes
  <1>3. RefundTypes'
    BY <1>1, <1>2 DEF RefundTypes
  <1>4. RefundsKept /\ RowsIn(refund') = RowsIn(refund)
    BY <1>1, <1>2 DEF RefundsKept, RowsIn
  <1>5. \A u \in RefundIds : refund'[u].cash = refund[u].cash
    BY <1>1, <1>2
  <1>6. SameSent
    BY <1>5 DEF SameSent, SentOf
  <1> QED BY <1>2, <1>3, <1>4, <1>6 DEF SameCrashes

(* A row with more attempts, with another status, or sent.                 *)
LEMMA Tried ==
  ASSUME NEW old \in RefundRows
  PROVE  /\ [old EXCEPT !.attempts = @ + 1] \in RefundRows
         /\ [old EXCEPT !.attempts = @ + 1].cash = old.cash
         /\ [old EXCEPT !.attempts = @ + 1].sent = old.sent
         /\ [old EXCEPT !.attempts = @ + 1].status = old.status
  BY DEF RefundRows, IsSplit

LEMMA StatusSet ==
  ASSUME NEW old \in RefundRows, NEW st \in {"PENDING", "PROCESSED", "FAILED"}
  PROVE  /\ [old EXCEPT !.status = st] \in RefundRows
         /\ [old EXCEPT !.status = st].cash = old.cash
         /\ [old EXCEPT !.status = st].sent = old.sent
  BY DEF RefundRows, IsSplit

LEMMA SentSet ==
  ASSUME NEW old \in RefundRows, NEW st \in {"PENDING", "PROCESSED", "FAILED"}
  PROVE  /\ [old EXCEPT !.sent = TRUE, !.status = st] \in RefundRows
         /\ [old EXCEPT !.sent = TRUE, !.status = st].cash = old.cash
         /\ [old EXCEPT !.sent = TRUE, !.status = st].sent = TRUE
  BY DEF RefundRows, IsSplit

LEMMA StepRow ==
  ASSUME RefundTypes, TodoFits, NEW h \in All, NEW op \in AboutRow, At(h, op)
  PROVE  /\ todo[h] # <<>> /\ Head(todo[h]).op = op /\ Arg(h) = Head(todo[h])
         /\ Arg(h).id \in RowsIn(refund) /\ Arg(h).id \in RefundIds
         /\ refund[Arg(h).id] \in RefundRows
         /\ op \in PayOps => Arg(h).status \in Counted
  <1>1. Fits(Head(todo[h]), refund)
    BY HeadStep DEF At
  <1>2. Arg(h).id \in RowsIn(refund)
    BY <1>1 DEF Fits, At, Arg
  <1>3. op \in PayOps => Arg(h).status \in Counted
    BY <1>1 DEF Fits, At, Arg
  <1> QED BY <1>2, <1>3 DEF At, Arg, RowsIn, RefundTypes

LEMMA AskedStep ==
  ASSUME TodoFits, NEW h \in All, NEW op \in AskOps, At(h, op)
  PROVE  /\ todo[h] # <<>> /\ Head(todo[h]).op = op /\ Arg(h) = Head(todo[h])
         /\ Arg(h) \in AskSteps /\ IsSplit(Arg(h))
  <1>1. Fits(Head(todo[h]), refund)
    BY HeadStep DEF At
  <1> QED BY <1>1 DEF Fits, At, Arg

LEMMA OpsAre ==
  /\ "attempt" \in AboutRow /\ "claimRefund" \in AboutRow /\ "callRefund" \in AboutRow
  /\ "failRefund" \in AboutRow /\ "tallyRefund" \in AboutRow /\ "saveRefund" \in AboutRow
  /\ "createRefund" \in AskOps /\ "insertRefund" \in AskOps
  /\ "tallyRefund" \in PayOps /\ "saveRefund" \in PayOps
  /\ IdOps = {"attempt", "callRefund", "failRefund"}
  /\ PayOps = {"tallyRefund", "saveRefund"} /\ AskOps = {"createRefund", "insertRefund"}
  BY DEF AboutRow, AskOps, IdOps, PayOps

----------------------------------------------------------------------------
(* The actions.  One that goes on without money:                           *)

LEMMA OnHolds ==
  ASSUME RefundsInv, RefundTypes', RefundsKept, SameSent, SameCrashes, books' = books,
         unheard' = unheard, NEW h \in All, todo[h] # <<>>, Head(todo[h]).op \notin PayOps,
         NEW s \in FitSteps(refund'), s.op \notin PayOps, Continue(h, <<s>>)
  PROVE  RefundsInv'
  <1>1. /\ TodoFits' /\ todo'[h] # <<>> /\ Head(todo'[h]) = s
        /\ \A g \in All : g # h => todo'[g] = todo[g]
    BY GoesOnWith DEF RefundsInv
  <1>2. PendingOf(todo'[h], refund') = 0 /\ PendingOf(todo[h], refund) = 0
    BY <1>1, NothingPending
  <1> QED BY <1>1, <1>2, QuietHolds

LEMMA BackHolds ==
  ASSUME RefundsInv, RefundTypes', RefundsKept, SameSent, SameCrashes, books' = books,
         unheard' = unheard, NEW h \in All, todo[h] # <<>>, Head(todo[h]).op \notin PayOps,
         NEW steps \in Seq(LaterSteps(refund')), Continue(h, steps)
  PROVE  RefundsInv'
  <1>1. /\ TodoFits' /\ PendingOf(todo'[h], refund') = 0
        /\ \A g \in All : g # h => todo'[g] = todo[g]
    BY GoesOn DEF RefundsInv
  <1>2. PendingOf(todo[h], refund) = 0
    BY NothingPending
  <1> QED BY <1>1, <1>2, QuietHolds

LEMMA ReturnHolds ==
  ASSUME RefundsInv, RefundTypes', RefundsKept, SameSent, SameCrashes, books' = books,
         unheard' = unheard, NEW h \in All, todo[h] # <<>>, Head(todo[h]).op \notin PayOps,
         Return(h)
  PROVE  RefundsInv'
  <1>1. <<>> \in Seq(LaterSteps(refund'))
    OBVIOUS
  <1> QED BY <1>1, BackHolds DEF Return

LEMMA ThrowHolds ==
  ASSUME RefundsInv, RefundTypes', RefundsKept, SameSent, SameCrashes, books' = books,
         unheard' = unheard, NEW h \in All, todo[h] # <<>>, Head(todo[h]).op \notin PayOps,
         Throw(h)
  PROVE  RefundsInv' /\ todo' = [todo EXCEPT ![h] = <<>>]
  <1>1. Catches(h) = {}
    <2>1. todo[h] \in Seq(FitSteps(refund))
      BY DEF RefundsInv, TodoFits, ListsOf
    <2>2. \A i \in 1..Len(todo[h]) : todo[h][i] \in FitSteps(refund)
      BY <2>1
    <2> QED BY <2>2 DEF Catches, FitSteps, Fits
  <1>2. todo' = [todo EXCEPT ![h] = <<>>]
    BY <1>1 DEF Throw
  <1>3. <<>> \in ListsOf(FitSteps(refund'), LaterSteps(refund'))
    <2>1. PICK F, L : F = FitSteps(refund') /\ L = LaterSteps(refund')
      OBVIOUS
    <2>2. <<>> \in ListsOf(F, L)
      BY DEF ListsOf
    <2> QED BY <2>1, <2>2
  <1>4. TodoFits' /\ todo'[h] = <<>> /\ \A g \in All : g # h => todo'[g] = todo[g]
    BY <1>2, <1>3, ListChanged DEF RefundsInv
  <1>5. PendingOf(todo'[h], refund') = 0 /\ PendingOf(todo[h], refund) = 0
    BY <1>4, NothingPending
  <1> QED BY <1>2, <1>4, <1>5, QuietHolds

LEMMA Inserting ==
  ASSUME NEW s \in AskSteps, IsSplit(s)
  PROVE  /\ [s EXCEPT !.op = "insertRefund"] \in AskSteps
         /\ IsSplit([s EXCEPT !.op = "insertRefund"])
         /\ [s EXCEPT !.op = "insertRefund"].op = "insertRefund"
  BY DEF AskSteps, AskOps, IsSplit

LEMMA CheckHolds ==
  ASSUME RefundsInv, NEW h \in All, Check(h)
  PROVE  RefundsInv'
  <1>1. RefundTypes' /\ RefundsKept /\ SameSent /\ SameCrashes
    BY SameRows DEF Check, RefundsInv
  <1>2. books' = books /\ unheard' = unheard /\ refund' = refund
    BY DEF Check
  <1>3. /\ todo[h] # <<>> /\ Head(todo[h]).op = "createRefund"
        /\ Arg(h) \in AskSteps /\ IsSplit(Arg(h))
    BY AskedStep, OpsAre DEF Check, RefundsInv
  <1>4. Head(todo[h]).op \notin PayOps
    BY <1>3, OpsAre
  <1>5. CASE Throw(h)
    BY <1>1, <1>2, <1>3, <1>4, <1>5, ThrowHolds
  <1>6. CASE Return(h)
    BY <1>1, <1>2, <1>3, <1>4, <1>6, ReturnHolds
  <1>7. CASE Continue(h, <<[Arg(h) EXCEPT !.op = "insertRefund"]>>)
    <2>1. PICK s : s = [Arg(h) EXCEPT !.op = "insertRefund"]
      OBVIOUS
    <2>2. s \in AskSteps /\ IsSplit(s) /\ s.op = "insertRefund"
      BY <1>3, <2>1, Inserting
    <2>3. s \in FitSteps(refund') /\ s.op \notin PayOps
      BY <2>2, AskStep, OpsAre
    <2>4. Continue(h, <<s>>)
      BY <1>7, <2>1
    <2> QED BY <1>1, <1>2, <1>3, <1>4, <2>3, <2>4, OnHolds
  <1> QED BY <1>5, <1>6, <1>7 DEF Check

(* A new row.                                                              *)
LEMMA RowInserted ==
  ASSUME RefundTypes, NEW s \in AskSteps, IsSplit(s), NEW r \in RefundIds, refund[r] = NoRefund,
         refund' = [refund EXCEPT ![r] =
            [payment |-> s.payment, kind |-> s.kind, cash |-> s.cash,
             amounts |-> s.amounts, status |-> "PENDING", attempts |-> 0, sent |-> FALSE]],
         UNCHANGED <<accepted, books, faults>>
  PROVE  /\ RefundTypes' /\ RefundsKept /\ SameSent /\ SameCrashes
         /\ r \in RowsIn(refund') /\ r \notin RowsIn(refund)
         /\ refund'[r].status = "PENDING" /\ refund'[r].sent = FALSE
         /\ \A u \in RefundIds : u # r => refund'[u] = refund[u]
  <1>1. PICK row : row = [payment |-> s.payment, kind |-> s.kind, cash |-> s.cash,
             amounts |-> s.amounts, status |-> "PENDING", attempts |-> 0, sent |-> FALSE]
    OBVIOUS
  <1>2. row \in RefundRows /\ row.status = "PENDING" /\ row.sent = FALSE
    BY <1>1 DEF RefundRows, AskSteps, IsSplit
  <1>3. row # NoRefund
    BY <1>2 DEF NoRefund
  <1>4. /\ refund' \in [RefundIds -> RefundRows \cup {NoRefund}] /\ refund'[r] = row
        /\ \A u \in RefundIds : u # r => refund'[u] = refund[u]
    BY <1>1, <1>2 DEF RefundTypes
  <1>5. accepted[r] = 0 /\ accepted' = accepted
    BY DEF RefundTypes
  <1>6. RefundTypes'
    BY <1>3, <1>4 DEF RefundTypes
  <1>7. RefundsKept /\ r \in RowsIn(refund') /\ r \notin RowsIn(refund)
    BY <1>3, <1>4 DEF RefundsKept, RowsIn
  <1>8. SameSent
    <2>1. \A u \in RefundIds : u # r => SentOf(u)' = SentOf(u)
      BY <1>4, <1>5 DEF SentOf
    <2>2. SentOf(r) = 0
      <3>1. refund[r].cash = 0
        BY DEF NoRefund
      <3> QED BY <1>5, <3>1 DEF SentOf
    <2>3. SentOf(r)' = 0
      <3>1. PICK c : c = row.cash
        OBVIOUS
      <3>2. c \in Int
        BY <1>2, <3>1 DEF RefundRows
      <3>3. SentOf(r)' = 0 * c
        BY <1>4, <1>5, <3>1 DEF SentOf
      <3> QED BY <3>2, <3>3
    <2> QED BY <2>1, <2>2, <2>3 DEF SameSent
  <1> QED BY <1>2, <1>4, <1>6, <1>7, <1>8 DEF SameCrashes

LEMMA InsertHolds ==
  ASSUME RefundsInv, NEW h \in All, Insert(h)
  PROVE  RefundsInv'
  <1>1. /\ todo[h] # <<>> /\ Head(todo[h]).op = "insertRefund"
        /\ Arg(h) \in AskSteps /\ IsSplit(Arg(h))
    BY AskedStep, OpsAre DEF Insert, RefundsInv
  <1>2. PICK r \in RefundIds :
           /\ refund[r] = NoRefund
           /\ refund' = [refund EXCEPT ![r] =
                [payment |-> Arg(h).payment, kind |-> Arg(h).kind, cash |-> Arg(h).cash,
                 amounts |-> Arg(h).amounts, status |-> "PENDING", attempts |-> 0, sent |-> FALSE]]
           /\ Continue(h, <<[op |-> "attempt", id |-> r]>>)
    BY DEF Insert
  <1>3. UNCHANGED <<accepted, books, faults, unheard>>
    BY DEF Insert
  <1>4. /\ RefundTypes' /\ RefundsKept /\ SameSent /\ SameCrashes /\ r \in RowsIn(refund')
    BY <1>1, <1>2, <1>3, RowInserted DEF RefundsInv
  <1>5. [op |-> "attempt", id |-> r] \in FitSteps(refund')
    BY <1>4, IdStep, OpsAre
  <1>6. Head(todo[h]).op \notin PayOps /\ "attempt" \notin PayOps
    BY <1>1, OpsAre
  <1> QED BY <1>1, <1>2, <1>3, <1>4, <1>5, <1>6, OnHolds

LEMMA AttemptHolds ==
  ASSUME RefundsInv, NEW h \in All, Attempt(h)
  PROVE  RefundsInv'
  <1>1. RefundTypes' /\ RefundsKept /\ SameSent /\ SameCrashes
    BY SameRows DEF Attempt, RefundsInv
  <1>2. books' = books /\ unheard' = unheard /\ refund' = refund
    BY DEF Attempt
  <1>3. /\ todo[h] # <<>> /\ Head(todo[h]).op = "attempt"
        /\ Arg(h).id \in RowsIn(refund) /\ refund[Arg(h).id] \in RefundRows
    BY StepRow, OpsAre DEF Attempt, RefundsInv
  <1>4. PICK s : s = [op |-> "claimRefund", id |-> Arg(h).id,
                      attempts |-> refund[Arg(h).id].attempts]
    OBVIOUS
  <1>5. refund[Arg(h).id].attempts \in Nat
    BY <1>3 DEF RefundRows
  <1>6. s \in FitSteps(refund') /\ s.op = "claimRefund"
    BY <1>2, <1>3, <1>4, <1>5, ClaimStep
  <1>7. Continue(h, <<s>>)
    BY <1>4 DEF Attempt
  <1>8. Head(todo[h]).op \notin PayOps /\ s.op \notin PayOps
    BY <1>3, <1>6, OpsAre
  <1> QED BY <1>1, <1>2, <1>3, <1>6, <1>7, <1>8, OnHolds

LEMMA ClaimHolds ==
  ASSUME RefundsInv, NEW h \in All, Claim(h)
  PROVE  RefundsInv'
  <1>1. /\ todo[h] # <<>> /\ Head(todo[h]).op = "claimRefund"
        /\ Arg(h).id \in RowsIn(refund) /\ refund[Arg(h).id] \in RefundRows
    BY StepRow, OpsAre DEF Claim, RefundsInv
  <1>2. books' = books /\ unheard' = unheard /\ accepted' = accepted /\ faults' = faults
    BY DEF Claim
  <1>3. Head(todo[h]).op \notin PayOps /\ "callRefund" \notin PayOps
    BY <1>1, OpsAre
  <1>4. PICK r : r = Arg(h).id
    OBVIOUS
  <1>5. CASE Claimable(r, Arg(h).attempts)
    <2>1. PICK row : row = [refund[r] EXCEPT !.attempts = @ + 1]
      OBVIOUS
    <2>2. row \in RefundRows /\ row.cash = refund[r].cash
      BY <1>1, <1>4, <2>1, Tried
    <2>3. refund' = [refund EXCEPT ![r] = row] /\ Continue(h, <<[op |-> "callRefund", id |-> r]>>)
      BY <1>4, <1>5, <2>1 DEF Claim
    <2>4. books' \in [Accounts -> Int]
      BY <1>2 DEF RefundsInv, RefundTypes
    <2>5. /\ RefundTypes' /\ RefundsKept /\ SameSent /\ SameCrashes /\ RowsIn(refund') = RowsIn(refund)
      BY <1>1, <1>2, <1>4, <2>2, <2>3, <2>4, RowChanged DEF RefundsInv
    <2>6. [op |-> "callRefund", id |-> r] \in FitSteps(refund')
      BY <1>1, <1>4, <2>5, IdStep, OpsAre
    <2> QED BY <1>1, <1>2, <1>3, <2>3, <2>5, <2>6, OnHolds
  <1>6. CASE ~Claimable(r, Arg(h).attempts)
    <2>1. Return(h) /\ refund' = refund
      BY <1>4, <1>6 DEF Claim
    <2>2. RefundTypes' /\ RefundsKept /\ SameSent /\ SameCrashes
      BY <1>2, <2>1, SameRows DEF RefundsInv
    <2> QED BY <1>1, <1>2, <1>3, <2>1, <2>2, ReturnHolds
  <1> QED BY <1>5, <1>6

(* Razorpay accepts: the cash is pending until it is saved.                *)
LEMMA OneMore ==
  ASSUME NEW n \in Nat, NEW c \in Int
  PROVE  (n + 1) * c - n * c = c /\ (n + 1) * c \in Int /\ n * c \in Int
  OBVIOUS

LEMMA AcceptedOnce ==
  ASSUME RefundTypes, NEW r \in RowsIn(refund), accepted' = [accepted EXCEPT ![r] = @ + 1],
         UNCHANGED <<refund, books>>, UNCHANGED faults \/ Refused
  PROVE  /\ RefundTypes' /\ RefundsKept /\ SameCrashes
         /\ \A u \in RefundIds : u # r => SentOf(u)' = SentOf(u)
         /\ SentOf(r)' - SentOf(r) = refund[r].cash
         /\ accepted'[r] = accepted[r] + 1
         /\ \A u \in RefundIds : u # r => accepted'[u] = accepted[u]
  <1>1. r \in RefundIds /\ refund[r] # NoRefund
    BY DEF RowsIn
  <1>2. /\ accepted' \in [RefundIds -> Nat] /\ accepted'[r] = accepted[r] + 1
        /\ \A u \in RefundIds : u # r => accepted'[u] = accepted[u]
    BY <1>1 DEF RefundTypes
  <1>3. SameCrashes /\ faults' \in [crashes : Nat, failures : Nat]
    BY FaultsKept
  <1>4. RefundTypes'
    BY <1>1, <1>2, <1>3 DEF RefundTypes
  <1>5. RefundsKept
    BY DEF RefundsKept, RowsIn
  <1>6. \A u \in RefundIds : u # r => SentOf(u)' = SentOf(u)
    BY <1>2 DEF SentOf
  <1>7. SentOf(r)' - SentOf(r) = refund[r].cash
    <2>1. PICK n, c : n = accepted[r] /\ c = refund[r].cash
      OBVIOUS
    <2>2. n \in Nat /\ c \in Int
      BY <1>1, <2>1, SentType
    <2>3. SentOf(r) = n * c /\ SentOf(r)' = (n + 1) * c
      BY <1>2, <2>1 DEF SentOf
    <2> QED BY <2>1, <2>2, <2>3, OneMore
  <1> QED BY <1>2, <1>3, <1>4, <1>5, <1>6, <1>7

LEMMA AcceptedHolds ==
  ASSUME RefundsInv, NEW h \in All, Accepted(h)
  PROVE  RefundsInv'
  <1>1. /\ todo[h] # <<>> /\ Head(todo[h]).op = "callRefund"
        /\ Arg(h).id \in RowsIn(refund) /\ Arg(h).id \in RefundIds
        /\ refund[Arg(h).id] \in RefundRows
    BY StepRow, OpsAre DEF Accepted, RefundsInv
  <1>2. PICK r : r = Arg(h).id
    OBVIOUS
  <1>3. PICK st \in Counted : Continue(h, <<[op |-> "tallyRefund", id |-> r, status |-> st]>>)
    BY <1>2 DEF Accepted
  <1>4. /\ accepted' = [accepted EXCEPT ![r] = @ + 1] /\ UNCHANGED <<refund, books, faults>>
        /\ unheard' = unheard
    BY <1>2 DEF Accepted
  <1>5. /\ RefundTypes' /\ RefundsKept /\ SameCrashes
        /\ \A u \in RefundIds : u # r => SentOf(u)' = SentOf(u)
        /\ SentOf(r)' - SentOf(r) = refund[r].cash
    BY <1>1, <1>2, <1>4, AcceptedOnce DEF RefundsInv
  <1>6. PICK s : s = [op |-> "tallyRefund", id |-> r, status |-> st]
    OBVIOUS
  <1>7. s \in FitSteps(refund') /\ s.op = "tallyRefund" /\ s.id = r
    BY <1>1, <1>2, <1>4, <1>6, TallyStep
  <1>8. /\ TodoFits' /\ todo'[h] # <<>> /\ Head(todo'[h]) = s
        /\ \A g \in All : g # h => todo'[g] = todo[g]
    BY <1>1, <1>3, <1>5, <1>6, <1>7, GoesOnWith DEF RefundsInv
  <1>9. PendingOf(todo'[h], refund') = refund[r].cash /\ PendingOf(todo[h], refund) = 0
    BY <1>1, <1>4, <1>7, <1>8, OpsAre DEF PendingOf
  <1>10. refund[r].cash \in Int /\ books.GATEWAY \in Int
    BY <1>1, <1>2, SentType DEF RefundsInv, RefundTypes, Accounts, Zero
  <1>11. books'.GATEWAY - books.GATEWAY =
           (SentOf(r)' - SentOf(r)) - (PendingOf(todo'[h], refund') - PendingOf(todo[h], refund))
    BY <1>4, <1>5, <1>9, <1>10
  <1> QED BY <1>1, <1>2, <1>4, <1>5, <1>8, <1>11, MoneyMoves

(* It refuses, or its answer is lost.                                      *)
LEMMA RefusedHolds ==
  ASSUME RefundsInv, NEW h \in All, RefusedRefund(h)
  PROVE  RefundsInv'
  <1>1. /\ todo[h] # <<>> /\ Head(todo[h]).op = "callRefund"
        /\ Arg(h).id \in RowsIn(refund) /\ Arg(h).id \in RefundIds
    BY StepRow, OpsAre DEF RefusedRefund, RefundsInv
  <1>2. PICK r : r = Arg(h).id
    OBVIOUS
  <1>3. /\ Continue(h, <<[op |-> "failRefund", id |-> r]>>) /\ UNCHANGED <<refund, books>> /\ Refused
    BY <1>2 DEF RefusedRefund
  <1>4. [op |-> "failRefund", id |-> r] \in FitSteps(refund')
    BY <1>1, <1>2, <1>3, IdStep, OpsAre
  <1>5. Head(todo[h]).op \notin PayOps /\ "failRefund" \notin PayOps
    BY <1>1, OpsAre
  <1>6. CASE UNCHANGED <<accepted, unheard>>
    <2>1. RefundTypes' /\ RefundsKept /\ SameSent /\ SameCrashes
      BY <1>3, <1>6, SameRows DEF RefundsInv
    <2> QED BY <1>1, <1>3, <1>4, <1>5, <1>6, <2>1, OnHolds
  <1>7. CASE accepted' = [accepted EXCEPT ![r] = @ + 1] /\ unheard' = unheard \cup {r}
    <2>1. /\ RefundTypes' /\ RefundsKept /\ SameCrashes
          /\ \A u \in RefundIds : u # r => SentOf(u)' = SentOf(u)
      BY <1>1, <1>2, <1>3, <1>7, AcceptedOnce DEF RefundsInv
    <2>2. TodoFits' /\ \A g \in All : g # h => todo'[g] = todo[g]
      BY <1>1, <1>3, <1>4, <2>1, GoesOnWith DEF RefundsInv
    <2>3. unheard' # {}
      BY <1>7
    <2> QED BY <1>1, <1>2, <2>1, <2>2, <2>3, MoneyMoves
  <1> QED BY <1>2, <1>6, <1>7 DEF RefusedRefund

LEMMA FailHolds ==
  ASSUME RefundsInv, NEW h \in All, Fail(h)
  PROVE  RefundsInv'
  <1>1. /\ todo[h] # <<>> /\ Head(todo[h]).op = "failRefund"
        /\ Arg(h).id \in RowsIn(refund) /\ refund[Arg(h).id] \in RefundRows
    BY StepRow, OpsAre DEF Fail, RefundsInv
  <1>2. PICK r : r = Arg(h).id
    OBVIOUS
  <1>3. PICK row : row = [refund[r] EXCEPT !.status = "FAILED"]
    OBVIOUS
  <1>4. row \in RefundRows /\ row.cash = refund[r].cash
    BY <1>1, <1>2, <1>3, StatusSet
  <1>5. /\ refund' = [refund EXCEPT ![r] = row] /\ Return(h)
        /\ UNCHANGED <<books, accepted, unheard, faults>>
    BY <1>2, <1>3 DEF Fail
  <1>6. books' \in [Accounts -> Int]
    BY <1>5 DEF RefundsInv, RefundTypes
  <1>7. RefundTypes' /\ RefundsKept /\ SameSent /\ SameCrashes
    BY <1>1, <1>2, <1>4, <1>5, <1>6, RowChanged DEF RefundsInv
  <1>8. Head(todo[h]).op \notin PayOps
    BY <1>1, OpsAre
  <1> QED BY <1>1, <1>5, <1>7, <1>8, ReturnHolds

LEMMA CashInType ==
  ASSUME RefundTypes, NEW rows \in SUBSET RefundIds
  PROVE  CashIn(rows) \in Int
  <1>1. IsFiniteSet(rows)
    BY RefundIdsFinite, FS_Subset
  <1>2. PICK f : f = [r \in rows |-> refund[r].cash]
    OBVIOUS
  <1>3. \A r \in rows : refund[r].cash \in Int
    BY SentType
  <1>4. f \in [rows -> Int]
    BY <1>2, <1>3
  <1>5. SumFunction(f) \in Int
    BY <1>1, <1>4, SumType
  <1> QED BY <1>2, <1>5 DEF CashIn

LEMMA TallyHolds ==
  ASSUME RefundsInv, NEW h \in All, Tally(h)
  PROVE  RefundsInv'
  <1>1. /\ todo[h] # <<>> /\ Head(todo[h]).op = "tallyRefund"
        /\ Arg(h).id \in RowsIn(refund) /\ Arg(h).id \in RefundIds /\ Arg(h).status \in Counted
        /\ Arg(h) = Head(todo[h])
    BY StepRow, OpsAre DEF Tally, RefundsInv
  <1>2. PICK r, st : r = Arg(h).id /\ st = Arg(h).status
    OBVIOUS
  <1>3. PICK rows : rows = {q \in RefundsOf(refund[r].payment) \ {r} :
                              refund[q].sent /\ refund[q].status \in Counted}
    OBVIOUS
  <1>4. PICK n : n = CashIn(rows) + refund[r].cash
    OBVIOUS
  <1>5. n \in Int
    <2>1. rows \in SUBSET RefundIds
      BY <1>3 DEF RefundsOf
    <2>2. CashIn(rows) \in Int /\ refund[r].cash \in Int
      BY <1>1, <1>2, <2>1, CashInType, SentType DEF RefundsInv
    <2> QED BY <1>4, <2>2
  <1>6. PICK s : s = [op |-> "saveRefund", id |-> r, status |-> st, sum |-> n]
    OBVIOUS
  <1>7. Continue(h, <<s>>) /\ UNCHANGED <<refund, accepted, books, unheard, faults>>
    BY <1>2, <1>3, <1>4, <1>6 DEF Tally
  <1>8. RefundTypes' /\ RefundsKept /\ SameSent /\ SameCrashes
    BY <1>7, SameRows DEF RefundsInv
  <1>9. s \in FitSteps(refund') /\ s.op = "saveRefund" /\ s.id = r
    BY <1>1, <1>2, <1>5, <1>6, <1>7, SaveStep
  <1>10. /\ TodoFits' /\ todo'[h] # <<>> /\ Head(todo'[h]) = s
         /\ \A g \in All : g # h => todo'[g] = todo[g]
    BY <1>1, <1>7, <1>8, <1>9, GoesOnWith DEF RefundsInv
  <1>11. PendingOf(todo'[h], refund') = PendingOf(todo[h], refund)
    BY <1>1, <1>2, <1>7, <1>9, <1>10, OpsAre DEF PendingOf
  <1> QED BY <1>7, <1>8, <1>10, <1>11, QuietHolds

(* What is posted for a refund takes its cash from the balance, and no     *)
(* more.                                                                   *)
LEMMA CommissionType ==
  ASSUME NEW n \in Int
  PROVE  CommissionOn(n) \in Int
  <1>1. PICK p : p = n * Bps + 5000
    OBVIOUS
  <1>2. p \in Int
    BY <1>1, BpsAssumption
  <1>3. p \div 10000 \in Int
    BY <1>2
  <1> QED BY <1>1, <1>3 DEF CommissionOn

LEMMA RefundPosted ==
  ASSUME NEW b \in [Accounts -> Int], NEW row \in RefundRows
  PROVE  /\ Posted(b, PostingsOf(row)) \in [Accounts -> Int]
         /\ Posted(b, PostingsOf(row)).GATEWAY = b.GATEWAY + row.cash
  <1>1. row.cash \in Int /\ IsSplit(row)
    BY DEF RefundRows
  <1>2. CASE row.kind = "MANUAL"
    <2>1. PICK n : n = row.cash
      OBVIOUS
    <2>2. PICK b2 : b2 = Posted(b, GoodwillPostings(n))
      OBVIOUS
    <2>3. b2 \in [Accounts -> Int] /\ b2.GATEWAY = b.GATEWAY + n
      BY <1>1, <2>1, <2>2 DEF Posted, GoodwillPostings, Move, Zero, Accounts
    <2> QED BY <1>2, <2>1, <2>2, <2>3 DEF PostingsOf
  <1>3. CASE row.kind # "MANUAL"
    <2>1. PICK a, back, n : /\ a = row.amounts /\ back = CommissionBack(row.amounts, Rent)
                            /\ n = row.cash
      OBVIOUS
    <2>2. a.rent \in Int /\ a.fee \in Int /\ a.deposit \in Int /\ a.credit \in Int
      BY <2>1 DEF RefundRows, Amounts
    <2>3. back \in Int
      <3>1. PICK m : m = Rent - a.rent
        OBVIOUS
      <3>2. Rent \in Int /\ m \in Int
        BY <2>2, <3>1, RefundsAssumption
      <3>3. CommissionOn(Rent) \in Int /\ CommissionOn(m) \in Int
        BY <3>2, CommissionType
      <3>4. back = CommissionOn(Rent) - CommissionOn(m)
        BY <2>1, <3>1 DEF CommissionBack
      <3> QED BY <3>3, <3>4
    <2>4. CashOf(a) = n /\ n \in Int
      BY <1>1, <1>3, <2>1 DEF IsSplit
    <2>5. PICK debit, credit :
             /\ debit = [Zero EXCEPT !.DEPOSIT_HELD = a.deposit,
                                     !.LENDER_PAYABLE = a.rent - back,
                                     !.PLATFORM_REVENUE = back + a.fee]
             /\ credit = [Zero EXCEPT !.GATEWAY = n, !.PROMOTIONS = a.credit]
      OBVIOUS
    <2>6. debit \in [Accounts -> Int] /\ credit \in [Accounts -> Int]
      <3>1. PICK d, l, p, k : d = a.deposit /\ l = a.rent - back /\ p = back + a.fee /\ k = a.credit
        OBVIOUS
      <3>2. d \in Int /\ l \in Int /\ p \in Int /\ k \in Int
        BY <2>2, <2>3, <3>1
      <3>3. Zero \in [Accounts -> Int]
        BY DEF Zero, Accounts
      <3>4. /\ debit = [Zero EXCEPT !.DEPOSIT_HELD = d, !.LENDER_PAYABLE = l, !.PLATFORM_REVENUE = p]
            /\ credit = [Zero EXCEPT !.GATEWAY = n, !.PROMOTIONS = k]
        BY <2>5, <3>1
      <3> QED BY <2>4, <3>2, <3>3, <3>4
    <2>7. debit.GATEWAY = 0 /\ credit.GATEWAY = n
      BY <2>5 DEF Zero
    <2>8. PICK lines : lines = [debit |-> debit, credit |-> credit]
      OBVIOUS
    <2>9. PostingsOf(row) = lines
      BY <1>3, <2>1, <2>4, <2>5, <2>8 DEF PostingsOf, RefundPostings
    <2>10. PICK b2 : b2 = Posted(b, lines)
      OBVIOUS
    <2>11. b2 = [c \in Accounts |-> b[c] + credit[c] - debit[c]]
      BY <2>8, <2>10 DEF Posted
    <2>12. b2 \in [Accounts -> Int]
      BY <2>6, <2>11
    <2>13. b2.GATEWAY = b.GATEWAY + n
      <3>1. "GATEWAY" \in Accounts
        BY AccountsAre
      <3>2. b.GATEWAY \in Int
        BY <3>1
      <3> QED BY <2>4, <2>7, <2>11, <3>1, <3>2
    <2> QED BY <2>1, <2>9, <2>10, <2>12, <2>13
  <1> QED BY <1>2, <1>3

LEMMA SaveHolds ==
  ASSUME RefundsInv, NEW h \in All, Save(h)
  PROVE  RefundsInv'
  <1>1. /\ todo[h] # <<>> /\ Head(todo[h]).op = "saveRefund" /\ Arg(h) = Head(todo[h])
        /\ Arg(h).id \in RowsIn(refund) /\ Arg(h).id \in RefundIds
        /\ refund[Arg(h).id] \in RefundRows /\ Arg(h).status \in Counted
    BY StepRow, OpsAre DEF Save, RefundsInv
  <1>2. PICK r, st : r = Arg(h).id /\ st = Arg(h).status
    OBVIOUS
  <1>3. PICK row : row = [refund[r] EXCEPT !.sent = TRUE, !.status = st]
    OBVIOUS
  <1>4. row \in RefundRows /\ row.cash = refund[r].cash
    BY <1>1, <1>2, <1>3, SentSet DEF Counted
  <1>5. /\ refund' = [refund EXCEPT ![r] = row] /\ Return(h)
        /\ books' = Posted(books, PostingsOf(refund[r]))
        /\ UNCHANGED <<accepted, unheard, faults>>
    BY <1>2, <1>3 DEF Save
  <1>6. books' \in [Accounts -> Int] /\ books'.GATEWAY = books.GATEWAY + refund[r].cash
    BY <1>1, <1>2, <1>5, RefundPosted DEF RefundsInv, RefundTypes
  <1>7. RefundTypes' /\ RefundsKept /\ SameSent /\ SameCrashes
    BY <1>1, <1>2, <1>4, <1>5, <1>6, RowChanged DEF RefundsInv
  <1>8. <<>> \in Seq(LaterSteps(refund'))
    OBVIOUS
  <1>9. /\ TodoFits' /\ PendingOf(todo'[h], refund') = 0
        /\ \A g \in All : g # h => todo'[g] = todo[g]
    BY <1>1, <1>5, <1>7, <1>8, GoesOn DEF RefundsInv, Return
  <1>10. PendingOf(todo[h], refund) = refund[r].cash
    BY <1>1, <1>2, OpsAre DEF PendingOf
  <1>11. SentOf(r)' = SentOf(r) /\ SentOf(r) \in Int /\ refund[r].cash \in Int
    BY <1>1, <1>2, <1>7, SentType DEF SameSent, RefundsInv
  <1>12. books.GATEWAY \in Int
    BY DEF RefundsInv, RefundTypes, Accounts, Zero
  <1>13. books'.GATEWAY - books.GATEWAY =
           (SentOf(r)' - SentOf(r)) - (PendingOf(todo'[h], refund') - PendingOf(todo[h], refund))
    BY <1>6, <1>9, <1>10, <1>11, <1>12
  <1> QED BY <1>1, <1>2, <1>5, <1>7, <1>9, <1>13, MoneyMoves DEF SameSent

LEMMA SettleHolds ==
  ASSUME RefundsInv, NEW r \in RefundIds, NEW ok \in BOOLEAN, Settle(r, ok)
  PROVE  RefundsInv'
  <1>1. refund[r] # NoRefund
    BY DEF Settle, RefundsInv, RefundTypes
  <1>2. r \in RowsIn(refund) /\ refund[r] \in RefundRows
    BY <1>1 DEF RowsIn, RefundsInv, RefundTypes
  <1>3. PICK row : row = [refund[r] EXCEPT !.status = IF ok THEN "PROCESSED" ELSE "FAILED"]
    OBVIOUS
  <1>4. row \in RefundRows /\ row.cash = refund[r].cash
    BY <1>2, <1>3, StatusSet
  <1>5. refund' = [refund EXCEPT ![r] = row] /\ UNCHANGED <<books, accepted, unheard, todo, faults>>
    BY <1>3 DEF Settle
  <1>6. books' \in [Accounts -> Int]
    BY <1>5 DEF RefundsInv, RefundTypes
  <1>7. RefundTypes' /\ RefundsKept /\ SameSent /\ SameCrashes
    BY <1>2, <1>4, <1>5, <1>6, RowChanged DEF RefundsInv
  <1> QED BY <1>5, <1>7, RestHolds

(* The steps that the sweep's retries put in front.                        *)
LEMMA Retries ==
  ASSUME RefundTypes
  PROVE  /\ Cardinality(Failed) \in Nat /\ Failed \subseteq RowsIn(refund)
         /\ SetToSeq(Failed) \in [1..Cardinality(Failed) -> Failed]
         /\ \A i, j \in 1..Cardinality(Failed) : SetToSeq(Failed)[i] = SetToSeq(Failed)[j] => i = j
         /\ [i \in 1..Cardinality(Failed) |-> [op |-> "attempt", id |-> SetToSeq(Failed)[i]]]
              \in Seq(LaterSteps(refund))
  <1>1. IsFiniteSet(Failed)
    <2>1. Failed \subseteq RefundIds
      BY DEF Failed
    <2> QED BY <2>1, RefundIdsFinite, FS_Subset
  <1>2. Failed \subseteq RowsIn(refund)
    BY DEF Failed, RowsIn, Retryable, NoRefund
  <1>3. PICK n, q : n = Cardinality(Failed) /\ q = SetToSeq(Failed)
    OBVIOUS
  <1>4. n \in Nat /\ q \in [1..n -> Failed] /\ \A i, j \in 1..n : q[i] = q[j] => i = j
    BY <1>1, <1>3, InSomeOrder
  <1>5. PICK L : L = LaterSteps(refund)
    OBVIOUS
  <1>6. \A i \in 1..n : [op |-> "attempt", id |-> q[i]] \in L
    BY <1>2, <1>4, <1>5, IdStep, OpsAre
  <1>7. [i \in 1..n |-> [op |-> "attempt", id |-> q[i]]] \in [1..n -> L]
    BY <1>6
  <1>8. [i \in 1..n |-> [op |-> "attempt", id |-> q[i]]] \in Seq(L)
    BY <1>4, <1>7, FromList
  <1> QED BY <1>2, <1>3, <1>4, <1>5, <1>8

LEMMA RetryHolds ==
  ASSUME RefundsInv, NEW h \in All, RetryFailed(h)
  PROVE  RefundsInv'
  <1>1. RefundTypes' /\ RefundsKept /\ SameSent /\ SameCrashes
    BY SameRows DEF RetryFailed, RefundsInv
  <1>2. PICK steps : steps = [i \in 1..Cardinality(Failed) |->
                                [op |-> "attempt", id |-> SetToSeq(Failed)[i]]]
    OBVIOUS
  <1>3. Continue(h, steps) /\ refund' = refund /\ books' = books /\ unheard' = unheard
    BY <1>2 DEF RetryFailed
  <1>4. steps \in Seq(LaterSteps(refund'))
    BY <1>2, <1>3, Retries DEF RefundsInv
  <1>5. todo[h] # <<>> /\ Head(todo[h]).op \notin PayOps
    BY OpsAre DEF RetryFailed, At
  <1> QED BY <1>1, <1>3, <1>4, <1>5, BackHolds

LEMMA StartHolds ==
  ASSUME RefundsInv, UNCHANGED <<refund, accepted, books, unheard, faults>>, NEW h \in All,
         NEW s \in FitSteps(refund), s.op \notin PayOps, Begin(h, <<s>>)
  PROVE  RefundsInv'
  <1>1. RefundTypes' /\ RefundsKept /\ SameSent /\ SameCrashes
    BY SameRows DEF RefundsInv
  <1>2. s \in FitSteps(refund')
    OBVIOUS
  <1>3. /\ TodoFits' /\ todo[h] = <<>> /\ todo'[h] # <<>> /\ Head(todo'[h]) = s
        /\ \A g \in All : g # h => todo'[g] = todo[g]
    BY <1>1, <1>2, CallStarts DEF RefundsInv
  <1>4. PendingOf(todo'[h], refund') = PendingOf(todo[h], refund)
    BY <1>3, NothingPending
  <1> QED BY <1>1, <1>3, <1>4, QuietHolds

LEMMA Asked ==
  ASSUME NEW c \in Callers
  PROVE  /\ CreateRefund(c.order, c.kind, c.cash, c.amounts) \in AskSteps
         /\ CreateRefund(c.order, c.kind, c.cash, c.amounts).op = "createRefund"
         /\ IsSplit(CreateRefund(c.order, c.kind, c.cash, c.amounts))
  <1>1. /\ c.order \in Orders /\ c.cash \in Int /\ c.amounts \in Amounts /\ c.kind \in Kinds
        /\ c.kind = "MANUAL" \/ c.cash = CashOf(c.amounts)
    BY RefundsAssumption DEF Amounts, Kinds
  <1> QED BY <1>1 DEF CreateRefund, AskSteps, AskOps, IsSplit

LEMMA AskHolds ==
  ASSUME RefundsInv, NEW h \in All, Ask(h)
  PROVE  RefundsInv'
  <1>1. PICK c \in Callers : Begin(h, <<CreateRefund(c.order, c.kind, c.cash, c.amounts)>>)
    BY DEF Ask
  <1>2. PICK s : s = CreateRefund(c.order, c.kind, c.cash, c.amounts)
    OBVIOUS
  <1>3. s \in FitSteps(refund) /\ s.op \notin PayOps
    BY <1>2, Asked, AskStep, OpsAre
  <1>4. UNCHANGED <<refund, accepted, books, unheard, faults>> /\ Begin(h, <<s>>)
    BY <1>1, <1>2 DEF Ask
  <1> QED BY <1>3, <1>4, StartHolds

LEMMA SweepHolds ==
  ASSUME RefundsInv, NEW h \in All, Sweep(h)
  PROVE  RefundsInv'
  <1>1. PICK s : s = [op |-> "retryRefunds"]
    OBVIOUS
  <1>2. s \in FitSteps(refund) /\ s.op \notin PayOps
    BY <1>1, RetryStep, OpsAre
  <1>3. UNCHANGED <<refund, accepted, books, unheard, faults>> /\ Begin(h, <<s>>)
    BY <1>1 DEF Sweep
  <1> QED BY <1>2, <1>3, StartHolds

LEMMA CrashHolds ==
  ASSUME RefundsInv, Crash
  PROVE  RefundsInv' /\ faults'.crashes # 0
  <1>1. /\ UNCHANGED <<refund, books, accepted, unheard>>
        /\ faults' = [faults EXCEPT !.crashes = @ + 1] /\ todo' = [h \in All |-> <<>>]
    BY DEF Crash, Restart
  <1>2. faults' \in [crashes : Nat, failures : Nat] /\ faults'.crashes # 0
    BY <1>1 DEF RefundsInv, RefundTypes
  <1>3. RefundTypes'
    BY <1>1, <1>2 DEF RefundsInv, RefundTypes
  <1>4. TodoFits'
    <2>1. PICK F, L : F = FitSteps(refund') /\ L = LaterSteps(refund')
      OBVIOUS
    <2>2. <<>> \in ListsOf(F, L)
      BY DEF ListsOf
    <2> QED BY <1>1, <2>1, <2>2 DEF TodoFits
  <1> QED BY <1>2, <1>3, <1>4 DEF RefundsInv, InBalance

LEMMA RefundsStart == Init => RefundsInv
  <1> SUFFICES ASSUME Init PROVE RefundsInv
    OBVIOUS
  <1>1. /\ todo = [h \in All |-> <<>>] /\ faults = [crashes |-> 0, failures |-> 0]
        /\ refund = [r \in RefundIds |-> NoRefund] /\ books = Zero
        /\ accepted = [r \in RefundIds |-> 0]
    BY DEF Init, HandlersInit
  <1>2. RefundTypes
    BY <1>1 DEF RefundTypes, Zero, Accounts
  <1>3. TodoFits
    <2>1. PICK F, L : F = FitSteps(refund) /\ L = LaterSteps(refund)
      OBVIOUS
    <2>2. <<>> \in ListsOf(F, L)
      BY DEF ListsOf
    <2> QED BY <1>1, <2>1, <2>2 DEF TodoFits
  <1>4. InBalance
    <2>1. \A h \in All : PendingOf(todo[h], refund) = 0
      BY <1>1, NothingPending
    <2>2. [h \in All |-> PendingOf(todo[h], refund)] = [h \in All |-> 0]
      BY <2>1
    <2>3. Pending = 0
      BY <2>2, RefundIdsFinite, SumOfZeros DEF Pending
    <2>4. \A r \in RefundIds : SentOf(r) = 0
      <3>1. \A r \in RefundIds : refund[r].cash = 0 /\ accepted[r] = 0
        BY <1>1 DEF NoRefund
      <3> QED BY <3>1 DEF SentOf
    <2>5. [r \in RefundIds |-> SentOf(r)] = [r \in RefundIds |-> 0]
      BY <2>4
    <2>6. SentCash = 0
      BY <2>5, RefundIdsFinite, SumOfZeros DEF SentCash
    <2>7. books.GATEWAY = 0
      BY <1>1 DEF Zero
    <2> QED BY <2>3, <2>6, <2>7 DEF InBalance
  <1> QED BY <1>2, <1>3, <1>4 DEF RefundsInv

LEMMA RefundsInvKept == RefundsInv /\ [Next]_vars => RefundsInv'
  <1> SUFFICES ASSUME RefundsInv, [Next]_vars PROVE RefundsInv'
    OBVIOUS
  <1>1. CASE UNCHANGED vars
    <2>1. UNCHANGED <<refund, books, accepted, unheard, todo, faults>>
      BY <1>1 DEF vars
    <2>2. RefundTypes' /\ RefundsKept /\ SameSent /\ SameCrashes
      BY <2>1, SameRows DEF RefundsInv
    <2> QED BY <2>1, <2>2, RestHolds
  <1>2. ASSUME NEW h \in All, Ask(h) \/ Sweep(h) \/ RefundStep(h) \/ RetryFailed(h)
        PROVE  RefundsInv'
    BY <1>2, AskHolds, SweepHolds, RetryHolds, CheckHolds, InsertHolds, AttemptHolds, ClaimHolds,
       AcceptedHolds, RefusedHolds, FailHolds, TallyHolds, SaveHolds DEF RefundStep
  <1> QED BY <1>1, <1>2, SettleHolds, CrashHolds DEF Next

(* As long as no process was cut off and every answer of Razorpay arrived, *)
(* the ledger says exactly what went back to borrowers (attempt,           *)
(* refundPostings, goodwillPostings), for any callers, commission, number  *)
(* of refunds, retries and failed calls.                                   *)
THEOREM LedgerFollowsRefunds == Spec => []BooksFollowRazorpay
  <1>1. RefundsInv => BooksFollowRazorpay
    <2> SUFFICES ASSUME RefundsInv, Undisturbed, unheard = {} PROVE books.GATEWAY = SentCash
      BY DEF BooksFollowRazorpay
    <2>1. \A h \in All : PendingOf(todo[h], refund) = 0
      BY NothingPending DEF Undisturbed, AtRest, Free
    <2>2. [h \in All |-> PendingOf(todo[h], refund)] = [h \in All |-> 0]
      BY <2>1
    <2>3. Pending = 0
      BY <2>2, RefundIdsFinite, SumOfZeros DEF Pending
    <2>4. SentCash \in Int
      <3>1. [r \in RefundIds |-> SentOf(r)] \in [RefundIds -> Int]
        BY SentType DEF RefundsInv
      <3> QED BY <3>1, RefundIdsFinite, SumType DEF SentCash
    <2>5. books.GATEWAY = SentCash - Pending
      BY DEF RefundsInv, InBalance, Undisturbed
    <2> QED BY <2>3, <2>4, <2>5
  <1>2. Spec => []RefundsInv
    BY RefundsStart, RefundsInvKept, PTL DEF Spec
  <1> QED BY <1>1, <1>2, PTL

----------------------------------------------------------------------------
(* Every refund is sent once: no two calls are about the same refund.      *)

Holds(q, r) == \E i \in 1..Len(q) : q[i].op \in AboutRow /\ q[i].id = r

Distinct(q) ==
  \A i, j \in 1..Len(q) :
    q[i].op \in AboutRow /\ q[j].op \in AboutRow /\ q[i].id = q[j].id => i = j

Apart ==
  \A h \in All :
    /\ Distinct(todo[h])
    /\ \A g \in All \ {h} : \A r \in RefundIds : ~(Holds(todo[h], r) /\ Holds(todo[g], r))

(* A refund that a call is about has not been sent, and only the sweep     *)
(* calls again for one that failed.                                        *)
Unsent ==
  \A h \in All : \A r \in RefundIds :
    Holds(todo[h], r) => /\ refund[r].sent = FALSE
                         /\ h \notin Workers => refund[r].status = "PENDING"

OnItsOwn(q, h) ==
  q # <<>> /\ Head(q).op \notin AboutRow =>
    Tail(q) = <<>> /\ (Head(q).op = "retryRefunds" => h \in Workers)

Pays(q, r) == q # <<>> /\ Head(q).op \in PayOps /\ Head(q).id = r

Once ==
  \A r \in RefundIds \ unheard :
    \/ accepted[r] = 0
    \/ accepted[r] = 1 /\ (refund[r].sent = TRUE \/ \E h \in All : Pays(todo[h], r))

OneCallEach == Apart /\ Unsent /\ (\A h \in All : OnItsOwn(todo[h], h)) /\ Once

SentInv == faults.crashes = 0 => OneCallEach

(* Which refunds a list is about.                                          *)
LEMMA NoneHeld == Distinct(<<>>) /\ \A r : ~Holds(<<>>, r)
  BY DEF Distinct, Holds

LEMMA OneHeld ==
  ASSUME NEW s
  PROVE  Distinct(<<s>>) /\ \A r : Holds(<<s>>, r) => s.op \in AboutRow /\ s.id = r
  BY DEF Distinct, Holds

LEMMA SameHeld ==
  ASSUME NEW S, NEW q \in Seq(S), q # <<>>, Head(q).op \in AboutRow,
         NEW s, s.op \in AboutRow, s.id = Head(q).id, NEW p, p = <<s>> \o Tail(q)
  PROVE  /\ \A r : Holds(p, r) => Holds(q, r)
         /\ Distinct(q) => Distinct(p)
  <1>1. PICK t : t = Tail(q)
    OBVIOUS
  <1>2. PICK n \in Nat : n = Len(q)
    OBVIOUS
  <1>3. n # 0 /\ q[1] = Head(q)
    BY <1>2
  <1>4. Len(t) = n - 1 /\ \A i \in 1..(n - 1) : t[i] = q[i + 1]
    BY <1>1, <1>2, <1>3
  <1>5. Len(p) = n /\ p[1] = s /\ \A i \in 2..n : p[i] = q[i]
    <2>1. t \in Seq(S)
      BY <1>1
    <2>2. \A i \in 2..n : i - 1 \in 1..(n - 1) /\ (i - 1) + 1 = i
      BY <1>2
    <2>3. Len(p) = n /\ p[1] = s /\ \A i \in 2..n : p[i] = t[i - 1]
      BY <1>1, <1>3, <1>4, <2>1
    <2> QED BY <1>4, <2>2, <2>3
  <1>6. \A i \in 1..n : (p[i].op \in AboutRow <=> q[i].op \in AboutRow) /\ p[i].id = q[i].id
    <2> TAKE i \in 1..n
    <2>1. CASE i = 1
      BY <1>3, <1>5, <2>1
    <2>2. CASE i # 1
      <3>1. i \in 2..n
        BY <1>2, <2>2
      <3> QED BY <1>5, <3>1
    <2> QED BY <2>1, <2>2
  <1>7. \A r : Holds(p, r) => Holds(q, r)
    BY <1>2, <1>5, <1>6 DEF Holds
  <1>8. Distinct(q) => Distinct(p)
    BY <1>2, <1>5, <1>6 DEF Distinct
  <1> QED BY <1>7, <1>8

LEMMA RestHeld ==
  ASSUME NEW S, NEW q \in Seq(S), q # <<>>
  PROVE  /\ \A r : Holds(Tail(q), r) => Holds(q, r)
         /\ Distinct(q) => Distinct(Tail(q))
         /\ Distinct(q) /\ Head(q).op \in AboutRow => ~Holds(Tail(q), Head(q).id)
  <1>1. PICK t : t = Tail(q)
    OBVIOUS
  <1>2. PICK n \in Nat : n = Len(q)
    OBVIOUS
  <1>3. n # 0 /\ q[1] = Head(q) /\ 1 \in 1..n
    BY <1>2
  <1>4. Len(t) = n - 1 /\ \A i \in 1..(n - 1) : t[i] = q[i + 1]
    BY <1>1, <1>2, <1>3
  <1>5. \A i \in 1..(n - 1) : i + 1 \in 1..n /\ i + 1 # 1
    BY <1>2
  <1>6. \A r : Holds(t, r) => Holds(q, r)
    BY <1>2, <1>4, <1>5 DEF Holds
  <1>7. Distinct(q) => Distinct(t)
    <2> SUFFICES ASSUME Distinct(q), NEW i \in 1..(n - 1), NEW j \in 1..(n - 1),
                        t[i].op \in AboutRow, t[j].op \in AboutRow, t[i].id = t[j].id
                 PROVE  i = j
      BY <1>4 DEF Distinct
    <2>1. i + 1 = j + 1
      BY <1>2, <1>4, <1>5 DEF Distinct
    <2> QED BY <1>2, <2>1
  <1>8. Distinct(q) /\ Head(q).op \in AboutRow => ~Holds(t, Head(q).id)
    BY <1>2, <1>3, <1>4, <1>5 DEF Holds, Distinct
  <1> QED BY <1>1, <1>6, <1>7, <1>8

LEMMA HeadHeld ==
  ASSUME NEW S, NEW q \in Seq(S), q # <<>>, Head(q).op \in AboutRow
  PROVE  Holds(q, Head(q).id)
  <1>1. q[1] = Head(q) /\ 1 \in 1..Len(q)
    OBVIOUS
  <1> QED BY <1>1 DEF Holds

(* The steps of one call change.                                           *)
LEMMA StillApart ==
  ASSUME Apart, Unsent, NEW h \in All, \A g \in All : g # h => todo'[g] = todo[g],
         Distinct(todo'[h]),
         \A r \in RefundIds : Holds(todo'[h], r) =>
           /\ \A g \in All : g # h => ~Holds(todo[g], r)
           /\ refund'[r].sent = FALSE
           /\ h \notin Workers => refund'[r].status = "PENDING",
         \A r \in RefundIds : \A g \in All : g # h /\ Holds(todo[g], r) =>
           refund'[r].sent = refund[r].sent /\ refund'[r].status = refund[r].status
  PROVE  Apart' /\ Unsent'
  <1>1. Apart'
    <2>1. \A g \in All : Distinct(todo'[g])
      BY DEF Apart
    <2>2. ASSUME NEW g \in All, NEW k \in All \ {g}, NEW r \in RefundIds,
                 Holds(todo'[g], r), Holds(todo'[k], r)
          PROVE  FALSE
      <3>1. CASE g = h
        BY <2>2, <3>1
      <3>2. CASE k = h
        BY <2>2, <3>2
      <3>3. CASE g # h /\ k # h
        BY <2>2, <3>3 DEF Apart
      <3> QED BY <3>1, <3>2, <3>3
    <2> QED BY <2>1, <2>2 DEF Apart
  <1>2. Unsent'
    <2> SUFFICES ASSUME NEW g \in All, NEW r \in RefundIds, Holds(todo'[g], r)
                 PROVE  refund'[r].sent = FALSE /\ (g \notin Workers => refund'[r].status = "PENDING")
      BY DEF Unsent
    <2>1. CASE g = h
      BY <2>1
    <2>2. CASE g # h
      <3>1. Holds(todo[g], r)
        BY <2>2
      <3> QED BY <2>2, <3>1 DEF Unsent
    <2> QED BY <2>1, <2>2
  <1> QED BY <1>1, <1>2

LEMMA StillOnce ==
  ASSUME Once, NEW h \in All, \A g \in All : g # h => todo'[g] = todo[g],
         accepted' = accepted, unheard' = unheard,
         \A r \in RefundIds : refund[r].sent = TRUE => refund'[r].sent = TRUE,
         \A r \in RefundIds : Pays(todo[h], r) => refund'[r].sent = TRUE \/ Pays(todo'[h], r)
  PROVE  Once'
  <1> SUFFICES ASSUME NEW r \in RefundIds, r \notin unheard, accepted[r] = 1
               PROVE  refund'[r].sent = TRUE \/ \E g \in All : Pays(todo'[g], r)
    BY DEF Once
  <1>1. CASE refund[r].sent = TRUE
    BY <1>1
  <1>2. CASE Pays(todo[h], r)
    BY <1>2
  <1>3. ASSUME NEW g \in All, g # h, Pays(todo[g], r)
        PROVE  Pays(todo'[g], r)
    BY <1>3 DEF Pays
  <1> QED BY <1>1, <1>2, <1>3 DEF Once

LEMMA OthersOnTheirOwn ==
  ASSUME OneCallEach, NEW h \in All, \A g \in All : g # h => todo'[g] = todo[g],
         OnItsOwn(todo'[h], h)
  PROVE  \A g \in All : OnItsOwn(todo'[g], g)
  <1> TAKE g \in All
  <1>1. CASE g = h
    BY <1>1
  <1>2. CASE g # h
    BY <1>2 DEF OneCallEach
  <1> QED BY <1>1, <1>2

SameProgress ==
  \A r \in RefundIds : refund'[r].sent = refund[r].sent /\ refund'[r].status = refund[r].status

(* A call goes on about the same refund, *)
LEMMA SameRefund ==
  ASSUME RefundsInv, OneCallEach, SameProgress,
         NEW h \in All, todo[h] # <<>>, Head(todo[h]).op \in AboutRow,
         NEW s, s.op \in AboutRow, s.id = Head(todo[h]).id,
         todo'[h] = <<s>> \o Tail(todo[h]), todo'[h] # <<>>, Head(todo'[h]) = s,
         \A g \in All : g # h => todo'[g] = todo[g]
  PROVE  Apart' /\ Unsent' /\ \A g \in All : OnItsOwn(todo'[g], g)
  <1>1. PICK F : F = FitSteps(refund)
    OBVIOUS
  <1>2. PICK q, p : q = todo[h] /\ p = todo'[h]
    OBVIOUS
  <1>3. q \in Seq(F)
    BY <1>1, <1>2 DEF RefundsInv, TodoFits, ListsOf
  <1>4. (\A r : Holds(p, r) => Holds(q, r)) /\ (Distinct(q) => Distinct(p))
    <2>1. p = <<s>> \o Tail(q) /\ q # <<>> /\ Head(q).op \in AboutRow /\ s.id = Head(q).id
      BY <1>2
    <2> QED BY <1>3, <2>1, SameHeld
  <1>5. Distinct(q)
    BY <1>2 DEF OneCallEach, Apart
  <1>6. \A r \in RefundIds : Holds(todo'[h], r) =>
           /\ \A g \in All : g # h => ~Holds(todo[g], r)
           /\ refund'[r].sent = FALSE
           /\ h \notin Workers => refund'[r].status = "PENDING"
    BY <1>2, <1>4 DEF OneCallEach, Apart, Unsent, SameProgress
  <1>7. Apart' /\ Unsent'
    BY <1>2, <1>4, <1>5, <1>6, StillApart DEF OneCallEach, SameProgress
  <1>8. OnItsOwn(todo'[h], h)
    BY DEF OnItsOwn
  <1> QED BY <1>7, <1>8, OthersOnTheirOwn

(* ... is done with its refund, *)
LEMMA RefundDone ==
  ASSUME RefundsInv, OneCallEach, NEW h \in All, todo[h] # <<>>, Head(todo[h]).op \in AboutRow,
         todo'[h] = <<>> \o Tail(todo[h]),
         \A g \in All : g # h => todo'[g] = todo[g],
         \A r \in RefundIds : r # Head(todo[h]).id =>
           refund'[r].sent = refund[r].sent /\ refund'[r].status = refund[r].status,
         Head(todo[h]).id \in RefundIds
  PROVE  Apart' /\ Unsent' /\ \A g \in All : OnItsOwn(todo'[g], g)
  <1>1. PICK F, L : F = FitSteps(refund) /\ L = LaterSteps(refund)
    OBVIOUS
  <1>2. PICK q, p, me : q = todo[h] /\ p = todo'[h] /\ me = Head(todo[h]).id
    OBVIOUS
  <1>3. q \in Seq(F) /\ Tail(q) \in Seq(L)
    BY <1>1, <1>2 DEF RefundsInv, TodoFits, ListsOf
  <1>4. p = Tail(q)
    <2>1. PICK t : t = Tail(q)
      OBVIOUS
    <2>2. t \in Seq(L)
      BY <1>3, <2>1
    <2>3. <<>> \o t = t
      BY <2>2
    <2> QED BY <1>2, <2>1, <2>3
  <1>5. Distinct(q) /\ q # <<>> /\ Head(q).op \in AboutRow /\ Head(q).id = me
    BY <1>2 DEF OneCallEach, Apart
  <1>6. (\A r : Holds(p, r) => Holds(q, r)) /\ Distinct(p) /\ ~Holds(p, me)
    BY <1>3, <1>4, <1>5, RestHeld
  <1>7. Holds(q, me)
    BY <1>3, <1>5, HeadHeld
  <1>8. \A r \in RefundIds : Holds(todo'[h], r) =>
           /\ \A g \in All : g # h => ~Holds(todo[g], r)
           /\ refund'[r].sent = FALSE
           /\ h \notin Workers => refund'[r].status = "PENDING"
    BY <1>2, <1>6 DEF OneCallEach, Apart, Unsent
  <1>9. \A r \in RefundIds : \A g \in All : g # h /\ Holds(todo[g], r) => r # me
    BY <1>2, <1>7 DEF OneCallEach, Apart
  <1>10. Apart' /\ Unsent'
    BY <1>2, <1>6, <1>8, <1>9, StillApart DEF OneCallEach
  <1>11. OnItsOwn(todo'[h], h)
    <2>1. CASE p = <<>>
      BY <1>2, <2>1 DEF OnItsOwn
    <2>2. CASE p # <<>>
      <3>1. Head(p) \in L
        BY <1>3, <1>4, <2>2
      <3>2. Head(p).op \in AboutRow
        BY <1>1, <3>1, OpsAre DEF LaterSteps
      <3> QED BY <1>2, <3>2 DEF OnItsOwn
    <2> QED BY <2>1, <2>2
  <1> QED BY <1>10, <1>11, OthersOnTheirOwn

(* ... or is about none yet. *)
LEMMA NewRefunds ==
  ASSUME RefundsInv, OneCallEach, NEW h \in All,
         \A g \in All : g # h => todo'[g] = todo[g],
         Distinct(todo'[h]), OnItsOwn(todo'[h], h),
         \A r \in RefundIds : Holds(todo'[h], r) =>
           /\ \A g \in All : g # h => ~Holds(todo[g], r)
           /\ refund'[r].sent = FALSE
           /\ h \notin Workers => refund'[r].status = "PENDING",
         \A r \in RefundIds : \A g \in All : g # h /\ Holds(todo[g], r) =>
           refund'[r].sent = refund[r].sent /\ refund'[r].status = refund[r].status
  PROVE  Apart' /\ Unsent' /\ \A g \in All : OnItsOwn(todo'[g], g)
  <1>1. Apart' /\ Unsent'
    BY StillApart DEF OneCallEach
  <1> QED BY <1>1, OthersOnTheirOwn

(* What a list of steps is about has a row.                                *)
LEMMA HeldRows ==
  ASSUME RefundsInv, NEW h \in All, NEW r, Holds(todo[h], r)
  PROVE  r \in RowsIn(refund)
  <1>1. todo[h] \in Seq(FitSteps(refund))
    BY DEF RefundsInv, TodoFits, ListsOf
  <1>2. PICK i \in 1..Len(todo[h]) : todo[h][i].op \in AboutRow /\ todo[h][i].id = r
    BY DEF Holds
  <1>3. todo[h][i] \in FitSteps(refund)
    BY <1>1
  <1> QED BY <1>2, <1>3 DEF FitSteps, Fits

(* Before it is about a refund, a call has nothing else to do.             *)
LEMMA NothingElse ==
  ASSUME RefundsInv, OneCallEach, NEW h \in All, todo[h] # <<>>, Head(todo[h]).op \notin AboutRow
  PROVE  Tail(todo[h]) = <<>> /\ \A r : ~Pays(todo[h], r)
  BY DEF OneCallEach, OnItsOwn, Pays, AboutRow

LEMMA NotRows ==
  "createRefund" \notin AboutRow /\ "insertRefund" \notin AboutRow /\ "retryRefunds" \notin AboutRow
  BY DEF AboutRow, IdOps, PayOps

LEMMA OnlyStep ==
  ASSUME NEW s, NEW q, q = <<s>> \o <<>>
  PROVE  q = <<s>> /\ q # <<>> /\ Head(q) = s /\ Tail(q) = <<>>
  OBVIOUS

LEMMA CheckSent ==
  ASSUME RefundsInv, OneCallEach, NEW h \in All, Check(h)
  PROVE  OneCallEach'
  <1>1. RefundTypes' /\ RefundsKept /\ SameSent /\ SameCrashes
    BY SameRows DEF Check, RefundsInv
  <1>2. books' = books /\ unheard' = unheard /\ refund' = refund /\ accepted' = accepted
    BY DEF Check
  <1>3. /\ todo[h] # <<>> /\ Head(todo[h]).op = "createRefund"
        /\ Arg(h) \in AskSteps /\ IsSplit(Arg(h))
    BY AskedStep, OpsAre DEF Check, RefundsInv
  <1>4. Head(todo[h]).op \notin PayOps /\ Head(todo[h]).op \notin AboutRow
    BY <1>3, OpsAre, NotRows
  <1>5. Tail(todo[h]) = <<>> /\ \A r : ~Pays(todo[h], r)
    BY <1>3, <1>4, NothingElse
  <1>6. /\ \A g \in All : g # h => todo'[g] = todo[g]
        /\ Distinct(todo'[h]) /\ OnItsOwn(todo'[h], h) /\ \A r : ~Holds(todo'[h], r)
    <2>1. CASE Throw(h)
      <3>1. todo' = [todo EXCEPT ![h] = <<>>]
        BY <1>1, <1>2, <1>3, <1>4, <2>1, ThrowHolds
      <3>2. todo'[h] = <<>> /\ \A g \in All : g # h => todo'[g] = todo[g]
        BY <3>1 DEF RefundsInv, TodoFits
      <3> QED BY <3>2, NoneHeld DEF OnItsOwn
    <2>2. CASE Return(h)
      <3>1. <<>> \in Seq(LaterSteps(refund'))
        OBVIOUS
      <3>2. todo'[h] = <<>> \o <<>> /\ \A g \in All : g # h => todo'[g] = todo[g]
        BY <1>1, <1>3, <1>5, <2>2, <3>1, GoesOn DEF RefundsInv, Return
      <3>3. todo'[h] = <<>>
        BY <3>2
      <3> QED BY <3>2, <3>3, NoneHeld DEF OnItsOwn
    <2>3. CASE Continue(h, <<[Arg(h) EXCEPT !.op = "insertRefund"]>>)
      <3>1. PICK s : s = [Arg(h) EXCEPT !.op = "insertRefund"]
        OBVIOUS
      <3>2. s \in AskSteps /\ IsSplit(s) /\ s.op = "insertRefund"
        BY <1>3, <3>1, Inserting
      <3>3. s \in FitSteps(refund') /\ s.op \notin AboutRow /\ s.op # "retryRefunds"
        BY <3>2, AskStep, NotRows
      <3>4. /\ todo'[h] = <<s>> \o <<>> /\ \A g \in All : g # h => todo'[g] = todo[g]
        BY <1>1, <1>3, <1>5, <2>3, <3>1, <3>3, GoesOnWith DEF RefundsInv
      <3>5. todo'[h] = <<s>> /\ Head(todo'[h]) = s /\ Tail(todo'[h]) = <<>>
        BY <3>4, OnlyStep
      <3>6. Distinct(todo'[h]) /\ \A r : ~Holds(todo'[h], r)
        BY <3>3, <3>5, OneHeld
      <3> QED BY <3>3, <3>4, <3>5, <3>6 DEF OnItsOwn
    <2> QED BY <2>1, <2>2, <2>3 DEF Check
  <1>7. Apart' /\ Unsent' /\ \A g \in All : OnItsOwn(todo'[g], g)
    BY <1>2, <1>6, NewRefunds
  <1>8. Once'
    BY <1>2, <1>5, <1>6, StillOnce DEF OneCallEach
  <1> QED BY <1>7, <1>8 DEF OneCallEach

LEMMA AttemptSent ==
  ASSUME RefundsInv, OneCallEach, NEW h \in All, Attempt(h)
  PROVE  OneCallEach'
  <1>1. RefundTypes' /\ RefundsKept /\ SameSent /\ SameCrashes
    BY SameRows DEF Attempt, RefundsInv
  <1>2. unheard' = unheard /\ refund' = refund /\ accepted' = accepted
    BY DEF Attempt
  <1>3. /\ todo[h] # <<>> /\ Head(todo[h]).op = "attempt" /\ Arg(h) = Head(todo[h])
        /\ Arg(h).id \in RowsIn(refund) /\ refund[Arg(h).id] \in RefundRows
    BY StepRow, OpsAre DEF Attempt, RefundsInv
  <1>4. PICK s : s = [op |-> "claimRefund", id |-> Arg(h).id,
                      attempts |-> refund[Arg(h).id].attempts]
    OBVIOUS
  <1>5. refund[Arg(h).id].attempts \in Nat
    BY <1>3 DEF RefundRows
  <1>6. s \in FitSteps(refund') /\ s.op \in AboutRow /\ s.id = Head(todo[h]).id
    BY <1>2, <1>3, <1>4, <1>5, ClaimStep, OpsAre
  <1>7. Continue(h, <<s>>)
    BY <1>4 DEF Attempt
  <1>8. /\ todo'[h] = <<s>> \o Tail(todo[h]) /\ todo'[h] # <<>> /\ Head(todo'[h]) = s
        /\ \A g \in All : g # h => todo'[g] = todo[g]
    BY <1>1, <1>3, <1>6, <1>7, GoesOnWith DEF RefundsInv
  <1>9. SameProgress /\ Head(todo[h]).op \in AboutRow
    BY <1>2, <1>3, OpsAre DEF SameProgress
  <1>10. Apart' /\ Unsent' /\ \A g \in All : OnItsOwn(todo'[g], g)
    BY <1>3, <1>6, <1>8, <1>9, SameRefund
  <1>11. \A r : ~Pays(todo[h], r)
    BY <1>3, OpsAre DEF Pays
  <1>12. Once'
    BY <1>2, <1>8, <1>11, StillOnce DEF OneCallEach
  <1> QED BY <1>10, <1>12 DEF OneCallEach

LEMMA ReturnsTo ==
  ASSUME TodoFits, RefundsKept, NEW h \in All, todo[h] # <<>>, Return(h)
  PROVE  /\ todo'[h] = <<>> \o Tail(todo[h])
         /\ \A g \in All : g # h => todo'[g] = todo[g]
  <1>1. <<>> \in Seq(LaterSteps(refund'))
    OBVIOUS
  <1> QED BY <1>1, GoesOn DEF Return

LEMMA ClaimSent ==
  ASSUME RefundsInv, OneCallEach, NEW h \in All, Claim(h)
  PROVE  OneCallEach'
  <1>1. /\ todo[h] # <<>> /\ Head(todo[h]).op = "claimRefund" /\ Arg(h) = Head(todo[h])
        /\ Arg(h).id \in RowsIn(refund) /\ Arg(h).id \in RefundIds
        /\ refund[Arg(h).id] \in RefundRows
    BY StepRow, OpsAre DEF Claim, RefundsInv
  <1>2. books' = books /\ unheard' = unheard /\ accepted' = accepted /\ faults' = faults
    BY DEF Claim
  <1>3. Head(todo[h]).op \in AboutRow /\ \A r : ~Pays(todo[h], r)
    BY <1>1, OpsAre DEF Pays
  <1>4. PICK r : r = Arg(h).id
    OBVIOUS
  <1>5. CASE Claimable(r, Arg(h).attempts)
    <2>1. PICK row : row = [refund[r] EXCEPT !.attempts = @ + 1]
      OBVIOUS
    <2>2. /\ row \in RefundRows /\ row.cash = refund[r].cash
          /\ row.sent = refund[r].sent /\ row.status = refund[r].status
      BY <1>1, <1>4, <2>1, Tried
    <2>3. refund' = [refund EXCEPT ![r] = row] /\ Continue(h, <<[op |-> "callRefund", id |-> r]>>)
      BY <1>4, <1>5, <2>1 DEF Claim
    <2>4. books' \in [Accounts -> Int]
      BY <1>2 DEF RefundsInv, RefundTypes
    <2>5. /\ RefundsKept /\ RowsIn(refund') = RowsIn(refund)
          /\ refund'[r] = row /\ \A u \in RefundIds : u # r => refund'[u] = refund[u]
      <3>1. RefundTypes /\ r \in RowsIn(refund) /\ UNCHANGED <<accepted, faults>>
        BY <1>1, <1>2, <1>4 DEF RefundsInv
      <3> QED BY <2>2, <2>3, <2>4, <3>1, RowChanged
    <2>6. PICK s : s = [op |-> "callRefund", id |-> r]
      OBVIOUS
    <2>7. s \in FitSteps(refund') /\ s.op \in AboutRow /\ s.id = Head(todo[h]).id
      BY <1>1, <1>4, <2>5, <2>6, IdStep, OpsAre
    <2>8. /\ todo'[h] = <<s>> \o Tail(todo[h]) /\ todo'[h] # <<>> /\ Head(todo'[h]) = s
          /\ \A g \in All : g # h => todo'[g] = todo[g]
      BY <1>1, <2>3, <2>5, <2>6, <2>7, GoesOnWith DEF RefundsInv
    <2>9. SameProgress
      BY <2>2, <2>5 DEF SameProgress
    <2>10. Apart' /\ Unsent' /\ \A g \in All : OnItsOwn(todo'[g], g)
      BY <1>1, <1>3, <2>7, <2>8, <2>9, SameRefund
    <2>11. Once'
      BY <1>2, <1>3, <2>8, <2>9, StillOnce DEF OneCallEach, SameProgress
    <2> QED BY <2>10, <2>11 DEF OneCallEach
  <1>6. CASE ~Claimable(r, Arg(h).attempts)
    <2>1. Return(h) /\ refund' = refund
      BY <1>4, <1>6 DEF Claim
    <2>2. RefundsKept
      BY <2>1 DEF RefundsKept, RowsIn
    <2>3. todo'[h] = <<>> \o Tail(todo[h]) /\ \A g \in All : g # h => todo'[g] = todo[g]
      BY <1>1, <2>1, <2>2, ReturnsTo DEF RefundsInv
    <2>4. Apart' /\ Unsent' /\ \A g \in All : OnItsOwn(todo'[g], g)
      BY <1>1, <1>3, <2>1, <2>3, RefundDone
    <2>5. Once'
      BY <1>2, <1>3, <2>1, <2>3, StillOnce DEF OneCallEach
    <2> QED BY <2>4, <2>5 DEF OneCallEach
  <1> QED BY <1>5, <1>6

(* Nobody else is about the refund that Razorpay is called for: it has     *)
(* neither been saved nor been accepted for another call.                  *)
LEMMA NotYetAccepted ==
  ASSUME RefundsInv, OneCallEach, NEW h \in All, todo[h] # <<>>, Head(todo[h]).op = "callRefund",
         Head(todo[h]).id \in RefundIds \ unheard
  PROVE  accepted[Head(todo[h]).id] = 0
  <1>1. PICK r : r = Head(todo[h]).id
    OBVIOUS
  <1>2. Holds(todo[h], r)
    <2>1. todo[h] \in Seq(FitSteps(refund))
      BY DEF RefundsInv, TodoFits, ListsOf
    <2> QED BY <1>1, <2>1, HeadHeld, OpsAre
  <1>3. refund[r].sent = FALSE
    BY <1>1, <1>2 DEF OneCallEach, Unsent
  <1>4. ASSUME NEW g \in All, Pays(todo[g], r) PROVE FALSE
    <2>1. g # h
      BY <1>4, OpsAre DEF Pays
    <2>2. Holds(todo[g], r)
      <3>1. todo[g] \in Seq(FitSteps(refund))
        BY DEF RefundsInv, TodoFits, ListsOf
      <3>2. todo[g] # <<>> /\ Head(todo[g]).op \in AboutRow /\ Head(todo[g]).id = r
        BY <1>4, OpsAre DEF Pays
      <3> QED BY <3>1, <3>2, HeadHeld
    <2> QED BY <1>1, <1>2, <2>1, <2>2 DEF OneCallEach, Apart
  <1> QED BY <1>1, <1>3, <1>4 DEF OneCallEach, Once

LEMMA AcceptedSent ==
  ASSUME RefundsInv, OneCallEach, NEW h \in All, Accepted(h)
  PROVE  OneCallEach'
  <1>1. /\ todo[h] # <<>> /\ Head(todo[h]).op = "callRefund" /\ Arg(h) = Head(todo[h])
        /\ Arg(h).id \in RowsIn(refund) /\ Arg(h).id \in RefundIds
        /\ refund[Arg(h).id] \in RefundRows
    BY StepRow, OpsAre DEF Accepted, RefundsInv
  <1>2. PICK r : r = Arg(h).id
    OBVIOUS
  <1>3. PICK st \in Counted : Continue(h, <<[op |-> "tallyRefund", id |-> r, status |-> st]>>)
    BY <1>2 DEF Accepted
  <1>4. /\ accepted' = [accepted EXCEPT ![r] = @ + 1] /\ UNCHANGED <<refund, books, faults>>
        /\ unheard' = unheard
    BY <1>2 DEF Accepted
  <1>5. /\ RefundsKept
        /\ accepted'[r] = accepted[r] + 1 /\ \A u \in RefundIds : u # r => accepted'[u] = accepted[u]
    BY <1>1, <1>2, <1>4, AcceptedOnce DEF RefundsInv
  <1>6. PICK s : s = [op |-> "tallyRefund", id |-> r, status |-> st]
    OBVIOUS
  <1>7. s \in FitSteps(refund') /\ s.op = "tallyRefund" /\ s.id = r
    BY <1>1, <1>2, <1>4, <1>6, TallyStep
  <1>8. /\ todo'[h] = <<s>> \o Tail(todo[h]) /\ todo'[h] # <<>> /\ Head(todo'[h]) = s
        /\ \A g \in All : g # h => todo'[g] = todo[g]
    BY <1>1, <1>3, <1>5, <1>6, <1>7, GoesOnWith DEF RefundsInv
  <1>9. SameProgress /\ Head(todo[h]).op \in AboutRow /\ s.op \in AboutRow /\ s.id = Head(todo[h]).id
    BY <1>1, <1>2, <1>4, <1>7, OpsAre DEF SameProgress
  <1>10. Apart' /\ Unsent' /\ \A g \in All : OnItsOwn(todo'[g], g)
    BY <1>1, <1>8, <1>9, SameRefund
  <1>11. Once'
    <2> SUFFICES ASSUME NEW u \in RefundIds, u \notin unheard
                 PROVE  \/ accepted'[u] = 0
                        \/ accepted'[u] = 1
                             /\ (refund[u].sent = TRUE \/ \E g \in All : Pays(todo'[g], u))
      BY <1>4 DEF Once
    <2>1. CASE u = r
      <3>1. accepted[r] = 0
        BY <1>1, <1>2, <2>1, NotYetAccepted
      <3>2. Pays(todo'[h], r)
        BY <1>7, <1>8, OpsAre DEF Pays
      <3> QED BY <1>5, <2>1, <3>1, <3>2
    <2>2. CASE u # r
      <3>1. \A g \in All : Pays(todo[g], u) => Pays(todo'[g], u)
        <4>1. ~Pays(todo[h], u)
          BY <1>1, OpsAre DEF Pays
        <4> QED BY <1>8, <4>1 DEF Pays
      <3> QED BY <1>5, <2>2, <3>1 DEF OneCallEach, Once
    <2> QED BY <2>1, <2>2
  <1> QED BY <1>10, <1>11 DEF OneCallEach

LEMMA RefusedSent ==
  ASSUME RefundsInv, OneCallEach, NEW h \in All, RefusedRefund(h)
  PROVE  OneCallEach'
  <1>1. /\ todo[h] # <<>> /\ Head(todo[h]).op = "callRefund" /\ Arg(h) = Head(todo[h])
        /\ Arg(h).id \in RowsIn(refund) /\ Arg(h).id \in RefundIds
    BY StepRow, OpsAre DEF RefusedRefund, RefundsInv
  <1>2. PICK r : r = Arg(h).id
    OBVIOUS
  <1>3. PICK s : s = [op |-> "failRefund", id |-> r]
    OBVIOUS
  <1>4. Continue(h, <<s>>) /\ UNCHANGED <<refund, books>> /\ Refused
    BY <1>2, <1>3 DEF RefusedRefund
  <1>5. s \in FitSteps(refund') /\ s.op \in AboutRow /\ s.id = Head(todo[h]).id
    BY <1>1, <1>2, <1>3, <1>4, IdStep, OpsAre
  <1>6. RefundsKept /\ SameProgress /\ Head(todo[h]).op \in AboutRow
    BY <1>1, <1>4, OpsAre DEF RefundsKept, RowsIn, SameProgress
  <1>7. /\ todo'[h] = <<s>> \o Tail(todo[h]) /\ todo'[h] # <<>> /\ Head(todo'[h]) = s
        /\ \A g \in All : g # h => todo'[g] = todo[g]
    BY <1>1, <1>4, <1>5, <1>6, GoesOnWith DEF RefundsInv
  <1>8. Apart' /\ Unsent' /\ \A g \in All : OnItsOwn(todo'[g], g)
    BY <1>1, <1>5, <1>6, <1>7, SameRefund
  <1>9. \A u : ~Pays(todo[h], u)
    BY <1>1, OpsAre DEF Pays
  <1>10. CASE UNCHANGED <<accepted, unheard>>
    <2>1. Once'
      BY <1>6, <1>7, <1>9, <1>10, StillOnce DEF OneCallEach, SameProgress
    <2> QED BY <1>8, <2>1 DEF OneCallEach
  <1>11. CASE accepted' = [accepted EXCEPT ![r] = @ + 1] /\ unheard' = unheard \cup {r}
    <2> SUFFICES ASSUME NEW u \in RefundIds, u \notin unheard'
                 PROVE  \/ accepted'[u] = 0
                        \/ accepted'[u] = 1
                             /\ (refund[u].sent = TRUE \/ \E g \in All : Pays(todo'[g], u))
      BY <1>4, <1>8 DEF OneCallEach, Once
    <2>1. u # r /\ u \notin unheard
      BY <1>11
    <2>2. accepted'[u] = accepted[u]
      BY <1>1, <1>2, <1>11, <2>1 DEF RefundsInv, RefundTypes
    <2>3. \A g \in All : Pays(todo[g], u) => Pays(todo'[g], u)
      BY <1>7, <1>9 DEF Pays
    <2> QED BY <2>1, <2>2, <2>3 DEF OneCallEach, Once
  <1> QED BY <1>2, <1>10, <1>11 DEF RefusedRefund

LEMMA FailSent ==
  ASSUME RefundsInv, OneCallEach, NEW h \in All, Fail(h)
  PROVE  OneCallEach'
  <1>1. /\ todo[h] # <<>> /\ Head(todo[h]).op = "failRefund" /\ Arg(h) = Head(todo[h])
        /\ Arg(h).id \in RowsIn(refund) /\ Arg(h).id \in RefundIds
        /\ refund[Arg(h).id] \in RefundRows
    BY StepRow, OpsAre DEF Fail, RefundsInv
  <1>2. PICK r : r = Arg(h).id
    OBVIOUS
  <1>3. PICK row : row = [refund[r] EXCEPT !.status = "FAILED"]
    OBVIOUS
  <1>4. row \in RefundRows /\ row.cash = refund[r].cash /\ row.sent = refund[r].sent
    BY <1>1, <1>2, <1>3, StatusSet
  <1>5. /\ refund' = [refund EXCEPT ![r] = row] /\ Return(h)
        /\ UNCHANGED <<books, accepted, unheard, faults>>
    BY <1>2, <1>3 DEF Fail
  <1>6. books' \in [Accounts -> Int]
    BY <1>5 DEF RefundsInv, RefundTypes
  <1>7. /\ RefundsKept
        /\ refund'[r] = row /\ \A u \in RefundIds : u # r => refund'[u] = refund[u]
    <2>1. RefundTypes /\ r \in RowsIn(refund) /\ UNCHANGED <<accepted, faults>>
      BY <1>1, <1>2, <1>5 DEF RefundsInv
    <2> QED BY <1>4, <1>5, <1>6, <2>1, RowChanged
  <1>8. Head(todo[h]).op \in AboutRow /\ \A u : ~Pays(todo[h], u)
    BY <1>1, OpsAre DEF Pays
  <1>9. todo'[h] = <<>> \o Tail(todo[h]) /\ \A g \in All : g # h => todo'[g] = todo[g]
    BY <1>1, <1>5, <1>7, ReturnsTo DEF RefundsInv
  <1>10. Apart' /\ Unsent' /\ \A g \in All : OnItsOwn(todo'[g], g)
    BY <1>1, <1>2, <1>7, <1>8, <1>9, RefundDone
  <1>11. \A u \in RefundIds : refund'[u].sent = refund[u].sent
    BY <1>4, <1>7
  <1>12. Once'
    BY <1>5, <1>8, <1>9, <1>11, StillOnce DEF OneCallEach
  <1> QED BY <1>10, <1>12 DEF OneCallEach

LEMMA TallySent ==
  ASSUME RefundsInv, OneCallEach, NEW h \in All, Tally(h)
  PROVE  OneCallEach'
  <1>1. /\ todo[h] # <<>> /\ Head(todo[h]).op = "tallyRefund"
        /\ Arg(h).id \in RowsIn(refund) /\ Arg(h).id \in RefundIds /\ Arg(h).status \in Counted
        /\ Arg(h) = Head(todo[h])
    BY StepRow, OpsAre DEF Tally, RefundsInv
  <1>2. PICK r, st : r = Arg(h).id /\ st = Arg(h).status
    OBVIOUS
  <1>3. PICK rows : rows = {q \in RefundsOf(refund[r].payment) \ {r} :
                              refund[q].sent /\ refund[q].status \in Counted}
    OBVIOUS
  <1>4. PICK n : n = CashIn(rows) + refund[r].cash
    OBVIOUS
  <1>5. n \in Int
    <2>1. rows \in SUBSET RefundIds
      BY <1>3 DEF RefundsOf
    <2>2. CashIn(rows) \in Int /\ refund[r].cash \in Int
      BY <1>1, <1>2, <2>1, CashInType, SentType DEF RefundsInv
    <2> QED BY <1>4, <2>2
  <1>6. PICK s : s = [op |-> "saveRefund", id |-> r, status |-> st, sum |-> n]
    OBVIOUS
  <1>7. Continue(h, <<s>>) /\ UNCHANGED <<refund, accepted, unheard>>
    BY <1>2, <1>3, <1>4, <1>6 DEF Tally
  <1>8. RefundsKept /\ SameProgress
    BY <1>7 DEF RefundsKept, RowsIn, SameProgress
  <1>9. s \in FitSteps(refund') /\ s.op = "saveRefund" /\ s.id = r
    BY <1>1, <1>2, <1>5, <1>6, <1>7, SaveStep
  <1>10. /\ todo'[h] = <<s>> \o Tail(todo[h]) /\ todo'[h] # <<>> /\ Head(todo'[h]) = s
         /\ \A g \in All : g # h => todo'[g] = todo[g]
    BY <1>1, <1>7, <1>8, <1>9, GoesOnWith DEF RefundsInv
  <1>11. /\ Head(todo[h]).op \in AboutRow /\ s.op \in AboutRow /\ s.id = Head(todo[h]).id
         /\ s.op \in PayOps
    BY <1>1, <1>2, <1>9, OpsAre
  <1>12. Apart' /\ Unsent' /\ \A g \in All : OnItsOwn(todo'[g], g)
    BY <1>1, <1>8, <1>10, <1>11, SameRefund
  <1>13. \A u \in RefundIds : Pays(todo[h], u) => Pays(todo'[h], u)
    BY <1>10, <1>11 DEF Pays
  <1>14. Once'
    BY <1>7, <1>8, <1>10, <1>13, StillOnce DEF OneCallEach, SameProgress
  <1> QED BY <1>12, <1>14 DEF OneCallEach

LEMMA SaveSent ==
  ASSUME RefundsInv, OneCallEach, NEW h \in All, Save(h)
  PROVE  OneCallEach'
  <1>1. /\ todo[h] # <<>> /\ Head(todo[h]).op = "saveRefund" /\ Arg(h) = Head(todo[h])
        /\ Arg(h).id \in RowsIn(refund) /\ Arg(h).id \in RefundIds
        /\ refund[Arg(h).id] \in RefundRows /\ Arg(h).status \in Counted
    BY StepRow, OpsAre DEF Save, RefundsInv
  <1>2. PICK r, st : r = Arg(h).id /\ st = Arg(h).status
    OBVIOUS
  <1>3. PICK row : row = [refund[r] EXCEPT !.sent = TRUE, !.status = st]
    OBVIOUS
  <1>4. row \in RefundRows /\ row.cash = refund[r].cash /\ row.sent = TRUE
    BY <1>1, <1>2, <1>3, SentSet DEF Counted
  <1>5. /\ refund' = [refund EXCEPT ![r] = row] /\ Return(h)
        /\ books' = Posted(books, PostingsOf(refund[r]))
        /\ UNCHANGED <<accepted, unheard, faults>>
    BY <1>2, <1>3 DEF Save
  <1>6. books' \in [Accounts -> Int]
    BY <1>1, <1>2, <1>5, RefundPosted DEF RefundsInv, RefundTypes
  <1>7. /\ RefundsKept
        /\ refund'[r] = row /\ \A u \in RefundIds : u # r => refund'[u] = refund[u]
    <2>1. RefundTypes /\ r \in RowsIn(refund) /\ UNCHANGED <<accepted, faults>>
      BY <1>1, <1>2, <1>5 DEF RefundsInv
    <2> QED BY <1>4, <1>5, <1>6, <2>1, RowChanged
  <1>8. Head(todo[h]).op \in AboutRow /\ \A u : Pays(todo[h], u) => u = r
    BY <1>1, <1>2, OpsAre DEF Pays
  <1>9. todo'[h] = <<>> \o Tail(todo[h]) /\ \A g \in All : g # h => todo'[g] = todo[g]
    BY <1>1, <1>5, <1>7, ReturnsTo DEF RefundsInv
  <1>10. Apart' /\ Unsent' /\ \A g \in All : OnItsOwn(todo'[g], g)
    BY <1>1, <1>2, <1>7, <1>8, <1>9, RefundDone
  <1>11. \A u \in RefundIds : refund[u].sent = TRUE \/ Pays(todo[h], u) => refund'[u].sent = TRUE
    BY <1>4, <1>7, <1>8
  <1>12. Once'
    BY <1>5, <1>9, <1>11, StillOnce DEF OneCallEach
  <1> QED BY <1>10, <1>12 DEF OneCallEach

LEMMA SettleSent ==
  ASSUME RefundsInv, OneCallEach, NEW r \in RefundIds, NEW ok \in BOOLEAN, Settle(r, ok)
  PROVE  OneCallEach'
  <1>1. /\ refund[r] \in RefundRows /\ refund[r].sent # FALSE
        /\ UNCHANGED <<accepted, unheard, todo>>
    BY DEF Settle, RefundsInv, RefundTypes, NoRefund
  <1>2. PICK row : row = [refund[r] EXCEPT !.status = IF ok THEN "PROCESSED" ELSE "FAILED"]
    OBVIOUS
  <1>3. row.sent = refund[r].sent
    BY <1>1, <1>2, StatusSet
  <1>4. refund' = [refund EXCEPT ![r] = row]
    BY <1>2 DEF Settle
  <1>5. refund'[r] = row /\ \A u \in RefundIds : u # r => refund'[u] = refund[u]
    BY <1>4 DEF RefundsInv, RefundTypes
  <1>6. Apart' /\ \A g \in All : OnItsOwn(todo'[g], g)
    BY <1>1 DEF OneCallEach, Apart
  <1>7. Unsent'
    <2> SUFFICES ASSUME NEW g \in All, NEW u \in RefundIds, Holds(todo[g], u)
                 PROVE  refund'[u].sent = FALSE /\ (g \notin Workers => refund'[u].status = "PENDING")
      BY <1>1 DEF Unsent
    <2>1. u # r
      BY <1>1 DEF OneCallEach, Unsent
    <2> QED BY <1>5, <2>1 DEF OneCallEach, Unsent
  <1>8. \A u \in RefundIds : refund'[u].sent = refund[u].sent
    BY <1>3, <1>5
  <1>9. Once'
    BY <1>1, <1>8 DEF OneCallEach, Once
  <1> QED BY <1>6, <1>7, <1>9 DEF OneCallEach

LEMMA InsertSent ==
  ASSUME RefundsInv, OneCallEach, NEW h \in All, Insert(h)
  PROVE  OneCallEach'
  <1>1. /\ todo[h] # <<>> /\ Head(todo[h]).op = "insertRefund"
        /\ Arg(h) \in AskSteps /\ IsSplit(Arg(h))
    BY AskedStep, OpsAre DEF Insert, RefundsInv
  <1>2. PICK r \in RefundIds :
           /\ refund[r] = NoRefund
           /\ refund' = [refund EXCEPT ![r] =
                [payment |-> Arg(h).payment, kind |-> Arg(h).kind, cash |-> Arg(h).cash,
                 amounts |-> Arg(h).amounts, status |-> "PENDING", attempts |-> 0, sent |-> FALSE]]
           /\ Continue(h, <<[op |-> "attempt", id |-> r]>>)
    BY DEF Insert
  <1>3. UNCHANGED <<accepted, books, faults, unheard>>
    BY DEF Insert
  <1>4. /\ RefundsKept /\ r \in RowsIn(refund') /\ r \notin RowsIn(refund)
        /\ refund'[r].status = "PENDING" /\ refund'[r].sent = FALSE
        /\ \A u \in RefundIds : u # r => refund'[u] = refund[u]
    <2>1. RefundTypes /\ r \in RefundIds /\ UNCHANGED <<accepted, books, faults>>
      BY <1>3 DEF RefundsInv
    <2> QED BY <1>1, <1>2, <2>1, RowInserted
  <1>5. Tail(todo[h]) = <<>> /\ \A u : ~Pays(todo[h], u)
    BY <1>1, NothingElse, NotRows
  <1>6. PICK s : s = [op |-> "attempt", id |-> r]
    OBVIOUS
  <1>7. s \in FitSteps(refund') /\ s.op \in AboutRow /\ s.id = r
    BY <1>4, <1>6, IdStep, OpsAre
  <1>8. todo'[h] = <<s>> \o <<>> /\ \A g \in All : g # h => todo'[g] = todo[g]
    BY <1>1, <1>2, <1>4, <1>5, <1>6, <1>7, GoesOnWith DEF RefundsInv
  <1>9. todo'[h] = <<s>> /\ Head(todo'[h]) = s
    BY <1>8, OnlyStep
  <1>10. Distinct(todo'[h]) /\ \A u : Holds(todo'[h], u) => u = r
    BY <1>7, <1>9, OneHeld
  <1>11. \A g \in All : ~Holds(todo[g], r)
    BY <1>4, HeldRows
  <1>12. OnItsOwn(todo'[h], h)
    BY <1>7, <1>9 DEF OnItsOwn
  <1>13. /\ \A u \in RefundIds : Holds(todo'[h], u) =>
              /\ \A g \in All : g # h => ~Holds(todo[g], u)
              /\ refund'[u].sent = FALSE
              /\ h \notin Workers => refund'[u].status = "PENDING"
         /\ \A u \in RefundIds : \A g \in All : g # h /\ Holds(todo[g], u) =>
              refund'[u].sent = refund[u].sent /\ refund'[u].status = refund[u].status
    <2>1. \A u \in RefundIds : \A g \in All : Holds(todo[g], u) => refund'[u] = refund[u]
      BY <1>4, <1>11
    <2> QED BY <1>4, <1>10, <1>11, <2>1
  <1>14. Apart' /\ Unsent' /\ \A g \in All : OnItsOwn(todo'[g], g)
    BY <1>8, <1>10, <1>12, <1>13, NewRefunds
  <1>15. \A u \in RefundIds : refund[u].sent = TRUE => refund'[u].sent = TRUE
    BY <1>2, <1>4 DEF NoRefund
  <1>16. Once'
    BY <1>3, <1>5, <1>8, <1>15, StillOnce DEF OneCallEach
  <1> QED BY <1>14, <1>16 DEF OneCallEach

(* The sweep tries again what failed: nobody else is about those refunds,  *)
(* as a request is only about one that is pending, and there is no other   *)
(* sweep.                                                                  *)
LEMMA RetrySent ==
  ASSUME RefundsInv, OneCallEach, NEW w, Workers = {w}, NEW h \in All, RetryFailed(h)
  PROVE  OneCallEach'
  <1>1. /\ todo[h] # <<>> /\ Head(todo[h]).op = "retryRefunds"
        /\ UNCHANGED <<refund, accepted, unheard>>
    BY DEF RetryFailed, At
  <1>2. /\ Tail(todo[h]) = <<>> /\ (\A u : ~Pays(todo[h], u)) /\ h \in Workers
    BY <1>1, NothingElse, NotRows DEF OneCallEach, OnItsOwn
  <1>3. PICK n, q : n = Cardinality(Failed) /\ q = SetToSeq(Failed)
    OBVIOUS
  <1>4. PICK p : p = [i \in 1..n |-> [op |-> "attempt", id |-> q[i]]]
    OBVIOUS
  <1>5. n \in Nat /\ q \in [1..n -> Failed] /\ \A i, j \in 1..n : q[i] = q[j] => i = j
    BY <1>3, Retries DEF RefundsInv
  <1>6. p \in Seq(LaterSteps(refund))
    BY <1>3, <1>4, Retries DEF RefundsInv
  <1>7. Continue(h, p)
    BY <1>3, <1>4 DEF RetryFailed
  <1>8. RefundsKept
    BY <1>1 DEF RefundsKept, RowsIn
  <1>9. todo'[h] = p \o <<>> /\ \A g \in All : g # h => todo'[g] = todo[g]
    BY <1>1, <1>2, <1>6, <1>7, <1>8, GoesOn DEF RefundsInv
  <1>10. todo'[h] = p
    BY <1>6, <1>9
  <1>11. /\ Distinct(p) /\ (\A r : Holds(p, r) => \E i \in 1..n : q[i] = r)
         /\ p # <<>> => Head(p).op = "attempt"
    <2>1. PICK S : S = LaterSteps(refund)
      OBVIOUS
    <2>2. p \in Seq(S)
      BY <1>6, <2>1
    <2>3. \A i, j \in 1..n : q[i] = q[j] => i = j
      BY <1>5
    <2>4. Len(p) = n /\ \A i \in 1..n : p[i].op = "attempt" /\ p[i].id = q[i]
      <3>1. DOMAIN p = 1..n /\ \A i \in 1..n : p[i] = [op |-> "attempt", id |-> q[i]]
        BY <1>4
      <3>2. Len(p) \in Nat /\ DOMAIN p = 1..Len(p)
        BY <2>2, LenProperties
      <3>3. Len(p) = n
        BY <1>5, <3>1, <3>2
      <3> QED BY <3>1, <3>3
    <2>5. Distinct(p)
      BY <2>3, <2>4 DEF Distinct
    <2>6. \A r : Holds(p, r) => \E i \in 1..n : q[i] = r
      BY <2>4 DEF Holds
    <2>7. p # <<>> => Head(p) = p[1] /\ 1 \in 1..Len(p)
      BY <2>2, HeadTailProperties, LenProperties, EmptySeq
    <2> QED BY <2>4, <2>5, <2>6, <2>7
  <1>12. \A r \in RefundIds : Holds(p, r) => r \in Failed
    BY <1>5, <1>11
  <1>13. \A r \in Failed : refund[r].sent = FALSE /\ refund[r].status = "FAILED"
    <2> TAKE r \in Failed
    <2>1. r \in RefundIds /\ ~refund[r].sent /\ refund[r].status = "FAILED"
      BY DEF Failed, Retryable
    <2>2. refund[r] \in RefundRows
      BY <2>1 DEF RefundsInv, RefundTypes, NoRefund
    <2>3. refund[r].sent \in BOOLEAN
      BY <2>2 DEF RefundRows
    <2> QED BY <2>1, <2>3
  <1>14. \A r \in Failed : \A g \in All : g # h => ~Holds(todo[g], r)
    <2>1. \A g \in All : g # h => g \notin Workers
      BY <1>2
    <2>2. Failed \subseteq RefundIds
      BY DEF Failed
    <2> QED BY <1>13, <2>1, <2>2 DEF OneCallEach, Unsent
  <1>15. OnItsOwn(todo'[h], h)
    BY <1>10, <1>11, OpsAre DEF OnItsOwn
  <1>16. \A r \in RefundIds : Holds(todo'[h], r) =>
           /\ \A g \in All : g # h => ~Holds(todo[g], r)
           /\ refund'[r].sent = FALSE
           /\ h \notin Workers => refund'[r].status = "PENDING"
    BY <1>1, <1>2, <1>10, <1>12, <1>13, <1>14
  <1>17. Apart' /\ Unsent' /\ \A g \in All : OnItsOwn(todo'[g], g)
    BY <1>1, <1>9, <1>10, <1>11, <1>15, <1>16, NewRefunds
  <1>18. Once'
    BY <1>1, <1>2, <1>9, StillOnce DEF OneCallEach
  <1> QED BY <1>17, <1>18 DEF OneCallEach

LEMMA StartSent ==
  ASSUME RefundsInv, OneCallEach, UNCHANGED <<refund, accepted, unheard>>, NEW h \in All,
         NEW s \in FitSteps(refund), s.op \notin AboutRow,
         s.op = "retryRefunds" => h \in Workers, Begin(h, <<s>>)
  PROVE  OneCallEach'
  <1>1. RefundsKept
    BY DEF RefundsKept, RowsIn
  <1>2. s \in FitSteps(refund')
    OBVIOUS
  <1>3. /\ todo[h] = <<>> /\ todo'[h] = <<s>> /\ Head(todo'[h]) = s
        /\ \A g \in All : g # h => todo'[g] = todo[g]
    BY <1>1, <1>2, CallStarts DEF RefundsInv
  <1>4. Distinct(todo'[h]) /\ \A r : ~Holds(todo'[h], r)
    BY <1>3, OneHeld
  <1>5. OnItsOwn(todo'[h], h)
    <2>1. Tail(<<s>>) = <<>>
      OBVIOUS
    <2> QED BY <1>3, <2>1 DEF OnItsOwn
  <1>6. Apart' /\ Unsent' /\ \A g \in All : OnItsOwn(todo'[g], g)
    BY <1>3, <1>4, <1>5, NewRefunds
  <1>7. \A r : ~Pays(todo[h], r)
    BY <1>3 DEF Pays
  <1>8. Once'
    BY <1>3, <1>7, StillOnce DEF OneCallEach
  <1> QED BY <1>6, <1>8 DEF OneCallEach

LEMMA AskSent ==
  ASSUME RefundsInv, OneCallEach, NEW h \in All, Ask(h)
  PROVE  OneCallEach'
  <1>1. PICK c \in Callers : Begin(h, <<CreateRefund(c.order, c.kind, c.cash, c.amounts)>>)
    BY DEF Ask
  <1>2. PICK s : s = CreateRefund(c.order, c.kind, c.cash, c.amounts)
    OBVIOUS
  <1>3. s \in FitSteps(refund) /\ s.op \notin AboutRow /\ s.op # "retryRefunds"
    BY <1>2, Asked, AskStep, NotRows
  <1>4. UNCHANGED <<refund, accepted, unheard>> /\ Begin(h, <<s>>)
    BY <1>1, <1>2 DEF Ask
  <1> QED BY <1>3, <1>4, StartSent

LEMMA SweepSent ==
  ASSUME RefundsInv, OneCallEach, NEW h \in All, Sweep(h)
  PROVE  OneCallEach'
  <1>1. PICK s : s = [op |-> "retryRefunds"]
    OBVIOUS
  <1>2. s \in FitSteps(refund) /\ s.op \notin AboutRow
    BY <1>1, RetryStep, NotRows
  <1>3. UNCHANGED <<refund, accepted, unheard>> /\ Begin(h, <<s>>) /\ h \in Workers
    BY <1>1 DEF Sweep
  <1> QED BY <1>2, <1>3, StartSent

LEMMA SentStart == Init => SentInv
  <1> SUFFICES ASSUME Init PROVE OneCallEach
    BY DEF SentInv
  <1>1. \A h \in All : todo[h] = <<>>
    BY DEF Init, HandlersInit
  <1>2. Apart /\ Unsent
    BY <1>1, NoneHeld DEF Apart, Unsent
  <1>3. (\A h \in All : OnItsOwn(todo[h], h)) /\ Once
    BY <1>1 DEF OnItsOwn, Once, Init
  <1> QED BY <1>2, <1>3 DEF OneCallEach

LEMMA CrashesStay ==
  ASSUME NEW h \in All, Ask(h) \/ Sweep(h) \/ RefundStep(h) \/ RetryFailed(h), RefundTypes
  PROVE  SameCrashes
  <1>1. UNCHANGED faults \/ Refused
    BY DEF Ask, Sweep, RefundStep, RetryFailed, Check, Insert, Attempt, Claim, Accepted,
           RefusedRefund, Fail, Tally, Save
  <1> QED BY <1>1, FaultsKept

LEMMA SentInvKept ==
  ASSUME NEW w, Workers = {w}
  PROVE  RefundsInv /\ SentInv /\ [Next]_vars => SentInv'
  <1> SUFFICES ASSUME RefundsInv, SentInv, [Next]_vars, faults'.crashes = 0 PROVE OneCallEach'
    BY DEF SentInv
  <1>1. CASE UNCHANGED vars
    <2>1. UNCHANGED <<refund, accepted, unheard, todo, faults>>
      BY <1>1 DEF vars
    <2>2. OneCallEach
      BY <2>1 DEF SentInv
    <2> QED BY <2>1, <2>2 DEF OneCallEach, Apart, Unsent, Once
  <1>2. ASSUME NEW h \in All, Ask(h) \/ Sweep(h) \/ RefundStep(h) \/ RetryFailed(h)
        PROVE  OneCallEach'
    <2>1. OneCallEach
      <3>1. SameCrashes
        BY <1>2, CrashesStay DEF RefundsInv
      <3> QED BY <3>1 DEF SameCrashes, SentInv
    <2> QED BY <1>2, <2>1, AskSent, SweepSent, RetrySent, CheckSent, InsertSent, AttemptSent,
               ClaimSent, AcceptedSent, RefusedSent, FailSent, TallySent, SaveSent DEF RefundStep
  <1>3. ASSUME NEW r \in RefundIds, NEW ok \in BOOLEAN, Settle(r, ok)
        PROVE  OneCallEach'
    <2>1. OneCallEach
      BY <1>3 DEF Settle, SentInv
    <2> QED BY <1>3, <2>1, SettleSent
  <1>4. ~Crash
    BY CrashHolds
  <1> QED BY <1>1, <1>2, <1>3, <1>4 DEF Next

(* Where one process sweeps, Razorpay is asked to send a refund once,      *)
(* whatever callers ask for and however often the sweep tries again, as    *)
(* long as its answers arrive and no process is cut off (attempt's claim,  *)
(* retryFailed).  Where two sweep, the claim does not prevent it: the      *)
(* second reads the row after the first has claimed it.                    *)
THEOREM RefundsAreSentOnce ==
  ASSUME NEW w, Workers = {w}
  PROVE  Spec => []SentOnce
  <1>1. SentInv => SentOnce
    BY DEF SentInv, OneCallEach, Once, SentOnce
  <1>2. RefundsInv /\ SentInv /\ [Next]_vars => SentInv'
    BY SentInvKept
  <1>3. Spec => []RefundsInv
    BY RefundsStart, RefundsInvKept, PTL DEF Spec
  <1>4. Spec => []SentInv
    BY <1>2, <1>3, SentStart, PTL DEF Spec
  <1> QED BY <1>1, <1>4, PTL

----------------------------------------------------------------------------
(* Referral credit, for any people, bookings and transactions at once.     *)
(* The argument is the lock: what its holder read may be too low, because  *)
(* credit is given back without the lock, but never too high; and only the *)
(* holder adds a reward.  And every balance is what it should be, by sums  *)
(* over bookings and invitations.                                          *)

CallRows ==
  [step : {"IDLE", "READY", "LOCKED"}, kind : {"NONE", "REDEEM", "BOOK", "REVOKE", "REWARD"},
   who : People \cup {Nobody}, about : People \cup Bookings \cup {Nobody}, seen : Nat]

BookingRows ==
  [status : {"NONE", "UNPAID", "PAID", "CLOSED", "CANCELLED", "COMPLETED"},
   borrower : People \cup {Nobody}, held : Nat, given : Nat]

Types ==
  /\ balance \in [People -> Nat]
  /\ referral \in [People -> [by : People \cup {Nobody}, rewarded : BOOLEAN]]
  /\ booking \in [Bookings -> BookingRows]
  /\ lock \in [People -> SUBSET Calls]
  /\ call \in [Calls -> CallRows]
  /\ taken \in [People -> 0..MaxTaken]

(* What a call in progress is about. *)
WellAsked ==
  \A c \in Calls :
    /\ call[c].step = "IDLE" => call[c] = NoCall
    /\ call[c].step # "IDLE" => call[c].who \in People
    /\ call[c].kind = "REWARD" =>
         /\ call[c].about \in People
         /\ referral[call[c].about].by = call[c].who
    /\ call[c].kind = "REDEEM" => call[c].about \in People

(* Who is recorded as invited was invited by someone. *)
Referred == \A p \in People : referral[p] # NoReferral => referral[p].by \in People

(* A person's lock has one holder. *)
LockHeld ==
  /\ \A c \in Calls : call[c].step = "LOCKED" => lock[call[c].who] = {c}
  /\ \A u \in People : \A c \in lock[u] : call[c].step = "LOCKED" /\ call[c].who = u

SeenHolds ==
  \A c \in Calls : call[c].step = "LOCKED" =>
    /\ call[c].kind \in {"BOOK", "REVOKE"} => call[c].seen <= balance[call[c].who]
    /\ call[c].kind = "REWARD" => call[c].seen = Cardinality(Rewarded(call[c].who))

RowsHold ==
  \A b \in Bookings :
    /\ booking[b].given <= booking[b].held
    /\ booking[b].status = "CLOSED" => booking[b].given = booking[b].held
    /\ booking[b].status # "NONE" => booking[b].borrower \in People
    /\ booking[b].status \in {"UNPAID", "PAID"} => booking[b].given = 0

Inv == Types /\ WellAsked /\ Referred /\ LockHeld /\ SeenHolds /\ RowsHold /\ WithinCap

USE CreditsAssumption

LEMMA InitInv == CreditsInit => Inv
  <1> SUFFICES ASSUME CreditsInit
               PROVE  Inv
    OBVIOUS
  <1>1. Types
    BY DEF CreditsInit, Types, NoReferral, NoBooking, NoCall, CallRows, BookingRows
  <1>2. WellAsked /\ Referred /\ LockHeld /\ SeenHolds
    BY DEF CreditsInit, WellAsked, Referred, LockHeld, SeenHolds, NoCall
  <1>3. RowsHold
    BY DEF CreditsInit, RowsHold, NoBooking
  <1>4. ASSUME NEW u \in People
        PROVE  Cardinality(Rewarded(u)) <= MaxRewards
    <2>1. Rewarded(u) = {}
      BY DEF CreditsInit, Rewarded, NoReferral
    <2> QED BY <2>1, FS_EmptySet
  <1> QED BY <1>1, <1>2, <1>3, <1>4 DEF Inv, WithinCap

(* Whose rewards have not changed. *)
LEMMA SameRewards ==
  ASSUME NEW u, \A p \in People : referral'[p] = [by |-> u, rewarded |-> TRUE]
                                  <=> referral[p] = [by |-> u, rewarded |-> TRUE]
  PROVE  Rewarded(u)' = Rewarded(u)
  BY DEF Rewarded

LEMMA SameReferrals ==
  ASSUME referral' = referral, WithinCap
  PROVE  WithinCap' /\ \A u : Rewarded(u)' = Rewarded(u)
  BY DEF Rewarded, WithinCap

(* Credit that comes back, or nothing: what anyone has read still holds.   *)
LEMMA BalanceMayRise ==
  ASSUME Inv, referral' = referral, lock' = lock, call' = call, taken' = taken,
         balance' \in [People -> Nat], \A u \in People : balance[u] <= balance'[u],
         booking' \in [Bookings -> BookingRows],
         RowsHold'
  PROVE  Inv'
  <1>1. Types'
    BY DEF Inv, Types
  <1>2. WellAsked' /\ Referred' /\ LockHeld'
    BY DEF Inv, WellAsked, Referred, LockHeld
  <1>3. WithinCap' /\ \A u : Rewarded(u)' = Rewarded(u)
    BY SameReferrals DEF Inv
  <1>4. ASSUME NEW c \in Calls, call[c].step = "LOCKED", call[c].kind \in {"BOOK", "REVOKE"}
        PROVE  call[c].seen <= balance'[call[c].who]
    <2>1. call[c].who \in People /\ call[c].seen \in Nat
      BY <1>4 DEF Inv, Types, WellAsked, CallRows, BookingRows
    <2>2. balance[call[c].who] \in Nat /\ balance'[call[c].who] \in Nat
      BY <2>1 DEF Inv, Types
    <2>3. balance[call[c].who] <= balance'[call[c].who] /\ call[c].seen <= balance[call[c].who]
      BY <1>4, <2>1 DEF Inv, SeenHolds
    <2> QED BY <2>1, <2>2, <2>3
  <1>5. SeenHolds'
    BY <1>3, <1>4 DEF Inv, SeenHolds
  <1> QED BY <1>1, <1>2, <1>3, <1>5 DEF Inv

(* A call that begins has read nothing yet. *)
LEMMA Begun ==
  ASSUME Inv, NEW c \in Calls, NEW who \in People, NEW about \in People \cup Bookings \cup {Nobody},
         NEW kind \in {"REDEEM", "BOOK", "REVOKE", "REWARD"}, Start(c, kind, who, about),
         kind = "REWARD" => about \in People /\ referral[about].by = who,
         kind = "REDEEM" => about \in People,
         booking' \in [Bookings -> BookingRows],
         RowsHold'
  PROVE  Inv'
  <1>1. PICK row : row = [step |-> "READY", kind |-> kind, who |-> who, about |-> about, seen |-> 0]
    OBVIOUS
  <1>2. /\ row.step = "READY" /\ row.kind = kind /\ row.who = who /\ row.about = about
        /\ row \in CallRows
    BY <1>1 DEF CallRows, BookingRows
  <1>3. call' = [call EXCEPT ![c] = row] /\ call[c] = NoCall
    BY <1>1 DEF Start
  <1>4. /\ call'[c] = row
        /\ \A d \in Calls : d # c => call'[d] = call[d]
        /\ call[c].step = "IDLE"
    BY <1>3 DEF Inv, Types, NoCall
  <1>5. balance' = balance /\ referral' = referral /\ lock' = lock /\ taken' = taken
    BY DEF Start
  <1>6. Types'
    BY <1>2, <1>3, <1>5 DEF Inv, Types
  <1>7. WellAsked' /\ Referred'
    BY <1>2, <1>4, <1>5 DEF Inv, WellAsked, Referred
  <1>8. LockHeld'
    <2>1. \A u \in People : \A d \in lock[u] : d \in Calls /\ d # c
      BY <1>4 DEF Inv, Types, LockHeld
    <2>2. \A d \in Calls : call'[d].step = "LOCKED" => d # c
      BY <1>2, <1>4
    <2>3. \A u \in People : \A d \in lock'[u] : call'[d].step = "LOCKED" /\ call'[d].who = u
      BY <1>4, <1>5, <2>1 DEF Inv, LockHeld
    <2>4. \A d \in Calls : call'[d].step = "LOCKED" => lock'[call'[d].who] = {d}
      BY <1>4, <1>5, <2>2 DEF Inv, LockHeld
    <2> QED BY <2>3, <2>4 DEF LockHeld
  <1>9. WithinCap' /\ \A u : Rewarded(u)' = Rewarded(u)
    BY <1>5, SameReferrals DEF Inv
  <1>10. SeenHolds'
    BY <1>2, <1>4, <1>5, <1>9 DEF Inv, SeenHolds
  <1> QED BY <1>6, <1>7, <1>8, <1>9, <1>10 DEF Inv

(* A call that ends, and its lock with it. *)
LEMMA Ended ==
  ASSUME Inv, NEW c \in Calls, call[c] # NoCall, Ends(c),
         \A p \in People : referral[p] # NoReferral => referral'[p].by = referral[p].by
  PROVE  /\ call' \in [Calls -> CallRows]
         /\ lock' \in [People -> SUBSET Calls]
         /\ call'[c] = NoCall
         /\ \A d \in Calls : d # c => call'[d] = call[d]
         /\ LockHeld'
         /\ call[c].step = "LOCKED" =>
              \A d \in Calls : d # c /\ call[d].step = "LOCKED" => call[d].who # call[c].who
  <1>1. call[c].who \in People
    BY DEF Inv, Types, WellAsked
  <1>2. /\ NoCall \in CallRows
        /\ NoCall.step = "IDLE"
    BY DEF NoCall, CallRows, BookingRows
  <1>3. /\ call' = [call EXCEPT ![c] = NoCall]
        /\ lock' = [lock EXCEPT ![call[c].who] = @ \ {c}]
    BY DEF Ends
  <1>4. /\ call'[c] = NoCall
        /\ \A d \in Calls : d # c => call'[d] = call[d]
    BY <1>3 DEF Inv, Types
  <1>5. /\ lock' \in [People -> SUBSET Calls]
        /\ lock'[call[c].who] = lock[call[c].who] \ {c}
        /\ \A u \in People : u # call[c].who => lock'[u] = lock[u]
    BY <1>1, <1>3 DEF Inv, Types
  <1>6. ASSUME NEW d \in Calls, d # c, call[d].step = "LOCKED", call[c].step = "LOCKED"
        PROVE  call[d].who # call[c].who
    BY <1>6 DEF Inv, LockHeld
  <1>7. ASSUME NEW d \in Calls, call'[d].step = "LOCKED"
        PROVE  lock'[call'[d].who] = {d}
    <2>1. d # c /\ call'[d] = call[d] /\ call[d].step = "LOCKED"
      BY <1>2, <1>4, <1>7
    <2>2. call[d].who \in People /\ lock[call[d].who] = {d}
      BY <2>1 DEF Inv, WellAsked, LockHeld
    <2> QED BY <1>5, <2>1, <2>2
  <1>8. ASSUME NEW u \in People, NEW d \in lock'[u]
        PROVE  call'[d].step = "LOCKED" /\ call'[d].who = u
    <2>1. d \in lock[u] /\ d \in Calls
      BY <1>5 DEF Inv, Types
    <2>2. call[d].step = "LOCKED" /\ call[d].who = u
      BY <2>1 DEF Inv, LockHeld
    <2>3. d # c
      BY <1>5, <2>2
    <2> QED BY <1>4, <2>1, <2>2, <2>3
  <1>9. LockHeld'
    BY <1>7, <1>8 DEF LockHeld
  <1> QED BY <1>2, <1>3, <1>4, <1>5, <1>6, <1>9 DEF Inv, Types

(* The steps of the bookings themselves, which no lock guards. *)
LEMMA GoingInv ==
  ASSUME Inv, NEW b \in Bookings, Going(b)
  PROVE  Inv'
  <1>1. ASSUME NEW from \in {"UNPAID", "PAID"}, NEW to \in {"PAID", "CANCELLED", "COMPLETED"},
               Change(b, from, to), UNCHANGED <<balance, referral, lock, call, taken>>
        PROVE  Inv'
    <2>1. PICK row : row = [booking[b] EXCEPT !.status = to]
      OBVIOUS
    <2>2. booking' = [booking EXCEPT ![b] = row] /\ booking[b].status = from
      BY <1>1, <2>1 DEF Change
    <2>3. /\ booking' \in [Bookings -> BookingRows]
          /\ row.status = to /\ row.borrower = booking[b].borrower
          /\ row.held = booking[b].held /\ row.given = booking[b].given
      <3>1. booking \in [Bookings -> BookingRows] /\ booking[b] \in BookingRows
        BY DEF Inv, Types
      <3>2. /\ row \in BookingRows
            /\ row.status = to /\ row.borrower = booking[b].borrower
            /\ row.held = booking[b].held /\ row.given = booking[b].given
        BY <2>1, <3>1 DEF BookingRows
      <3> QED BY <2>2, <3>1, <3>2
    <2>4. RowsHold'
      BY <2>2, <2>3 DEF Inv, Types, RowsHold
    <2> QED BY <1>1, <2>3, <2>4, BalanceMayRise DEF Inv, Types
  <1>2. ASSUME NEW status \in {"CLOSED", "CANCELLED"}, NEW amount \in Nat,
               booking[b].status # "NONE", booking[b].given = 0, amount <= booking[b].held,
               status = "CLOSED" => amount = booking[b].held,
               GivenBack(b, status, amount), UNCHANGED <<referral, lock, call, taken>>
        PROVE  Inv'
    <2>1. PICK u : u = booking[b].borrower
      OBVIOUS
    <2>2. u \in People /\ booking[b].given = 0
      BY <1>2, <2>1 DEF Inv, RowsHold
    <2>3. PICK row : row = ClosedBooking(booking[b], status, amount)
      OBVIOUS
    <2>4. booking' = [booking EXCEPT ![b] = row]
      BY <1>2, <2>3 DEF GivenBack
    <2>5. /\ row \in BookingRows
          /\ row.status = status /\ row.borrower = u /\ row.held = booking[b].held
          /\ row.given = amount
      <3>1. booking[b] \in BookingRows
        BY DEF Inv, Types
      <3>2. row = [status |-> status, borrower |-> u, held |-> booking[b].held,
                   given |-> booking[b].given + amount]
        BY <2>1, <2>3, <3>1 DEF ClosedBooking, CallRows, BookingRows
      <3>3. booking[b].given + amount = amount
        BY <2>2
      <3>4. /\ booking[b].held \in Nat
            /\ status \in {"NONE", "UNPAID", "PAID", "CLOSED", "CANCELLED", "COMPLETED"}
        BY <3>1 DEF CallRows, BookingRows
      <3> QED BY <2>2, <3>2, <3>3, <3>4 DEF CallRows, BookingRows
    <2>6. RowsHold'
      <3> SUFFICES ASSUME NEW d \in Bookings
                   PROVE  /\ booking'[d].given <= booking'[d].held
                          /\ booking'[d].status = "CLOSED" => booking'[d].given = booking'[d].held
                          /\ booking'[d].status # "NONE" => booking'[d].borrower \in People
                          /\ booking'[d].status \in {"UNPAID", "PAID"} => booking'[d].given = 0
        BY DEF RowsHold
      <3>1. CASE d = b
        <4>1. booking'[d] = row
          BY <2>4, <3>1 DEF Inv, Types
        <4> QED BY <1>2, <2>2, <2>5, <4>1
      <3>2. CASE d # b
        BY <2>4, <3>2 DEF Inv, Types, RowsHold
      <3> QED BY <3>1, <3>2
    <2>7. balance' \in [People -> Nat] /\ \A v \in People : balance[v] <= balance'[v]
      BY <1>2, <2>1, <2>2 DEF GivenBack, Inv, Types
    <2>8. booking' \in [Bookings -> BookingRows]
      BY <2>4, <2>5 DEF Inv, Types
    <2> QED BY <1>2, <2>6, <2>7, <2>8, BalanceMayRise
  <1>3. CASE Pay(b)
    BY <1>1, <1>3 DEF Pay
  <1>4. CASE CloseUnpaid(b)
    <2>1. booking[b].held \in Nat /\ booking[b].given = 0 /\ booking[b].status = "UNPAID"
      BY <1>4 DEF CloseUnpaid, Inv, Types, RowsHold, CallRows, BookingRows
    <2> QED BY <1>2, <1>4, <2>1 DEF CloseUnpaid
  <1>5. CASE CancelPaid(b)
    BY <1>1, <1>5 DEF CancelPaid
  <1>6. CASE Complete(b)
    BY <1>1, <1>6 DEF Complete
  <1>7. ASSUME NEW rentBack \in 0..(2 * Limit), RefundCredit(b, rentBack)
        PROVE  Inv'
    <2>1. rentBack \in Nat /\ booking[b].held \in Nat
      BY DEF Inv, Types, CallRows, BookingRows
    <2>2. PICK amount : amount = Least(booking[b].held, rentBack)
      OBVIOUS
    <2>3. amount \in Nat /\ amount <= booking[b].held
      BY <2>1, <2>2 DEF Least
    <2> QED BY <1>2, <1>7, <2>2, <2>3 DEF RefundCredit, Releasable
  <1> QED BY <1>3, <1>4, <1>5, <1>6, <1>7 DEF Going

(* A call takes its person's lock and reads. *)
LEMMA LockInv ==
  ASSUME Inv, NEW c \in Calls, Lock(c)
  PROVE  Inv'
  <1>1. PICK u : u = call[c].who
    OBVIOUS
  <1>2. u \in People /\ lock[u] = {} /\ call[c].step = "READY"
    BY <1>1 DEF Lock, Unlocked, Inv, WellAsked
  <1>3. IsFiniteSet(Rewarded(u)) /\ Cardinality(Rewarded(u)) \in Nat
    BY FS_Subset, FS_CardinalityType DEF Rewarded
  <1>4. PICK seen : seen = IF call[c].kind = "REWARD" THEN Cardinality(Rewarded(u)) ELSE balance[u]
    OBVIOUS
  <1>5. seen \in Nat
    BY <1>2, <1>3, <1>4 DEF Inv, Types
  <1>6. call' = [call EXCEPT ![c] = HasLock(call[c], seen)]
    BY <1>1, <1>4 DEF Lock
  <1>r. PICK row : row = HasLock(call[c], seen)
    OBVIOUS
  <1>s. /\ row \in CallRows
        /\ row.step = "LOCKED" /\ row.seen = seen
        /\ row.kind = call[c].kind /\ row.who = u /\ row.about = call[c].about
    <2>1. call[c] \in CallRows
      BY DEF Inv, Types
    <2>2. row = [step |-> "LOCKED", kind |-> call[c].kind, who |-> u, about |-> call[c].about,
                 seen |-> seen]
      BY <1>1, <1>r, <2>1 DEF HasLock, CallRows
    <2> QED BY <1>1, <1>5, <2>1, <2>2 DEF CallRows
  <1>7. /\ call'[c].step = "LOCKED" /\ call'[c].seen = seen
        /\ call'[c].kind = call[c].kind /\ call'[c].who = u /\ call'[c].about = call[c].about
        /\ \A d \in Calls : d # c => call'[d] = call[d]
    BY <1>6, <1>r, <1>s DEF Inv, Types
  <1>8. /\ balance' = balance /\ referral' = referral /\ booking' = booking /\ taken' = taken
        /\ lock' = [lock EXCEPT ![u] = lock[u] \cup {c}]
    BY <1>1 DEF Lock
  <1>9. /\ lock' \in [People -> SUBSET Calls]
        /\ lock'[u] = {c} /\ \A v \in People : v # u => lock'[v] = lock[v]
    BY <1>2, <1>8 DEF Inv, Types
  <1>10. call' \in [Calls -> CallRows]
    BY <1>6, <1>r, <1>s DEF Inv, Types
  <1>11. Types'
    BY <1>8, <1>9, <1>10 DEF Inv, Types
  <1>12. WellAsked' /\ Referred'
    BY <1>1, <1>2, <1>7, <1>8 DEF Inv, WellAsked, Referred
  <1>13. LockHeld'
    <2>1. ASSUME NEW d \in Calls, d # c, call[d].step = "LOCKED"
          PROVE  call[d].who \in People /\ call[d].who # u
      BY <1>2, <2>1 DEF Inv, WellAsked, LockHeld
    <2>2. ASSUME NEW d \in Calls, call'[d].step = "LOCKED"
          PROVE  lock'[call'[d].who] = {d}
      BY <1>7, <1>9, <2>1, <2>2 DEF Inv, LockHeld
    <2>3. ASSUME NEW v \in People, NEW d \in lock'[v]
          PROVE  call'[d].step = "LOCKED" /\ call'[d].who = v
      <3>1. CASE v = u
        BY <1>7, <1>9, <2>3, <3>1
      <3>2. CASE v # u
        <4>1. d \in lock[v] /\ d \in Calls
          BY <1>9, <2>3, <3>2 DEF Inv, Types
        <4>2. call[d].step = "LOCKED" /\ call[d].who = v
          BY <4>1 DEF Inv, LockHeld
        <4> QED BY <1>2, <1>7, <4>1, <4>2
      <3> QED BY <3>1, <3>2
    <2> QED BY <2>2, <2>3 DEF LockHeld
  <1>14. WithinCap' /\ \A v : Rewarded(v)' = Rewarded(v)
    BY <1>8, SameReferrals DEF Inv
  <1>15. SeenHolds'
    <2>1. /\ call'[c].kind \in {"BOOK", "REVOKE"} => call'[c].seen <= balance[u]
          /\ call'[c].kind = "REWARD" => call'[c].seen = Cardinality(Rewarded(u))
      <3>1. balance[u] \in Nat
        BY <1>2 DEF Inv, Types
      <3> QED BY <1>4, <1>7, <3>1
    <2> QED BY <1>7, <1>8, <1>14, <2>1 DEF Inv, SeenHolds
  <1>16. RowsHold'
    BY <1>8 DEF Inv, RowsHold
  <1> QED BY <1>11, <1>12, <1>13, <1>14, <1>15, <1>16 DEF Inv

(* The steps that end a call, apart from the reward: nobody's rewards      *)
(* change, and only the holder of a lock takes from the balance.           *)
LEMMA EndInv ==
  ASSUME Inv, NEW c \in Calls, call[c] # NoCall, Ends(c),
         referral' \in [People -> [by : People \cup {Nobody}, rewarded : BOOLEAN]],
         \A p \in People : referral'[p] # referral[p] =>
           referral[p] = NoReferral /\ ~referral'[p].rewarded /\ referral'[p].by \in People,
         balance' \in [People -> Nat],
         \A u \in People : balance'[u] < balance[u] => u = call[c].who /\ call[c].step = "LOCKED",
         taken' \in [People -> 0..MaxTaken],
         booking' \in [Bookings -> BookingRows],
         RowsHold'
  PROVE  Inv'
  <1>1. /\ call' \in [Calls -> CallRows]
        /\ lock' \in [People -> SUBSET Calls]
        /\ call'[c] = NoCall
        /\ \A d \in Calls : d # c => call'[d] = call[d]
        /\ LockHeld'
        /\ call[c].step = "LOCKED" =>
             \A d \in Calls : d # c /\ call[d].step = "LOCKED" => call[d].who # call[c].who
    BY Ended
  <1>2. Types'
    BY <1>1 DEF Types
  <1>3. NoCall.step = "IDLE" /\ NoCall.kind = "NONE"
    BY DEF NoCall
  <1>4. ASSUME NEW d \in Calls, call'[d].kind = "REWARD"
        PROVE  call'[d].about \in People /\ referral'[call'[d].about].by = call'[d].who
    <2>1. d # c /\ call'[d] = call[d] /\ call[d].kind = "REWARD"
      BY <1>1, <1>3, <1>4
    <2>2. /\ call[d].about \in People /\ call[d].who \in People
          /\ referral[call[d].about].by = call[d].who
      BY <2>1, <1>3 DEF Inv, WellAsked
    <2>3. referral[call[d].about] # NoReferral
      BY <2>2 DEF NoReferral
    <2> QED BY <2>1, <2>2, <2>3
  <1>5. WellAsked' /\ Referred'
    BY <1>1, <1>3, <1>4 DEF Inv, WellAsked, Referred
  <1>6. ASSUME NEW u \in People
        PROVE  Rewarded(u)' = Rewarded(u)
    <2>1. ASSUME NEW p \in People
          PROVE  referral'[p] = [by |-> u, rewarded |-> TRUE] <=> referral[p] = [by |-> u, rewarded |-> TRUE]
      <3>1. CASE referral'[p] = referral[p]
        BY <3>1
      <3>2. CASE referral'[p] # referral[p]
        <4>1. ~referral'[p].rewarded /\ ~referral[p].rewarded
          BY <3>2 DEF NoReferral
        <4> QED BY <4>1
      <3> QED BY <3>1, <3>2
    <2> QED BY <2>1 DEF Rewarded
  <1>7. WithinCap'
    BY <1>6 DEF Inv, WithinCap
  <1>8. ASSUME NEW d \in Calls, call'[d].step = "LOCKED"
        PROVE  /\ d # c /\ call'[d] = call[d] /\ call[d].who \in People
               /\ call[d].kind \in {"BOOK", "REVOKE"} => call[d].seen <= balance'[call[d].who]
    <2>1. d # c /\ call'[d] = call[d]
      BY <1>1, <1>3, <1>8
    <2>2. call[d].who \in People /\ call[d].seen \in Nat
      BY <1>8, <2>1 DEF Inv, Types, WellAsked, CallRows, BookingRows
    <2>3. /\ balance[call[d].who] \in Nat /\ balance'[call[d].who] \in Nat
          /\ ~(balance'[call[d].who] < balance[call[d].who])
      BY <1>1, <1>8, <2>1, <2>2 DEF Inv, Types
    <2>4. call[d].kind \in {"BOOK", "REVOKE"} => call[d].seen <= balance[call[d].who]
      BY <1>8, <2>1 DEF Inv, SeenHolds
    <2> QED BY <2>1, <2>2, <2>3, <2>4
  <1>9. SeenHolds'
    BY <1>6, <1>8 DEF Inv, SeenHolds
  <1> QED BY <1>1, <1>2, <1>5, <1>7, <1>9 DEF Inv

LEMMA RewardedRow ==
  ASSUME NEW S, NEW row \in [by : S, rewarded : BOOLEAN]
  PROVE  [row EXCEPT !.rewarded = TRUE] = [by |-> row.by, rewarded |-> TRUE]
  <1>1. PICK new : new = [row EXCEPT !.rewarded = TRUE]
    OBVIOUS
  <1>2. new \in [by : S, rewarded : BOOLEAN] /\ new.by = row.by /\ new.rewarded = TRUE
    BY <1>1
  <1>3. new = [by |-> new.by, rewarded |-> new.rewarded]
    BY <1>2
  <1> QED BY <1>1, <1>2, <1>3

(* The reward: the count it read is exact, and it adds one to it.          *)
LEMMA RewardInv ==
  ASSUME Inv, NEW c \in Calls, Reward(c)
  PROVE  Inv'
  <1>1. PICK u, p : u = call[c].who /\ p = call[c].about
    OBVIOUS
  <1>2. /\ call[c].step = "LOCKED" /\ call[c].kind = "REWARD" /\ call[c].seen < MaxRewards
        /\ ~referral[p].rewarded /\ Ends(c)
        /\ referral' = [referral EXCEPT ![p].rewarded = TRUE]
        /\ balance' = [balance EXCEPT ![u] = @ + Gift]
        /\ booking' = booking /\ taken' = taken
    BY <1>1 DEF Reward, Locked
  <1>3. /\ u \in People /\ p \in People /\ referral[p].by = u
        /\ call[c].seen = Cardinality(Rewarded(u))
    BY <1>1, <1>2 DEF Inv, WellAsked, SeenHolds
  <1>4. /\ referral' \in [People -> [by : People \cup {Nobody}, rewarded : BOOLEAN]]
        /\ referral'[p] = [by |-> u, rewarded |-> TRUE]
        /\ referral[p] # [by |-> u, rewarded |-> TRUE]
        /\ \A q \in People : q # p => referral'[q] = referral[q]
        /\ \A q \in People : referral'[q].by = referral[q].by
    <2>1. referral \in [People -> [by : People \cup {Nobody}, rewarded : BOOLEAN]]
      BY DEF Inv, Types
    <2>2. [referral[p] EXCEPT !.rewarded = TRUE] = [by |-> u, rewarded |-> TRUE]
      BY <1>3, <2>1, RewardedRow
    <2>3. referral' = [referral EXCEPT ![p] = [by |-> u, rewarded |-> TRUE]]
      BY <1>2, <2>2
    <2>4. [by |-> u, rewarded |-> TRUE] \in [by : People \cup {Nobody}, rewarded : BOOLEAN]
      BY <1>3
    <2>5. referral[p] # [by |-> u, rewarded |-> TRUE]
      BY <1>2
    <2> QED BY <1>3, <2>1, <2>3, <2>4, <2>5
  <1>5. /\ balance' \in [People -> Nat]
        /\ \A v \in People : balance[v] <= balance'[v]
    <2>1. balance \in [People -> Nat] /\ Gift \in Nat
      BY DEF Inv, Types, CreditsAssumption
    <2> QED BY <1>2, <1>3, <2>1
  <1>6. Rewarded(u)' = Rewarded(u) \cup {p} /\ p \notin Rewarded(u)
    BY <1>3, <1>4 DEF Rewarded
  <1>7. ASSUME NEW v \in People, v # u
        PROVE  Rewarded(v)' = Rewarded(v)
    <2>1. \A q \in People : referral'[q] = [by |-> v, rewarded |-> TRUE]
                             <=> referral[q] = [by |-> v, rewarded |-> TRUE]
      <3>1. /\ referral'[p] # [by |-> v, rewarded |-> TRUE]
            /\ referral[p] # [by |-> v, rewarded |-> TRUE]
        BY <1>3, <1>4, <1>7
      <3> QED BY <1>4, <3>1
    <2> QED BY <2>1 DEF Rewarded
  <1>8. IsFiniteSet(Rewarded(u)) /\ Cardinality(Rewarded(u)) \in Nat
    BY FS_Subset, FS_CardinalityType DEF Rewarded
  <1>9. Cardinality(Rewarded(u)') <= MaxRewards
    <2>1. Cardinality(Rewarded(u) \cup {p}) = Cardinality(Rewarded(u)) + 1
      BY <1>6, <1>8, FS_AddElement
    <2> QED BY <1>2, <1>3, <1>6, <1>8, <2>1
  <1>10. WithinCap'
    <2>1. ASSUME NEW v \in People
          PROVE  Cardinality(Rewarded(v)') <= MaxRewards
      BY <1>7, <1>9 DEF Inv, WithinCap
    <2> QED BY <2>1 DEF WithinCap
  <1>11. call[c] # NoCall
    BY <1>2 DEF NoCall
  <1>12. /\ call' \in [Calls -> CallRows]
         /\ lock' \in [People -> SUBSET Calls]
         /\ call'[c] = NoCall
         /\ \A d \in Calls : d # c => call'[d] = call[d]
         /\ LockHeld'
         /\ \A d \in Calls : d # c /\ call[d].step = "LOCKED" => call[d].who # u
    BY <1>1, <1>2, <1>4, <1>11, Ended
  <1>13. Types'
    BY <1>2, <1>4, <1>5, <1>12 DEF Inv, Types
  <1>14. NoCall.step = "IDLE" /\ NoCall.kind = "NONE"
    BY DEF NoCall
  <1>15. WellAsked' /\ Referred'
    <2>1. ASSUME NEW d \in Calls
          PROVE  /\ call'[d].step = "IDLE" => call'[d] = NoCall
                 /\ call'[d].step # "IDLE" => call'[d].who \in People
                 /\ call'[d].kind = "REWARD" =>
                      /\ call'[d].about \in People
                      /\ referral'[call'[d].about].by = call'[d].who
                 /\ call'[d].kind = "REDEEM" => call'[d].about \in People
      <3>1. CASE d = c
        BY <1>12, <1>14, <3>1
      <3>2. CASE d # c
        <4>1. call'[d] = call[d]
          BY <1>12, <3>2
        <4> QED BY <1>4, <4>1 DEF Inv, WellAsked
      <3> QED BY <3>1, <3>2
    <2>2. ASSUME NEW q \in People, referral'[q] # NoReferral
          PROVE  referral'[q].by \in People
      <3>1. CASE q = p
        BY <1>3, <1>4, <3>1
      <3>2. CASE q # p
        BY <1>4, <2>2, <3>2 DEF Inv, Referred
      <3> QED BY <3>1, <3>2
    <2>3. WellAsked'
      BY <2>1 DEF WellAsked
    <2>4. Referred'
      BY <2>2 DEF Referred
    <2> QED BY <2>3, <2>4
  <1>16. ASSUME NEW d \in Calls, call'[d].step = "LOCKED"
         PROVE  /\ call'[d] = call[d] /\ call[d].step = "LOCKED"
                /\ call[d].who \in People /\ call[d].who # u
                /\ call[d].kind \in {"BOOK", "REVOKE"} => call[d].seen <= balance'[call[d].who]
    <2>1. d # c /\ call'[d] = call[d] /\ call[d].step = "LOCKED"
      BY <1>12, <1>14, <1>16
    <2>2. call[d].who \in People /\ call[d].who # u /\ call[d].seen \in Nat
      BY <1>12, <2>1 DEF Inv, Types, WellAsked, CallRows
    <2>3. balance'[call[d].who] = balance[call[d].who]
      BY <1>2, <2>2 DEF Inv, Types
    <2> QED BY <2>1, <2>2, <2>3 DEF Inv, SeenHolds
  <1>17. SeenHolds'
    <2>1. ASSUME NEW d \in Calls, call'[d].step = "LOCKED", call[d].kind = "REWARD"
          PROVE  call[d].seen = Cardinality(Rewarded(call[d].who)')
      BY <1>7, <1>16, <2>1 DEF Inv, SeenHolds
    <2> QED BY <1>16, <2>1 DEF SeenHolds
  <1>18. RowsHold'
    BY <1>2 DEF Inv, RowsHold
  <1> QED BY <1>10, <1>12, <1>13, <1>15, <1>17, <1>18 DEF Inv

LEMMA CallingInv ==
  ASSUME Inv, NEW c \in Calls, Calling(c)
  PROVE  Inv'
  <1>t. /\ balance \in [People -> Nat] /\ booking \in [Bookings -> BookingRows]
        /\ referral \in [People -> [by : People \cup {Nobody}, rewarded : BOOLEAN]]
        /\ call \in [Calls -> CallRows] /\ taken \in [People -> 0..MaxTaken]
    BY DEF Inv, Types
  <1>k. booking' = booking => RowsHold' /\ booking' \in [Bookings -> BookingRows]
    BY <1>t DEF Inv, RowsHold
  <1>l. ASSUME NEW kind, Locked(c, kind)
        PROVE  call[c] # NoCall /\ call[c].step = "LOCKED" /\ call[c].who \in People
               /\ call[c].kind = kind /\ call[c].seen \in Nat
    BY <1>t, <1>l DEF Locked, NoCall, Inv, WellAsked, CallRows
  <1>1. CASE Lock(c)
    BY <1>1, LockInv
  <1>2. CASE RollBack(c)
    BY <1>2, <1>t, <1>k, EndInv DEF RollBack
  <1>3. ASSUME NEW u \in People, NEW inviter \in People, StartRedeem(c, u, inviter)
        PROVE  Inv'
    BY <1>3, <1>k, Begun DEF StartRedeem
  <1>4. ASSUME NEW u \in People, NEW b \in Bookings, StartBook(c, u, b)
        PROVE  Inv'
    BY <1>4, <1>k, Begun DEF StartBook
  <1>5. ASSUME NEW u \in People, StartRevoke(c, u)
        PROVE  Inv'
    BY <1>5, <1>k, Begun DEF StartRevoke
  <1>6. ASSUME NEW b \in Bookings, CompleteAndReward(c, b)
        PROVE  Inv'
    <2>1. PICK u : u = booking[b].borrower
      OBVIOUS
    <2>2. /\ booking[b].status = "PAID" /\ booking' = [booking EXCEPT ![b].status = "COMPLETED"]
          /\ Start(c, "REWARD", referral[u].by, u) /\ referral[u] # NoReferral
      BY <1>6, <2>1 DEF CompleteAndReward, Change
    <2>3. u \in People
      BY <2>1, <2>2 DEF Inv, RowsHold
    <2>4. referral[u].by \in People
      BY <2>2, <2>3 DEF Inv, Referred
    <2>5. booking' \in [Bookings -> BookingRows]
      BY <1>t, <2>2 DEF BookingRows
    <2>6. RowsHold'
      BY <1>t, <2>2 DEF Inv, RowsHold, BookingRows
    <2> QED BY <2>2, <2>3, <2>4, <2>5, <2>6, Begun
  <1>7. CASE Redeem(c)
    <2>1. PICK u, by : u = call[c].who /\ by = call[c].about
      OBVIOUS
    <2>2. /\ referral[u] = NoReferral /\ Ends(c) /\ Locked(c, "REDEEM")
          /\ referral' = [referral EXCEPT ![u] = [by |-> by, rewarded |-> FALSE]]
          /\ balance' = [balance EXCEPT ![u] = @ + Gift]
          /\ booking' = booking /\ taken' = taken
      BY <1>7, <2>1 DEF Redeem, Uninvited
    <2>3. u \in People /\ by \in People
      BY <1>l, <2>1, <2>2 DEF Inv, WellAsked
    <2>4. /\ balance' \in [People -> Nat] /\ \A v \in People : ~(balance'[v] < balance[v])
      BY <1>t, <2>2, <2>3
    <2>5. /\ referral' \in [People -> [by : People \cup {Nobody}, rewarded : BOOLEAN]]
          /\ \A v \in People : referral'[v] # referral[v] =>
               referral[v] = NoReferral /\ ~referral'[v].rewarded /\ referral'[v].by \in People
      BY <1>t, <2>2, <2>3
    <2> QED BY <1>t, <1>k, <1>l, <2>2, <2>4, <2>5, EndInv
  <1>8. CASE Hold(c)
    <2>1. PICK u, b, amount : u = call[c].who /\ b = call[c].about /\ amount = Least(call[c].seen, Limit)
      OBVIOUS
    <2>2. PICK row : row = [NoBooking EXCEPT !.status = "UNPAID", !.borrower = u, !.held = amount]
      OBVIOUS
    <2>3. /\ Locked(c, "BOOK") /\ Ends(c) /\ referral' = referral /\ taken' = taken
          /\ booking' = [booking EXCEPT ![b] = row]
          /\ balance' = [balance EXCEPT ![u] = @ - amount]
      BY <1>8, <2>1, <2>2 DEF Hold
    <2>4. /\ u \in People /\ amount \in Nat /\ amount <= balance[u]
      BY <1>l, <1>t, <2>1, <2>3 DEF Least, Inv, SeenHolds
    <2>5. row = [status |-> "UNPAID", borrower |-> u, held |-> amount, given |-> 0]
      BY <2>2 DEF NoBooking
    <2>6. booking' \in [Bookings -> BookingRows]
      BY <1>t, <2>3, <2>4, <2>5 DEF BookingRows
    <2>7. RowsHold'
      BY <1>t, <2>3, <2>4, <2>5 DEF Inv, RowsHold
    <2>8. balance' \in [People -> Nat] /\ \A v \in People : v # u => balance'[v] = balance[v]
      BY <1>t, <2>3, <2>4
    <2>9. \A v \in People : balance'[v] < balance[v] => v = u
      BY <1>t, <2>8
    <2> QED BY <1>t, <1>l, <2>1, <2>3, <2>6, <2>7, <2>8, <2>9, EndInv
  <1>9. CASE Revoke(c)
    <2>1. PICK u : u = call[c].who
      OBVIOUS
    <2>2. Locked(c, "REVOKE") /\ Ends(c) /\ referral' = referral /\ booking' = booking
      BY <1>9 DEF Revoke
    <2>3. u \in People /\ call[c].seen \in Nat /\ call[c].seen <= balance[u]
      BY <1>l, <2>1, <2>2 DEF Inv, SeenHolds
    <2>4. PICK amount \in 1..Least(call[c].seen, MaxTaken - taken[u]) :
            /\ balance' = [balance EXCEPT ![u] = @ - amount]
            /\ taken' = [taken EXCEPT ![u] = @ + amount]
      BY <1>9, <2>1 DEF Revoke
    <2>5. taken[u] \in 0..MaxTaken
      BY <1>t, <2>3
    <2>6. amount \in Nat /\ amount <= call[c].seen /\ amount <= MaxTaken - taken[u]
      BY <2>3, <2>4, <2>5 DEF Least
    <2>7. taken' \in [People -> 0..MaxTaken]
      BY <1>t, <2>3, <2>4, <2>5, <2>6
    <2>8. balance' \in [People -> Nat] /\ \A v \in People : v # u => balance'[v] = balance[v]
      BY <1>t, <2>3, <2>4, <2>6
    <2>9. \A v \in People : balance'[v] < balance[v] => v = u
      BY <1>t, <2>8
    <2> QED BY <1>t, <1>k, <1>l, <2>1, <2>2, <2>7, <2>8, <2>9, EndInv
  <1>10. CASE Reward(c)
    BY <1>10, RewardInv
  <1> QED BY <1>1, <1>2, <1>3, <1>4, <1>5, <1>6, <1>7, <1>8, <1>9, <1>10 DEF Calling

LEMMA NextInv == Inv /\ [CreditsNext]_creditVars => Inv'
  <1> SUFFICES ASSUME Inv, [CreditsNext]_creditVars
               PROVE  Inv'
    OBVIOUS
  <1>1. CASE \E c \in Calls : Calling(c)
    BY <1>1, CallingInv
  <1>2. CASE \E b \in Bookings : Going(b)
    BY <1>2, GoingInv
  <1>3. CASE UNCHANGED creditVars
    <2>1. /\ balance' = balance /\ referral' = referral /\ booking' = booking
          /\ lock' = lock /\ call' = call /\ taken' = taken
      BY <1>3 DEF creditVars
    <2>2. Types' /\ RowsHold'
      BY <2>1 DEF Inv, Types, RowsHold
    <2>3. WellAsked' /\ Referred'
      BY <2>1 DEF Inv, WellAsked, Referred
    <2>4. \A u \in People : Rewarded(u)' = Rewarded(u)
      BY <2>1 DEF Rewarded
    <2>5. LockHeld'
      BY <2>1 DEF Inv, LockHeld
    <2>6. WithinCap'
      BY <2>4 DEF Inv, WithinCap
    <2>7. SeenHolds'
      BY <2>1 DEF Inv, SeenHolds, Rewarded
    <2> QED BY <2>2, <2>3, <2>5, <2>6, <2>7 DEF Inv
  <1> QED BY <1>1, <1>2, <1>3 DEF CreditsNext

LEMMA InvAlways == CreditsSpec => []Inv
  BY InitInv, NextInv, PTL DEF CreditsSpec

(* Nobody ever spends credit they do not have (lockCredit, holdCredit,     *)
(* revoke), for any number of people and of transactions at once.          *)
THEOREM NobodyOverspends == CreditsSpec => []NeverOverspent
  <1>1. Inv => NeverOverspent
    BY DEF Inv, Types, NeverOverspent
  <1> QED BY <1>1, InvAlways, PTL

(* A booking closed before payment has given all of its credit back, and   *)
(* no booking gives back more than it held (releaseCredit).                *)
THEOREM WhatIsHeldComesBack == CreditsSpec => []CreditComesBack
  <1>1. Inv => CreditComesBack
    BY DEF Inv, RowsHold, CreditComesBack
  <1> QED BY <1>1, InvAlways, PTL

(* However many rentals complete at once, nobody is rewarded for more      *)
(* than MaxRewards people (rewardReferrer).                                *)
THEOREM RewardsStayCapped == CreditsSpec => []WithinCap
  BY InvAlways, PTL DEF Inv

----------------------------------------------------------------------------
(* Every credit is accounted for *)

(* A call that is to make a booking is alone with it, and it is not made.  *)
BooksNew ==
  \A c \in Calls : call[c].kind = "BOOK" =>
    /\ call[c].about \in Bookings
    /\ booking[call[c].about] = NoBooking
    /\ \A d \in Calls : call[d].kind = "BOOK" /\ call[d].about = call[c].about => d = c

Balanced(u) == balance[u] = Given(u) - Kept(u) - taken[u]

AccountInv == Inv /\ BooksNew /\ \A u \in People : Balanced(u)

LEMMA KeptIsSum ==
  ASSUME Inv, NEW u
  PROVE  Kept(u) \in Int
  <1> DEFINE f == [b \in Bookings |-> KeptOf(booking[b], u)]
  <1>1. f \in [Bookings -> Int]
    BY DEF Inv, Types, BookingRows, KeptOf
  <1> HIDE DEF f
  <1> QED BY <1>1, SumType DEF Kept, f

(* What a person's bookings keep changes with one of them. *)
LEMMA KeptChanged ==
  ASSUME Inv, NEW u, NEW b \in Bookings, NEW row \in BookingRows,
         booking' = [booking EXCEPT ![b] = row]
  PROVE  /\ Kept(u) \in Int /\ KeptOf(row, u) \in Int /\ KeptOf(booking[b], u) \in Int
         /\ Kept(u)' = Kept(u) + KeptOf(row, u) - KeptOf(booking[b], u)
  <1> DEFINE f == [d \in Bookings |-> KeptOf(booking[d], u)]
             h == [d \in Bookings |-> KeptOf(booking'[d], u)]
  <1>1. booking \in [Bookings -> BookingRows]
    BY DEF Inv, Types
  <1>2. f \in [Bookings -> Int] /\ KeptOf(row, u) \in Int /\ f[b] = KeptOf(booking[b], u)
    BY <1>1 DEF BookingRows, KeptOf
  <1>3. h = [f EXCEPT ![b] = KeptOf(row, u)]
    BY <1>1
  <1>4. Kept(u) = SumFunction(f) /\ Kept(u)' = SumFunction(h)
    BY DEF Kept, KeptOf
  <1> HIDE DEF f, h
  <1>5. /\ SumFunction(f) \in Int
        /\ SumFunction(h) = SumFunction(f) + KeptOf(row, u) - f[b]
    <2>1. PICK v : v = KeptOf(row, u)
      OBVIOUS
    <2>2. v \in Int /\ h = [f EXCEPT ![b] = v]
      BY <1>2, <1>3, <2>1
    <2>3. IsFiniteSet(Bookings) /\ f \in [Bookings -> Int]
      BY <1>2, CreditsAssumption
    <2>4. SumFunction(f) \in Int /\ SumFunction(h) = SumFunction(f) + v - f[b]
      BY ONLY b \in Bookings, <2>2, <2>3, SumChanged
    <2> QED BY <2>1, <2>4
  <1>6. f[b] \in Int
    BY <1>2
  <1> QED BY <1>2, <1>4, <1>5, <1>6

LEMMA GivenFacts ==
  ASSUME NEW u
  PROVE  /\ Cardinality(Rewarded(u)) \in Nat
         /\ Given(u) \in Int
  <1>1. Cardinality(Rewarded(u)) \in Nat
    BY FS_Subset, FS_CardinalityType DEF Rewarded
  <1>2. ASSUME NEW n \in Nat PROVE Gift * (n + IF referral[u] = NoReferral THEN 0 ELSE 1) \in Int
    BY SMT
  <1> QED BY <1>1, <1>2 DEF Given

(* Where nothing of a person's changes.                                    *)
LEMMA SameAccounts ==
  ASSUME AccountInv, NEW u \in People, balance'[u] = balance[u], taken'[u] = taken[u],
         referral' = referral, Kept(u)' = Kept(u)
  PROVE  Balanced(u)'
  <1>1. Given(u)' = Given(u)
    BY DEF Given, Rewarded
  <1> QED BY <1>1 DEF AccountInv, Balanced

(* What keeps a booking to its call. *)
LEMMA StillNew ==
  ASSUME BooksNew,
         \A d \in Calls : call'[d].kind = "BOOK" =>
           call[d].kind = "BOOK" /\ call'[d].about = call[d].about,
         \A d \in Calls : call'[d].kind = "BOOK" =>
           booking'[call[d].about] = booking[call[d].about]
  PROVE  BooksNew'
  BY DEF BooksNew

(* Only the status of a booking changes. *)
LEMMA ChangeAccounts ==
  ASSUME AccountInv, NEW b \in Bookings, NEW from \in {"UNPAID", "PAID"}, NEW to, Change(b, from, to),
         to \in {"PAID", "CANCELLED", "COMPLETED"}
  PROVE  /\ \A u : Kept(u)' = Kept(u)
         /\ booking[b] # NoBooking /\ \A d \in Bookings : d # b => booking'[d] = booking[d]
  <1>1. booking \in [Bookings -> BookingRows] /\ booking[b].status = from
    BY DEF AccountInv, Inv, Types, Change
  <1>2. PICK row : row = [booking[b] EXCEPT !.status = to]
    OBVIOUS
  <1>3. booking' = [booking EXCEPT ![b] = row]
    BY <1>2 DEF Change
  <1>4. /\ row \in BookingRows /\ row.borrower = booking[b].borrower
        /\ row.held = booking[b].held /\ row.given = booking[b].given
    BY <1>1, <1>2 DEF BookingRows
  <1>5. ASSUME NEW u PROVE Kept(u)' = Kept(u)
    <2>1. KeptOf(row, u) = KeptOf(booking[b], u)
      BY <1>4 DEF KeptOf
    <2>2. /\ Kept(u) \in Int /\ KeptOf(row, u) \in Int
          /\ Kept(u)' = Kept(u) + KeptOf(row, u) - KeptOf(booking[b], u)
      BY <1>3, <1>4, KeptChanged DEF AccountInv
    <2> QED BY <2>1, <2>2
  <1> QED BY <1>1, <1>3, <1>5 DEF NoBooking

(* What a booking gives back its borrower has again. *)
LEMMA GivenBackAccounts ==
  ASSUME AccountInv, NEW b \in Bookings, NEW status, NEW amount \in Nat,
         status \in {"CLOSED", "CANCELLED"}, booking[b].status # "NONE",
         GivenBack(b, status, amount), UNCHANGED <<referral, lock, call, taken>>
  PROVE  BooksNew' /\ \A u \in People : Balanced(u)'
  <1>1. /\ booking \in [Bookings -> BookingRows] /\ booking[b] \in BookingRows
        /\ balance \in [People -> Nat] /\ taken \in [People -> 0..MaxTaken]
    BY DEF AccountInv, Inv, Types
  <1>2. PICK v : v = booking[b].borrower
    OBVIOUS
  <1>3. v \in People
    BY <1>2 DEF AccountInv, Inv, RowsHold
  <1>4. PICK row : row = ClosedBooking(booking[b], status, amount)
    OBVIOUS
  <1>5. booking' = [booking EXCEPT ![b] = row] /\ balance' = [balance EXCEPT ![v] = @ + amount]
    BY <1>2, <1>4 DEF GivenBack
  <1>6. /\ row \in BookingRows /\ row.borrower = v /\ row.held = booking[b].held
        /\ row.given = booking[b].given + amount
    <2>1. row = [status |-> status, borrower |-> v, held |-> booking[b].held,
                 given |-> booking[b].given + amount]
      BY <1>1, <1>2, <1>4 DEF ClosedBooking, BookingRows
    <2>2. booking[b].held \in Nat /\ booking[b].given + amount \in Nat
      BY <1>1 DEF BookingRows
    <2> QED BY <1>3, <2>1, <2>2 DEF BookingRows
  <1>7. BooksNew'
    <2>1. booking[b] # NoBooking
      BY DEF NoBooking
    <2>2. \A d \in Calls : call[d].kind = "BOOK" => booking'[call[d].about] = booking[call[d].about]
      BY <1>1, <1>5, <2>1 DEF AccountInv, BooksNew
    <2> QED BY <2>2, StillNew DEF AccountInv
  <1>8. ASSUME NEW u \in People PROVE Balanced(u)'
    <2>1. /\ Kept(u) \in Int /\ KeptOf(row, u) \in Int /\ KeptOf(booking[b], u) \in Int
          /\ Kept(u)' = Kept(u) + KeptOf(row, u) - KeptOf(booking[b], u)
      BY <1>5, <1>6, KeptChanged DEF AccountInv
    <2>2. Given(u)' = Given(u) /\ Given(u) \in Int
      BY GivenFacts DEF Given, Rewarded
    <2>3. balance[u] = Given(u) - Kept(u) - taken[u]
      BY DEF AccountInv, Balanced
    <2>4. balance[u] \in Nat /\ taken[u] \in Int /\ taken'[u] = taken[u]
      BY <1>1
    <2>5. CASE u = v
      <3>1. KeptOf(row, u) = KeptOf(booking[b], u) - amount
        BY <1>1, <1>2, <1>6, <2>5 DEF KeptOf, BookingRows
      <3>2. balance'[u] = balance[u] + amount
        BY <1>1, <1>3, <1>5, <2>5
      <3> QED BY <2>1, <2>2, <2>3, <2>4, <3>1, <3>2 DEF Balanced
    <2>6. CASE u # v
      <3>1. KeptOf(row, u) = KeptOf(booking[b], u)
        BY <1>2, <1>6, <2>6 DEF KeptOf
      <3>2. balance'[u] = balance[u]
        BY <1>1, <1>5, <2>6
      <3> QED BY <2>1, <2>2, <2>3, <2>4, <3>1, <3>2 DEF Balanced
    <2> QED BY <2>5, <2>6
  <1> QED BY <1>7, <1>8

LEMMA GoingAccounts ==
  ASSUME AccountInv, NEW b \in Bookings, Going(b)
  PROVE  BooksNew' /\ \A u \in People : Balanced(u)'
  <1>1. ASSUME NEW from \in {"UNPAID", "PAID"}, NEW to \in {"PAID", "CANCELLED", "COMPLETED"},
               Change(b, from, to), UNCHANGED <<balance, referral, lock, call, taken>>
        PROVE  BooksNew' /\ \A u \in People : Balanced(u)'
    <2>1. /\ \A u : Kept(u)' = Kept(u)
          /\ booking[b] # NoBooking /\ \A d \in Bookings : d # b => booking'[d] = booking[d]
      BY <1>1, ChangeAccounts
    <2>2. \A u \in People : Balanced(u)'
      BY <1>1, <2>1, SameAccounts
    <2>3. \A d \in Calls : call[d].kind = "BOOK" => booking'[call[d].about] = booking[call[d].about]
      BY <2>1 DEF AccountInv, BooksNew
    <2>4. BooksNew'
      BY <1>1, <2>3, StillNew DEF AccountInv
    <2> QED BY <2>2, <2>4
  <1>2. CASE Pay(b)
    BY <1>1, <1>2 DEF Pay
  <1>3. CASE CloseUnpaid(b)
    <2>1. booking[b].held \in Nat
      BY DEF AccountInv, Inv, Types, BookingRows
    <2> QED BY <1>3, <2>1, GivenBackAccounts DEF CloseUnpaid
  <1>4. CASE CancelPaid(b)
    BY <1>1, <1>4 DEF CancelPaid
  <1>5. CASE Complete(b)
    BY <1>1, <1>5 DEF Complete
  <1>6. ASSUME NEW rentBack \in 0..(2 * Limit), RefundCredit(b, rentBack)
        PROVE  BooksNew' /\ \A u \in People : Balanced(u)'
    <2>1. booking[b].held \in Nat /\ rentBack \in Nat
      BY DEF AccountInv, Inv, Types, BookingRows
    <2>2. Least(booking[b].held, rentBack) \in Nat
      BY <2>1 DEF Least
    <2> QED BY <1>6, <2>2, GivenBackAccounts DEF RefundCredit
  <1> QED BY <1>2, <1>3, <1>4, <1>5, <1>6 DEF Going

(* A step of a call that leaves the bookings alone and begins none.        *)
LEMMA CallsStillNew ==
  ASSUME AccountInv, NEW c \in Calls, NEW row, call' = [call EXCEPT ![c] = row],
         row.kind = "BOOK" => call[c].kind = "BOOK" /\ row.about = call[c].about,
         booking' = booking
  PROVE  BooksNew'
  <1>1. call'[c] = row /\ \A d \in Calls : d # c => call'[d] = call[d]
    BY DEF AccountInv, Inv, Types
  <1>2. \A d \in Calls : call'[d].kind = "BOOK" =>
          call[d].kind = "BOOK" /\ call'[d].about = call[d].about
    BY <1>1
  <1> QED BY <1>2, StillNew DEF AccountInv

LEMMA RedeemAccounts ==
  ASSUME AccountInv, NEW c \in Calls, Redeem(c)
  PROVE  BooksNew' /\ \A u \in People : Balanced(u)'
  <1>1. PICK v, by : v = call[c].who /\ by = call[c].about
    OBVIOUS
  <1>2. /\ referral[v] = NoReferral /\ Ends(c) /\ Locked(c, "REDEEM")
        /\ referral' = [referral EXCEPT ![v] = [by |-> by, rewarded |-> FALSE]]
        /\ balance' = [balance EXCEPT ![v] = @ + Gift]
        /\ booking' = booking /\ taken' = taken
    BY <1>1 DEF Redeem, Uninvited
  <1>3. /\ v \in People /\ by \in People /\ by # Nobody
        /\ referral \in [People -> [by : People \cup {Nobody}, rewarded : BOOLEAN]]
        /\ balance \in [People -> Nat] /\ taken \in [People -> 0..MaxTaken]
    BY <1>1, <1>2 DEF Locked, AccountInv, Inv, Types, WellAsked
  <1>4. BooksNew'
    <2>1. call' = [call EXCEPT ![c] = NoCall] /\ NoCall.kind = "NONE"
      BY <1>2 DEF Ends, NoCall
    <2> QED BY <1>2, <2>1, CallsStillNew
  <1>5. ASSUME NEW u \in People PROVE Balanced(u)'
    <2>1. Rewarded(u)' = Rewarded(u)
      BY <1>2, <1>3 DEF Rewarded, NoReferral
    <2>2. Kept(u)' = Kept(u) /\ Kept(u) \in Int
      BY <1>2, KeptIsSum DEF Kept, AccountInv
    <2>3. Cardinality(Rewarded(u)) \in Nat /\ Given(u) \in Int
      BY GivenFacts
    <2>4. balance[u] = Given(u) - Kept(u) - taken[u]
      BY DEF AccountInv, Balanced
    <2>5. CASE u = v
      <3>1. referral'[u] # NoReferral
        BY <1>2, <1>3, <2>5 DEF NoReferral
      <3>2. Given(u)' = Given(u) + Gift
        BY <1>2, <2>1, <2>3, <2>5, <3>1 DEF Given
      <3>3. balance'[u] = balance[u] + Gift
        BY <1>2, <1>3, <2>5
      <3> QED BY <1>2, <1>3, <2>2, <2>3, <2>4, <3>2, <3>3 DEF Balanced
    <2>6. CASE u # v
      <3>1. Given(u)' = Given(u) /\ balance'[u] = balance[u]
        BY <1>2, <1>3, <2>1, <2>6 DEF Given
      <3> QED BY <1>2, <2>2, <2>4, <3>1 DEF Balanced
    <2> QED BY <2>5, <2>6
  <1> QED BY <1>4, <1>5

LEMMA RewardAccounts ==
  ASSUME AccountInv, NEW c \in Calls, Reward(c)
  PROVE  BooksNew' /\ \A u \in People : Balanced(u)'
  <1>1. PICK v, p : v = call[c].who /\ p = call[c].about
    OBVIOUS
  <1>2. /\ call[c].step = "LOCKED" /\ call[c].kind = "REWARD"
        /\ ~referral[p].rewarded /\ Ends(c)
        /\ referral' = [referral EXCEPT ![p].rewarded = TRUE]
        /\ balance' = [balance EXCEPT ![v] = @ + Gift]
        /\ booking' = booking /\ taken' = taken
    BY <1>1 DEF Reward, Locked
  <1>3. /\ v \in People /\ p \in People /\ referral[p].by = v /\ v # Nobody
        /\ referral \in [People -> [by : People \cup {Nobody}, rewarded : BOOLEAN]]
        /\ balance \in [People -> Nat] /\ taken \in [People -> 0..MaxTaken]
    BY <1>1, <1>2 DEF AccountInv, Inv, Types, WellAsked
  <1>4. BooksNew'
    <2>1. call' = [call EXCEPT ![c] = NoCall] /\ NoCall.kind = "NONE"
      BY <1>2 DEF Ends, NoCall
    <2> QED BY <1>2, <2>1, CallsStillNew
  <1>5. /\ referral'[p] = [by |-> v, rewarded |-> TRUE]
        /\ referral[p] # [by |-> v, rewarded |-> TRUE]
        /\ \A q \in People : q # p => referral'[q] = referral[q]
    <2>1. [referral[p] EXCEPT !.rewarded = TRUE] = [by |-> v, rewarded |-> TRUE]
      BY <1>3, RewardedRow
    <2>2. referral' = [referral EXCEPT ![p] = [by |-> v, rewarded |-> TRUE]]
      BY <1>2, <2>1
    <2>3. referral \in [People -> [by : People \cup {Nobody}, rewarded : BOOLEAN]]
      BY <1>3
    <2>4. [by |-> v, rewarded |-> TRUE] \in [by : People \cup {Nobody}, rewarded : BOOLEAN]
      BY <1>3
    <2>5. referral[p] # [by |-> v, rewarded |-> TRUE]
      BY <1>2
    <2> QED BY <1>3, <2>2, <2>3, <2>4, <2>5
  <1>6. \A q \in People : referral'[q] = NoReferral <=> referral[q] = NoReferral
    <2>1. referral'[p] # NoReferral /\ referral[p] # NoReferral
      BY <1>3, <1>5 DEF NoReferral
    <2> QED BY <1>5, <2>1
  <1>7. ASSUME NEW u \in People PROVE Balanced(u)'
    <2>2. Kept(u)' = Kept(u) /\ Kept(u) \in Int
      BY <1>2, KeptIsSum DEF Kept, AccountInv
    <2>3. Cardinality(Rewarded(u)) \in Nat /\ Given(u) \in Int
      BY GivenFacts
    <2>4. balance[u] = Given(u) - Kept(u) - taken[u]
      BY DEF AccountInv, Balanced
    <2>5. CASE u = v
      <3>1. Rewarded(u)' = Rewarded(u) \cup {p} /\ p \notin Rewarded(u) /\ IsFiniteSet(Rewarded(u))
        BY <1>3, <1>5, <2>5, FS_Subset DEF Rewarded
      <3>2. Cardinality(Rewarded(u))' = Cardinality(Rewarded(u)) + 1
        BY <3>1, FS_AddElement
      <3>3. Given(u)' = Given(u) + Gift
        BY <1>6, <2>3, <3>2 DEF Given
      <3>4. balance'[u] = balance[u] + Gift
        BY <1>2, <1>3, <2>5
      <3> QED BY <1>2, <1>3, <2>2, <2>3, <2>4, <3>3, <3>4 DEF Balanced
    <2>6. CASE u # v
      <3>1. Rewarded(u)' = Rewarded(u)
        <4>1. referral'[p] # [by |-> u, rewarded |-> TRUE] /\ referral[p] # [by |-> u, rewarded |-> TRUE]
          BY <1>3, <1>5, <2>6
        <4> QED BY <1>5, <4>1 DEF Rewarded
      <3>2. Given(u)' = Given(u) /\ balance'[u] = balance[u]
        BY <1>2, <1>3, <1>6, <2>6, <3>1 DEF Given
      <3> QED BY <1>2, <2>2, <2>4, <3>2 DEF Balanced
    <2> QED BY <2>5, <2>6
  <1> QED BY <1>4, <1>7

LEMMA HoldAccounts ==
  ASSUME AccountInv, NEW c \in Calls, Hold(c)
  PROVE  BooksNew' /\ \A u \in People : Balanced(u)'
  <1>1. PICK v, b, amount : v = call[c].who /\ b = call[c].about /\ amount = Least(call[c].seen, Limit)
    OBVIOUS
  <1>2. PICK row : row = [NoBooking EXCEPT !.status = "UNPAID", !.borrower = v, !.held = amount]
    OBVIOUS
  <1>3. /\ Locked(c, "BOOK") /\ Ends(c) /\ referral' = referral /\ taken' = taken
        /\ booking' = [booking EXCEPT ![b] = row]
        /\ balance' = [balance EXCEPT ![v] = @ - amount]
    BY <1>1, <1>2 DEF Hold
  <1>4. /\ v \in People /\ v # Nobody /\ amount \in Nat /\ b \in Bookings /\ booking[b] = NoBooking
        /\ balance \in [People -> Nat] /\ taken \in [People -> 0..MaxTaken]
        /\ booking \in [Bookings -> BookingRows]
    BY <1>1, <1>3 DEF Locked, Least, AccountInv, Inv, Types, CallRows, WellAsked, BooksNew
  <1>5. row = [status |-> "UNPAID", borrower |-> v, held |-> amount, given |-> 0]
    BY <1>2 DEF NoBooking
  <1>6. row \in BookingRows
    BY <1>4, <1>5 DEF BookingRows
  <1>7. BooksNew'
    <2>1. call' = [call EXCEPT ![c] = NoCall] /\ NoCall.kind = "NONE"
      BY <1>3 DEF Ends, NoCall
    <2>2. call'[c].kind = "NONE" /\ \A d \in Calls : d # c => call'[d] = call[d]
      BY <2>1 DEF AccountInv, Inv, Types
    <2>3. \A d \in Calls : d # c /\ call[d].kind = "BOOK" => call[d].about # b
      BY <1>1, <1>3 DEF Locked, AccountInv, BooksNew
    <2>4. \A d \in Calls : call'[d].kind = "BOOK" =>
            /\ call[d].kind = "BOOK" /\ call'[d].about = call[d].about
            /\ booking'[call[d].about] = booking[call[d].about]
      BY <1>3, <1>4, <2>2, <2>3 DEF AccountInv, BooksNew
    <2> QED BY <2>4, StillNew DEF AccountInv
  <1>8. ASSUME NEW u \in People PROVE Balanced(u)'
    <2>1. /\ Kept(u) \in Int /\ KeptOf(row, u) \in Int /\ KeptOf(booking[b], u) \in Int
          /\ Kept(u)' = Kept(u) + KeptOf(row, u) - KeptOf(booking[b], u)
      BY <1>3, <1>4, <1>6, KeptChanged DEF AccountInv
    <2>2. Given(u)' = Given(u) /\ Given(u) \in Int
      BY <1>3, GivenFacts DEF Given, Rewarded
    <2>3. balance[u] = Given(u) - Kept(u) - taken[u]
      BY DEF AccountInv, Balanced
    <2>4. KeptOf(booking[b], u) = 0
      BY <1>4 DEF KeptOf, NoBooking
    <2>5. KeptOf(row, u) = IF u = v THEN amount ELSE 0
      BY <1>4, <1>5 DEF KeptOf
    <2>6. balance'[u] = IF u = v THEN balance[u] - amount ELSE balance[u]
      BY <1>3, <1>4
    <2>7. balance[u] \in Int /\ taken[u] \in Int
      BY <1>4
    <2> QED BY <1>3, <1>4, <2>1, <2>2, <2>3, <2>4, <2>5, <2>6, <2>7 DEF Balanced
  <1> QED BY <1>7, <1>8

LEMMA RevokeAccounts ==
  ASSUME AccountInv, NEW c \in Calls, Revoke(c)
  PROVE  BooksNew' /\ \A u \in People : Balanced(u)'
  <1>1. PICK v : v = call[c].who
    OBVIOUS
  <1>2. Locked(c, "REVOKE") /\ Ends(c) /\ referral' = referral /\ booking' = booking
    BY DEF Revoke
  <1>3. /\ v \in People /\ call[c].seen \in Nat
        /\ balance \in [People -> Nat] /\ taken \in [People -> 0..MaxTaken]
    BY <1>1, <1>2 DEF Locked, AccountInv, Inv, Types, CallRows, WellAsked
  <1>4. PICK amount \in 1..Least(call[c].seen, MaxTaken - taken[v]) :
          /\ balance' = [balance EXCEPT ![v] = @ - amount]
          /\ taken' = [taken EXCEPT ![v] = @ + amount]
    BY <1>1 DEF Revoke
  <1>5. amount \in Int
    OBVIOUS
  <1>6. BooksNew'
    <2>1. call' = [call EXCEPT ![c] = NoCall] /\ NoCall.kind = "NONE"
      BY <1>2 DEF Ends, NoCall
    <2> QED BY <1>2, <2>1, CallsStillNew
  <1>7. ASSUME NEW u \in People PROVE Balanced(u)'
    <2>1. Kept(u)' = Kept(u) /\ Kept(u) \in Int
      BY <1>2, KeptIsSum DEF Kept, AccountInv
    <2>2. Given(u)' = Given(u) /\ Given(u) \in Int
      BY <1>2, GivenFacts DEF Given, Rewarded
    <2>3. balance[u] = Given(u) - Kept(u) - taken[u]
      BY DEF AccountInv, Balanced
    <2>4. /\ balance'[u] = IF u = v THEN balance[u] - amount ELSE balance[u]
          /\ taken'[u] = IF u = v THEN taken[u] + amount ELSE taken[u]
      BY <1>3, <1>4
    <2>5. balance[u] \in Int /\ taken[u] \in Int
      BY <1>3
    <2> QED BY <1>5, <2>1, <2>2, <2>3, <2>4, <2>5 DEF Balanced
  <1> QED BY <1>6, <1>7

LEMMA CallingAccounts ==
  ASSUME AccountInv, NEW c \in Calls, Calling(c)
  PROVE  BooksNew' /\ \A u \in People : Balanced(u)'
  <1>1. ASSUME NEW kind, NEW who, NEW about, Start(c, kind, who, about), kind # "BOOK",
               booking' = booking
        PROVE  BooksNew' /\ \A u \in People : Balanced(u)'
    <2>1. PICK row : row = [step |-> "READY", kind |-> kind, who |-> who, about |-> about, seen |-> 0]
      OBVIOUS
    <2>2. call' = [call EXCEPT ![c] = row] /\ row.kind # "BOOK"
      BY <1>1, <2>1 DEF Start
    <2>3. BooksNew'
      BY <1>1, <2>2, CallsStillNew
    <2>4. \A u \in People : Balanced(u)'
      BY <1>1, SameAccounts DEF Start, Kept
    <2> QED BY <2>3, <2>4
  <1>2. CASE Lock(c)
    <2>1. PICK seen : call' = [call EXCEPT ![c] = HasLock(call[c], seen)]
      BY <1>2 DEF Lock
    <2>2. PICK row : row = HasLock(call[c], seen)
      OBVIOUS
    <2>3. row.kind = call[c].kind /\ row.about = call[c].about
      BY <2>2 DEF HasLock, AccountInv, Inv, Types, CallRows
    <2>4. BooksNew'
      BY <1>2, <2>1, <2>2, <2>3, CallsStillNew DEF Lock
    <2>5. \A u \in People : Balanced(u)'
      BY <1>2, SameAccounts DEF Lock, Kept
    <2> QED BY <2>4, <2>5
  <1>3. CASE RollBack(c)
    <2>1. call' = [call EXCEPT ![c] = NoCall] /\ NoCall.kind = "NONE"
      BY <1>3 DEF RollBack, Ends, NoCall
    <2>2. BooksNew'
      BY <1>3, <2>1, CallsStillNew DEF RollBack
    <2>3. \A u \in People : Balanced(u)'
      BY <1>3, SameAccounts DEF RollBack, Kept
    <2> QED BY <2>2, <2>3
  <1>4. ASSUME NEW u \in People, NEW inviter \in People, StartRedeem(c, u, inviter)
        PROVE  BooksNew' /\ \A v \in People : Balanced(v)'
    BY <1>1, <1>4 DEF StartRedeem
  <1>5. ASSUME NEW u \in People, NEW b \in Bookings, StartBook(c, u, b)
        PROVE  BooksNew' /\ \A v \in People : Balanced(v)'
    <2>1. PICK row : row = [step |-> "READY", kind |-> "BOOK", who |-> u, about |-> b, seen |-> 0]
      OBVIOUS
    <2>2. /\ call' = [call EXCEPT ![c] = row] /\ row.kind = "BOOK" /\ row.about = b
          /\ booking' = booking /\ booking[b] = NoBooking
          /\ \A d \in Calls : ~(call[d].kind = "BOOK" /\ call[d].about = b)
      BY <1>5, <2>1 DEF StartBook, Start
    <2>3. call'[c] = row /\ \A d \in Calls : d # c => call'[d] = call[d]
      BY <2>2 DEF AccountInv, Inv, Types
    <2>4. ASSUME NEW d \in Calls, call'[d].kind = "BOOK"
          PROVE  /\ call'[d].about \in Bookings
                 /\ booking'[call'[d].about] = NoBooking
                 /\ \A e \in Calls : call'[e].kind = "BOOK" /\ call'[e].about = call'[d].about => e = d
      <3>1. CASE d = c
        BY <2>2, <2>3, <3>1
      <3>2. CASE d # c
        <4>1. call'[d] = call[d] /\ call[d].about # b
          BY <2>2, <2>3, <2>4, <3>2
        <4> QED BY <2>2, <2>3, <2>4, <4>1 DEF AccountInv, BooksNew
      <3> QED BY <3>1, <3>2
    <2>5. BooksNew'
      BY <2>4 DEF BooksNew
    <2>6. \A v \in People : Balanced(v)'
      BY <1>5, SameAccounts DEF StartBook, Start, Kept
    <2> QED BY <2>5, <2>6
  <1>6. ASSUME NEW u \in People, StartRevoke(c, u)
        PROVE  BooksNew' /\ \A v \in People : Balanced(v)'
    BY <1>1, <1>6 DEF StartRevoke
  <1>7. ASSUME NEW b \in Bookings, CompleteAndReward(c, b)
        PROVE  BooksNew' /\ \A v \in People : Balanced(v)'
    <2>1. PICK who, about : Start(c, "REWARD", who, about)
      BY <1>7 DEF CompleteAndReward
    <2>2. Change(b, "PAID", "COMPLETED")
      BY <1>7 DEF CompleteAndReward
    <2>3. /\ \A v : Kept(v)' = Kept(v)
          /\ booking[b] # NoBooking /\ \A d \in Bookings : d # b => booking'[d] = booking[d]
      BY <2>2, ChangeAccounts
    <2>4. PICK row : row = [step |-> "READY", kind |-> "REWARD", who |-> who, about |-> about, seen |-> 0]
      OBVIOUS
    <2>5. call' = [call EXCEPT ![c] = row] /\ row.kind = "REWARD"
      BY <2>1, <2>4 DEF Start
    <2>6. \A d \in Calls : call'[d].kind = "BOOK" =>
            /\ call[d].kind = "BOOK" /\ call'[d].about = call[d].about
            /\ booking'[call[d].about] = booking[call[d].about]
      BY <2>3, <2>5 DEF AccountInv, Inv, Types, BooksNew
    <2>7. BooksNew'
      BY <2>6, StillNew DEF AccountInv
    <2>8. \A v \in People : Balanced(v)'
      BY <2>1, <2>3, SameAccounts DEF Start
    <2> QED BY <2>7, <2>8
  <1> QED BY <1>2, <1>3, <1>4, <1>5, <1>6, <1>7,
             RedeemAccounts, HoldAccounts, RevokeAccounts, RewardAccounts DEF Calling

(* Every balance is what the rows account for: the gifts of invitations    *)
(* within the cap, less what bookings keep and what was taken away         *)
(* (creditBalance is a sum over entries that redeem, rewardReferrer,       *)
(* holdCredit, releaseCredit and revoke write), whoever overlaps.          *)
THEOREM CreditsAddUp == CreditsSpec => []CreditIsAccountedFor
  <1>1. CreditsInit => AccountInv
    <2> SUFFICES ASSUME CreditsInit
                 PROVE  AccountInv
      OBVIOUS
    <2>1. Inv
      BY InitInv
    <2>2. BooksNew
      BY DEF CreditsInit, BooksNew, NoCall
    <2>3. ASSUME NEW u \in People PROVE Balanced(u)
      <3>1. Rewarded(u) = {}
        BY DEF CreditsInit, Rewarded, NoReferral
      <3>2. Given(u) = 0
        <4>1. Cardinality(Rewarded(u)) = 0 /\ referral[u] = NoReferral
          BY <3>1, FS_EmptySet DEF CreditsInit
        <4> QED BY <4>1 DEF Given
      <3>3. [b \in Bookings |-> KeptOf(booking[b], u)] = [b \in Bookings |-> 0]
        BY DEF CreditsInit, KeptOf, NoBooking
      <3>4. Kept(u) = 0
        BY <3>3, SumOfZeros DEF Kept
      <3> QED BY <3>2, <3>4 DEF CreditsInit, Balanced
    <2> QED BY <2>1, <2>2, <2>3 DEF AccountInv
  <1>2. AccountInv /\ [CreditsNext]_creditVars => AccountInv'
    <2> SUFFICES ASSUME AccountInv, [CreditsNext]_creditVars
                 PROVE  AccountInv'
      OBVIOUS
    <2>1. Inv'
      BY NextInv DEF AccountInv
    <2>2. CASE \E c \in Calls : Calling(c)
      BY <2>1, <2>2, CallingAccounts DEF AccountInv
    <2>3. CASE \E b \in Bookings : Going(b)
      BY <2>1, <2>3, GoingAccounts DEF AccountInv
    <2>4. CASE UNCHANGED creditVars
      <3>1. BooksNew'
        BY <2>4 DEF AccountInv, BooksNew, creditVars
      <3>2. \A u \in People : Balanced(u)'
        BY <2>4, SameAccounts DEF creditVars, Kept
      <3> QED BY <2>1, <3>1, <3>2 DEF AccountInv
    <2> QED BY <2>2, <2>3, <2>4 DEF CreditsNext
  <1>3. AccountInv => CreditIsAccountedFor
    BY DEF AccountInv, Balanced, Inv, CreditIsAccountedFor
  <1> QED BY <1>1, <1>2, <1>3, PTL DEF CreditsSpec

=============================================================================

------------------------------- MODULE Ledger -------------------------------
(***************************************************************************)
(* The double-entry postings of every money movement (payments/ledger.ts), *)
(* and the commission and lender's share they are made of.  Pure           *)
(* operators over paise; a posting gives the debit and the credit of each  *)
(* account (zero lines, which the code drops, change nothing).             *)
(***************************************************************************)
EXTENDS Integers

CONSTANT Bps      \* LISTING_RULES.commissionBps, in 1/10000

ASSUME BpsAssumption == Bps \in 0..10000

Zero ==
  [GATEWAY |-> 0, DEPOSIT_HELD |-> 0, LENDER_PAYABLE |-> 0,
   PLATFORM_REVENUE |-> 0, GOODWILL |-> 0, PROMOTIONS |-> 0]

Accounts == DOMAIN Zero

Total(a) ==
  a.GATEWAY + a.DEPOSIT_HELD + a.LENDER_PAYABLE + a.PLATFORM_REVENUE
    + a.GOODWILL + a.PROMOTIONS

(* Math.round(rent * bps / 10000) *)
CommissionOn(rent) == (rent * Bps + 5000) \div 10000

LenderShare(rent) == rent - CommissionOn(rent)

(* Amounts: rent, fee, deposit, and credit (used, or given back). *)
CashOf(a) == a.rent + a.fee + a.deposit - a.credit

CapturePostings(a) ==
  [debit  |-> [Zero EXCEPT !.GATEWAY = CashOf(a), !.PROMOTIONS = a.credit],
   credit |-> [Zero EXCEPT !.DEPOSIT_HELD = a.deposit,
                           !.LENDER_PAYABLE = LenderShare(a.rent),
                           !.PLATFORM_REVENUE = CommissionOn(a.rent) + a.fee]]

CommissionBackAlone(refund, totalRent) == CommissionOn(refund.rent)  \* mutant: rounded alone

(* The commission follows the rent that the lender keeps. *)
CommissionBack(refund, totalRent) ==
  CommissionOn(totalRent) - CommissionOn(totalRent - refund.rent)

RefundPostings(refund, totalRent) ==
  LET back == CommissionBack(refund, totalRent)
  IN  [debit  |-> [Zero EXCEPT !.DEPOSIT_HELD = refund.deposit,
                               !.LENDER_PAYABLE = refund.rent - back,
                               !.PLATFORM_REVENUE = back + refund.fee],
       credit |-> [Zero EXCEPT !.GATEWAY = CashOf(refund), !.PROMOTIONS = refund.credit]]

Move(from, to, amount) ==
  [debit |-> [Zero EXCEPT ![from] = amount], credit |-> [Zero EXCEPT ![to] = amount]]

GoodwillPostings(amount) == Move("GOODWILL", "GATEWAY", amount)

TransferPostings(amount) == Move("LENDER_PAYABLE", "GATEWAY", amount)

DepositKeepPostings(amount) == Move("DEPOSIT_HELD", "LENDER_PAYABLE", amount)

ReversalPostings(amount) == Move("GATEWAY", "LENDER_PAYABLE", amount)

IsBalanced(lines) ==
  /\ Total(lines.debit) = Total(lines.credit)
  /\ \A a \in Accounts : lines.debit[a] >= 0 /\ lines.credit[a] >= 0

(* The balances after a posting: credits minus debits, per account.        *)
(* post() throws when the lines do not balance; MoneyProofs shows that     *)
(* none of the above ever does that.                                       *)
Posted(balances, lines) ==
  [a \in Accounts |-> balances[a] + lines.credit[a] - lines.debit[a]]

=============================================================================

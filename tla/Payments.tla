------------------------------ MODULE Payments ------------------------------
(***************************************************************************)
(* A booking's money (payments/payments.service.ts): checkout, capture by  *)
(* the app's report or by Razorpay's webhook, the refund of a cancelled    *)
(* booking, the settlement of a completed one, and the sweep that catches  *)
(* what was missed.  It composes the refunds (Refunds) and the transfers   *)
(* to the lender (Payouts) over one ledger, one set of payment rows and    *)
(* one set of calls in progress; the booking itself is reduced to the      *)
(* statuses that move money (Bookings has them all).                       *)
(***************************************************************************)
EXTENDS Handlers, Ledger, RefundPolicy, FiniteSets, FiniteSetsExt, SequencesExt

CONSTANTS
  Orders,        \* bound: orders at Razorpay, one per payment row
  MaxRefunds,    \* bound: refund rows
  MaxTransfers,  \* bound: transfer rows
  MaxAttempts,   \* MAX_ATTEMPTS
  Booking,       \* the booking's rent, fee, deposit and referral credit
  KeptChoices,   \* what the lender may keep of the deposit (keptPaise)
  GoodwillGiven, \* amounts an admin may refund as goodwill
  UnpaidCloses,  \* how the booking may close before it is paid
  Closer,        \* the request that cancels or completes the booking, if it is one
  CallsOverlap,  \* whether the booking may close while a call is in progress
  AttemptsFail   \* whether attempts to pay may fail

ASSUME PaymentsAssumption ==
  /\ Booking \in [rent : Nat, fee : Nat, deposit : Nat, credit : Nat]
  /\ Booking.credit <= Booking.rent
  /\ IsFiniteSet(Orders)
  /\ MaxRefunds \in Nat
  /\ MaxTransfers \in Nat
  /\ MaxAttempts \in Nat
  /\ KeptChoices \subseteq Nat
  /\ GoodwillGiven \subseteq Nat
  /\ UnpaidCloses \subseteq {"EXPIRED", "CANCELLED"}
  /\ CallsOverlap \in BOOLEAN
  /\ AttemptsFail \in BOOLEAN

VARIABLES
  status,        \* the booking's status
  tier,          \* the refund tier of its cancellation
  kept,          \* keptPaise
  credit,        \* referral credit given back (NoRelease: not yet)
  paid,          \* whether its history has the event PAID
  recent,        \* the requests that were in progress when it closed
  payment,       \* payment rows: status and amount
  refund,        \* refund rows
  accepted,      \* refund id -> times Razorpay accepted to send it
  account,       \* the lender's payout account
  transfer,      \* transfer rows
  razorpay,      \* transfer id -> its transfers at Razorpay
  books,         \* ledger balances
  journal,       \* the types of one-off postings made
  checkouts,     \* orders created at Razorpay, and those that were paid
  webhooks       \* events raised, with a dedupe row, and answered with a 2xx

bookingRow == <<status, tier, kept, credit, paid>>

bookingVars == <<bookingRow, recent>>

moneyVars == <<payment, refund, accepted, account, transfer, razorpay, books, journal>>

gatewayVars == <<checkouts, webhooks>>

vars == <<bookingVars, moneyVars, gatewayVars, todo, faults>>

Refunding ==
  INSTANCE Refunds WITH Rent <- Booking.rent, Charged <- [p \in Orders |-> CashOf(Booking)],
                        Callers <- {}, LostAnswers <- FALSE, unheard <- {}

Paying ==
  INSTANCE Payouts WITH Rent <- Booking.rent, Kept <- 0, AccountMoves <- {},
                        AdminRetries <- FALSE

NoRelease == -1

NoPayment == [status |-> "NONE", amount |-> 0]

PaymentsIn(statuses) == {p \in Orders : payment[p].status \in statuses}

Unrefunded == PaymentsIn({"CAPTURED", "PARTIALLY_REFUNDED"})

Captured == PaymentsIn({"CAPTURED", "PARTIALLY_REFUNDED", "REFUNDED"})

Starts(h, steps) == Begin(h, steps) /\ recent' = recent \ {h}

InProgress == {h \in Requests : ~Free(h)}

RefundsFor(kind) == {r \in Refunding!RefundIds : refund[r].kind = kind}

----------------------------------------------------------------------------
(* Checkout.  An open payment is used again, otherwise an order is created *)
(* first and its payment row after.                                        *)

Checkout(h) ==
  /\ h \in Requests \ {Closer}
  /\ status = "AWAITING_PAYMENT"
  /\ PaymentsIn({"CREATED", "FAILED"}) = {}
  /\ checkouts.created # Orders                                      \* bound
  /\ Starts(h, <<[op |-> "createOrder"]>>)
  /\ UNCHANGED <<bookingRow, moneyVars, gatewayVars, faults>>

CreateOrder(h) ==
  /\ At(h, "createOrder")
  /\ \/ \E o \in Orders \ checkouts.created :
          /\ checkouts' = [checkouts EXCEPT !.created = @ \cup {o}]
          /\ Continue(h, <<[op |-> "insertPayment", order |-> o]>>)
          /\ UNCHANGED faults
     \/ Refused /\ Throw(h) /\ UNCHANGED checkouts
  /\ UNCHANGED <<bookingVars, moneyVars, webhooks>>

InsertPayment(h) ==
  /\ At(h, "insertPayment")
  /\ payment' = [payment EXCEPT ![Arg(h).order] =
                   [status |-> "CREATED", amount |-> CashOf(Booking)]]
  /\ Return(h)
  /\ UNCHANGED <<bookingVars, refund, accepted, account, transfer, razorpay, books, journal,
                 gatewayVars, faults>>

(* The borrower pays, or tries to, whenever the checkout sheet is open.    *)
Pay(o) ==
  /\ payment[o] # NoPayment
  /\ o \notin checkouts.paid
  /\ checkouts' = [checkouts EXCEPT !.paid = @ \cup {o}]
  /\ webhooks' = [webhooks EXCEPT !.raised = @ \cup {<<"payment.captured", o>>}]
  /\ UNCHANGED <<bookingVars, moneyVars, todo, faults>>

FailedAttempt(o) ==
  /\ payment[o] # NoPayment
  /\ o \notin checkouts.paid
  /\ webhooks' = [webhooks EXCEPT !.raised = @ \cup {<<"payment.failed", o>>}]
  /\ UNCHANGED <<bookingVars, moneyVars, checkouts, todo, faults>>

----------------------------------------------------------------------------
(* Capture: one transaction for the payment and the ledger, then the       *)
(* booking's transition, then its listener or the late payment's refund.   *)

Verify(h, o) ==
  /\ h \in Requests \ {Closer}
  /\ o \in checkouts.paid
  /\ Starts(h, <<[op |-> "capture", order |-> o]>>)
  /\ UNCHANGED <<bookingRow, moneyVars, gatewayVars, faults>>

CapturableAgain(p) == p # NoPayment           \* mutant: each report captures again

CapturableOnce(p) == p.status = "CREATED"     \* mutant: a failed attempt is final

Capturable(p) == p.status \in {"CREATED", "FAILED"}

Capture(h) ==
  /\ At(h, "capture")
  /\ LET o == Arg(h).order
     IN  IF Capturable(payment[o])
         THEN /\ payment' = [payment EXCEPT ![o].status = "CAPTURED"]
              /\ books' = Posted(books, CapturePostings(Booking))
              /\ Continue(h, <<[op |-> "confirm", order |-> o]>>)
         ELSE Return(h) /\ UNCHANGED <<payment, books>>
  /\ UNCHANGED <<bookingVars, refund, accepted, account, transfer, razorpay, journal,
                 gatewayVars, faults>>

LateRefund(o) ==
  LET amounts == [Booking EXCEPT !.credit = 0]
  IN  Refunding!CreateRefund(o, "LATE_PAYMENT", CashOf(amounts), amounts)

NotClosed == status \in {"AWAITING_PAYMENT", "CONFIRMED"}   \* mutant: a second payment is kept

Waiting == status = "AWAITING_PAYMENT"

Confirm(h) ==
  /\ At(h, "confirm")
  /\ IF Waiting
     THEN /\ status' = "CONFIRMED"
          /\ paid' = TRUE
          /\ Continue(h, <<[op |-> "onConfirmed"], [op |-> "catch"]>>)
     ELSE Continue(h, <<LateRefund(Arg(h).order)>>) /\ UNCHANGED <<status, paid>>
  /\ UNCHANGED <<tier, kept, credit, recent, moneyVars, gatewayVars, faults>>

MarkFailed(h) ==
  /\ At(h, "markFailed")
  /\ LET o == Arg(h).order
     IN  payment' = IF payment[o].status = "CREATED"
                    THEN [payment EXCEPT ![o].status = "FAILED"] ELSE payment
  /\ Return(h)
  /\ UNCHANGED <<bookingVars, refund, accepted, account, transfer, razorpay, books, journal,
                 gatewayVars, faults>>

(* Webhooks: Razorpay sends an event until it gets a 2xx.  The dedupe row  *)
(* is written before the event is applied.                                 *)
Webhook(h, e) ==
  /\ h \in Requests \ {Closer}
  /\ e \in webhooks.raised \ webhooks.answered
  /\ Starts(h, <<[op |-> "receive", event |-> e]>>)
  /\ UNCHANGED <<bookingRow, moneyVars, gatewayVars, faults>>

Applying(e) ==
  [op |-> IF e[1] = "payment.captured" THEN "capture" ELSE "markFailed", order |-> e[2]]

Receive(h) ==
  /\ At(h, "receive")
  /\ LET e == Arg(h).event
     IN  IF e \in webhooks.seen
         THEN /\ webhooks' = [webhooks EXCEPT !.answered = @ \cup {e}]
              /\ Return(h)
         ELSE /\ webhooks' = [webhooks EXCEPT !.seen = @ \cup {e}]
              /\ Continue(h, <<Applying(e), [op |-> "answer", event |-> e]>>)
  /\ UNCHANGED <<bookingVars, moneyVars, checkouts, faults>>

Answer(h) ==
  /\ At(h, "answer")
  /\ webhooks' = [webhooks EXCEPT !.answered = @ \cup {Arg(h).event}]
  /\ Return(h)
  /\ UNCHANGED <<bookingVars, moneyVars, checkouts, faults>>

----------------------------------------------------------------------------
(* The booking closes *)

(* Before payment: by its deadline, or by anyone.  The credit it held is   *)
(* given back with the transition.                                         *)
CloseUnpaid(to) ==
  /\ status = "AWAITING_PAYMENT"
  /\ status' = to
  /\ IF to = "CANCELLED" THEN tier' \in Tiers ELSE UNCHANGED tier
  /\ credit' = IF Booking.credit > 0 THEN Booking.credit ELSE NoRelease
  /\ recent' = InProgress
  /\ UNCHANGED <<kept, paid, moneyVars, gatewayVars, todo, faults>>

Closes ==
  /\ Closer \in Requests
  /\ status = "CONFIRMED"
  /\ CallsOverlap \/ AtRest

Cancel ==
  /\ Closes
  /\ status' = "CANCELLED"
  /\ tier' \in Tiers
  /\ Begin(Closer, <<[op |-> "refundCancelled"]>>)
  /\ recent' = InProgress \cup {Closer}
  /\ UNCHANGED <<kept, credit, paid, moneyVars, gatewayVars, faults>>

Complete ==
  /\ Closes
  /\ status' = "COMPLETED"
  /\ kept' \in KeptChoices
  /\ Begin(Closer, <<[op |-> "settle"]>>)
  /\ recent' = InProgress \cup {Closer}
  /\ UNCHANGED <<tier, credit, paid, moneyVars, gatewayVars, faults>>

----------------------------------------------------------------------------
(* refundCancelled *)

AlreadyRefunded == RefundsFor("CANCELLATION") # {}

RefundCancelled(h) ==
  /\ At(h, "refundCancelled")
  /\ IF Unrefunded = {} \/ AlreadyRefunded THEN Return(h)
     ELSE \E p \in Unrefunded : Continue(h, <<[op |-> "findRelease", order |-> p]>>)
  /\ UNCHANGED <<bookingVars, moneyVars, gatewayVars, faults>>

LenderAfter(amounts) == [op |-> "onCancelled", refunded |-> amounts.rent]

(* Credit goes back first, at most once: what an earlier call gave back is *)
(* used again, but not what another call gives back in between.            *)
FindRelease(h) ==
  /\ At(h, "findRelease")
  /\ Continue(h, <<[op |-> "releaseCredit", order |-> Arg(h).order, found |-> credit]>>)
  /\ UNCHANGED <<bookingVars, moneyVars, gatewayVars, faults>>

ReleaseCredit(h) ==
  /\ At(h, "releaseCredit")
  /\ LET policy   == Refund(tier, Booking)
         releases == Arg(h).found = NoRelease /\ credit = NoRelease /\ policy.credit > 0
         given    == IF Arg(h).found # NoRelease THEN Arg(h).found
                     ELSE IF releases THEN policy.credit ELSE 0
         amounts  == [policy EXCEPT !.credit = given]
     IN  /\ credit' = IF releases THEN given ELSE credit
         /\ IF CashOf(amounts) = 0 /\ given > 0
            THEN Continue(h, <<[op |-> "refundCredit", amounts |-> amounts]>>)
            ELSE Continue(h, <<Refunding!CreateRefund(Arg(h).order, "CANCELLATION",
                                                      CashOf(amounts), amounts),
                               LenderAfter(amounts)>>)
  /\ UNCHANGED <<status, tier, kept, paid, recent, moneyVars, gatewayVars, faults>>

RefundCreditAgain(h) ==       \* mutant: posted again by every sweep
  /\ At(h, "refundCredit")
  /\ Continue(h, <<[Arg(h) EXCEPT !.op = "postCredit"], LenderAfter(Arg(h).amounts)>>)
  /\ UNCHANGED <<bookingVars, moneyVars, gatewayVars, faults>>

(* No cash goes back, but the rent still leaves the lender's side.         *)
RefundCredit(h) ==
  /\ At(h, "refundCredit")
  /\ IF "REFUND_CREDIT" \in journal THEN Return(h)
     ELSE Continue(h, <<[Arg(h) EXCEPT !.op = "postCredit"], LenderAfter(Arg(h).amounts)>>)
  /\ UNCHANGED <<bookingVars, moneyVars, gatewayVars, faults>>

PostCredit(h) ==
  /\ At(h, "postCredit")
  /\ books' = Posted(books, RefundPostings(Arg(h).amounts, Booking.rent))
  /\ journal' = journal \cup {"REFUND_CREDIT"}
  /\ Return(h)
  /\ UNCHANGED <<bookingVars, payment, refund, accepted, account, transfer, razorpay,
                 gatewayVars, faults>>

----------------------------------------------------------------------------
(* settle *)

KeptOfDeposit == IF kept < Booking.deposit THEN kept ELSE Booking.deposit

DepositReturn(p) ==
  LET amounts == [rent |-> 0, fee |-> 0, deposit |-> Booking.deposit - KeptOfDeposit, credit |-> 0]
  IN  Refunding!CreateRefund(p, "DEPOSIT_RETURN", CashOf(amounts), amounts)

DepositOwedAlways == KeptOfDeposit < Booking.deposit   \* mutant: returned again by the sweep

DepositOwed == KeptOfDeposit < Booking.deposit /\ RefundsFor("DEPOSIT_RETURN") = {}

Settle(h) ==
  /\ At(h, "settle")
  /\ IF status # "COMPLETED" \/ Unrefunded = {} THEN Return(h)
     ELSE \E p \in Unrefunded :
       Continue(h, (IF KeptOfDeposit > 0 THEN <<[op |-> "keepDeposit"]>> ELSE <<>>)
                     \o <<[op |-> "releaseAll"], [op |-> "sendKept", amount |-> KeptOfDeposit]>>
                     \o (IF DepositOwed THEN <<DepositReturn(p)>> ELSE <<>>))
  /\ UNCHANGED <<bookingVars, moneyVars, gatewayVars, faults>>

KeptUnposted == TRUE          \* mutant: posted again by every settlement

NotYetKept == "DEPOSIT_KEPT" \notin journal

KeepDeposit(h) ==
  /\ At(h, "keepDeposit")
  /\ IF NotYetKept
     THEN /\ books' = Posted(books, DepositKeepPostings(KeptOfDeposit))
          /\ journal' = journal \cup {"DEPOSIT_KEPT"}
     ELSE UNCHANGED <<books, journal>>
  /\ Return(h)
  /\ UNCHANGED <<bookingVars, payment, refund, accepted, account, transfer, razorpay,
                 gatewayVars, faults>>

PaymentStep(h) ==
  \/ CreateOrder(h) \/ InsertPayment(h) \/ Capture(h) \/ Confirm(h) \/ MarkFailed(h)
  \/ Receive(h) \/ Answer(h) \/ RefundCancelled(h) \/ FindRelease(h)
  \/ ReleaseCredit(h) \/ RefundCredit(h) \/ PostCredit(h) \/ Settle(h) \/ KeepDeposit(h)
  \/ (Caught(h) /\ UNCHANGED <<bookingVars, moneyVars, gatewayVars, faults>>)

----------------------------------------------------------------------------
(* The sweep.  It leaves a booking alone for a minute after it closed: as  *)
(* calls to Razorpay are aborted after 15 seconds, the requests that were  *)
(* in progress have finished by then.                                      *)

ClosedForAMinute == \A h \in recent : Free(h)

Sweep(h) ==
  /\ h \in Workers
  /\ CallsOverlap \/ ClosedForAMinute
  /\ Starts(h, <<[op |-> "sweepMissed"], [op |-> "sweepUnsettled"],
                 [op |-> "retryRefunds"], [op |-> "retryTransfers"]>>)
  /\ UNCHANGED <<bookingRow, moneyVars, gatewayVars, faults>>

Missed ==
  /\ status = "CANCELLED" /\ ClosedForAMinute
  /\ PaymentsIn({"CAPTURED"}) # {}
  /\ RefundsFor("CANCELLATION") = {}

SweepMissed(h) ==
  /\ At(h, "sweepMissed")
  /\ Continue(h, IF Missed THEN <<[op |-> "refundCancelled"]>> ELSE <<>>)
  /\ UNCHANGED <<bookingVars, moneyVars, gatewayVars, faults>>

Unsettled ==
  \/ Paying!RentHeld
  \/ RefundsFor("DEPOSIT_RETURN") = {} /\ kept < Booking.deposit

SweepUnsettled(h) ==
  /\ At(h, "sweepUnsettled")
  /\ Continue(h, IF /\ status = "COMPLETED" /\ ClosedForAMinute
                    /\ Unrefunded # {}
                    /\ Unsettled
                 THEN <<[op |-> "settle"]>> ELSE <<>>)
  /\ UNCHANGED <<bookingVars, moneyVars, gatewayVars, faults>>

SweepStep(h) == SweepMissed(h) \/ SweepUnsettled(h)

(* An admin's goodwill refund of a captured payment (bound: one). *)
GiveGoodwill(h, p, amount) ==
  /\ h \in Requests \ {Closer}
  /\ RefundsFor("MANUAL") = {}
  /\ Starts(h, <<Refunding!CreateRefund(p, "MANUAL", amount, Refunding!NoAmounts)>>)
  /\ UNCHANGED <<bookingRow, moneyVars, gatewayVars, faults>>

Crash == Restart /\ UNCHANGED <<bookingVars, moneyVars, gatewayVars>>

----------------------------------------------------------------------------
(* The refunds and the transfers, and the rest of the state they leave     *)
(* alone                                                                   *)

RefundsPart(h) ==
  /\ Refunding!RefundStep(h) \/ Refunding!RetryFailed(h)
  /\ UNCHANGED <<bookingVars, account, transfer, razorpay, journal, gatewayVars>>

RefundSettled(r, ok) ==
  /\ Refunding!Settle(r, ok)
  /\ UNCHANGED <<bookingVars, account, transfer, razorpay, journal, gatewayVars>>

PayoutsPart(h) ==
  /\ Paying!PayoutStep(h) \/ Paying!RetryFailed(h)
  /\ UNCHANGED <<tier, kept, credit, paid, recent, refund, accepted, journal, gatewayVars>>

Step(h) == PaymentStep(h) \/ SweepStep(h) \/ RefundsPart(h) \/ PayoutsPart(h)

Events == {"payment.captured", "payment.failed"} \X Orders

Init ==
  /\ HandlersInit
  /\ status = "AWAITING_PAYMENT"
  /\ tier = "NONE"
  /\ kept = 0
  /\ credit = NoRelease
  /\ paid = FALSE
  /\ recent = {}
  /\ payment = [p \in Orders |-> NoPayment]
  /\ refund = [r \in Refunding!RefundIds |-> Refunding!NoRefund]
  /\ accepted = [r \in Refunding!RefundIds |-> 0]
  /\ account = "ACTIVATED"
  /\ transfer = [t \in Paying!TransferIds |-> Paying!NoTransfer]
  /\ razorpay = [t \in Paying!TransferIds |-> Paying!Nothing]
  /\ books = Zero
  /\ journal = {}
  /\ checkouts = [created |-> {}, paid |-> {}]
  /\ webhooks = [raised |-> {}, seen |-> {}, answered |-> {}]

Next ==
  \/ \E h \in All : Checkout(h) \/ Step(h) \/ Sweep(h)
  \/ \E h \in All, o \in Orders : Verify(h, o)
  \/ \E h \in All, e \in Events : Webhook(h, e)
  \/ \E h \in All, p \in Unrefunded, amount \in GoodwillGiven : GiveGoodwill(h, p, amount)
  \/ \E o \in Orders : Pay(o)
  \/ AttemptsFail /\ \E o \in Orders : FailedAttempt(o)
  \/ \E to \in UnpaidCloses : CloseUnpaid(to)
  \/ \E r \in Refunding!RefundIds, ok \in BOOLEAN : RefundSettled(r, ok)
  \/ Cancel
  \/ Complete
  \/ Crash

Spec == Init /\ [][Next]_vars

(* A call that has started goes on, the sweep is a repeating job, and      *)
(* Razorpay repeats an event until it is answered.                         *)
FairSpec ==
  /\ Spec
  /\ \A h \in All : WF_vars(Step(h))
  /\ \A h \in Workers : WF_vars(Sweep(h))
  /\ \A e \in Events : SF_vars(\E h \in All : Webhook(h, e))

----------------------------------------------------------------------------
(* Properties *)

(* A booking is refunded once for its cancellation and its deposit is      *)
(* returned once, by the listener or by the sweep ("Every step is          *)
(* idempotent", payments.service.ts line 346).                             *)
OneRefundPerReason ==
  \A kind \in {"CANCELLATION", "DEPOSIT_RETURN"} : Cardinality(RefundsFor(kind)) <= 1

(* What was captured, what Razorpay accepted to refund and what it         *)
(* transferred is what the ledger says of its balance, whenever no call is *)
(* in progress and none was cut short.                                     *)
CapturedOf(p) == IF p \in Captured THEN payment[p].amount ELSE 0

CapturedCash == SumFunction([p \in Orders |-> CapturedOf(p)])

TransferredOf(t) == transfer[t].amount * (razorpay[t].held + razorpay[t].lender)

TransferredCash == SumFunction([t \in Paying!TransferIds |-> TransferredOf(t)])

BooksFollowRazorpay ==
  Undisturbed => books.GATEWAY = Refunding!SentCash + TransferredCash - CapturedCash

(* The deposit is not handed out twice: what a late payment's refund, the  *)
(* cancellation's refund, the deposit's return and the lender's share of   *)
(* it take is at most what was deposited, whichever of the listener and    *)
(* the sweep does it.  Not so for a booking cancelled before it was paid:  *)
(* the sweep refunds it by the policy as well (README, section 6).         *)
DepositCovered == (status = "CANCELLED" => paid) => books.DEPOSIT_HELD >= 0

(* "pay the lender their share of any rent the borrower didn't get back"   *)
(* (payouts.service.ts lines 129-130): a cancelled booking leads to at     *)
(* most one transfer of kept rent, however often the sweep looks at it.    *)
OneShareOfKeptRent ==
  status = "CANCELLED" =>
    Cardinality({t \in Paying!Rows : ~transfer[t].onHold /\ ~transfer[t].fromDeposit}) <= 1

(* The same when the booking was paid and the policy gives something back, *)
(* in cash or in credit: then the call that pays the share has left a      *)
(* refund or a posting, and no other call gets as far.                     *)
ShareAfterRefund ==
  LET back == Refund(tier, Booking)
  IN  paid /\ back.rent + back.fee + back.deposit > 0 => OneShareOfKeptRent

RefundedCash(o) ==
  MapThenSumSet(LAMBDA r : accepted[r] * refund[r].cash, Refunding!RefundsOf(o))

(* "A payment for a booking that's no longer waiting (it expired or was    *)
(* cancelled meanwhile) is refunded in full" (lines 140-141): so it is     *)
(* after expiry and without referral credit (README, section 6).           *)
LateMoneyComesBack ==
  \A o \in Orders :
    (o \in checkouts.paid /\ status = "EXPIRED") ~> RefundedCash(o) = CashOf(Booking)

(* A booking counts as paid only by a payment that is not refunded as      *)
(* late.  And when no call is in progress or was cut short, every other    *)
(* captured payment, of a second checkout or made too late, has a refund:  *)
(* its own, or one that took from it before and left too little for it.    *)
(* With credit a late payment's refund asks for more than was paid and is  *)
(* refused (README, section 6).                                            *)
EveryPaymentHasAPurpose ==
  LET late     == {refund[r].payment : r \in RefundsFor("LATE_PAYMENT")}
      refunded == {refund[r].payment : r \in Refunding!RefundIds}
  IN  /\ paid => Captured \ late # {}
      /\ Undisturbed /\ Booking.credit = 0 /\ CashOf(Booking) > 0 =>
           Cardinality(Captured \ refunded) <= IF paid THEN 1 ELSE 0

(* When a paid booking is over, the money finds its owners: in the end     *)
(* the ledger neither holds a deposit nor owes the lender, and nothing is  *)
(* on hold at Razorpay.                                                    *)
Cleared ==
  /\ books.DEPOSIT_HELD = 0
  /\ books.LENDER_PAYABLE = 0
  /\ \A t \in Paying!Rows : razorpay[t].held = 0

PaidAndOver == status \in {"CANCELLED", "COMPLETED"} /\ books.GATEWAY # 0

AccountsClear == [](PaidAndOver => <>[]Cleared)

=============================================================================

------------------------------ MODULE Refunds -------------------------------
(***************************************************************************)
(* Money back to borrowers (payments/refunds.service.ts): a refund row is  *)
(* written, the row is claimed, Razorpay is called, and what it accepted   *)
(* is saved and posted to the ledger.  The sweep retries calls that        *)
(* failed.  Callers (cancellations, settlements, an admin's goodwill) run  *)
(* concurrently; each step below is one await of the service.              *)
(***************************************************************************)
EXTENDS Handlers, Ledger, FiniteSets, FiniteSetsExt, SequencesExt

CONSTANTS
  Orders,        \* orders at Razorpay, one per payment row
  MaxRefunds,    \* bound: refund rows
  MaxAttempts,   \* MAX_ATTEMPTS
  Rent,          \* the booking's rent
  Charged,       \* order -> what the borrower paid
  Callers,       \* what callers may ask for: order, kind, cash and amounts
  LostAnswers    \* whether a call may time out after Razorpay accepted it

ASSUME RefundsAssumption ==
  /\ MaxRefunds \in Nat
  /\ MaxAttempts \in Nat
  /\ Rent \in Nat
  /\ LostAnswers \in BOOLEAN
  /\ Charged \in [Orders -> Nat]
  /\ \A c \in Callers :
       /\ c.order \in Orders
       /\ c.cash \in Int
       /\ c.amounts \in [rent : Nat, fee : Nat, deposit : Nat, credit : Nat]
       /\ c.kind = "MANUAL" \/ c.cash = CashOf(c.amounts)

VARIABLES
  payment,       \* payment rows: status and amount
  refund,        \* refund rows
  books,         \* ledger balances
  accepted,      \* refund id -> times Razorpay accepted to send it
  unheard        \* refunds it accepted without the API hearing of it

vars == <<payment, refund, books, accepted, unheard, todo, faults>>

RefundIds == 1..MaxRefunds

NoAmounts == [rent |-> 0, fee |-> 0, deposit |-> 0, credit |-> 0]

NoRefund == [payment |-> "NONE", kind |-> "NONE", cash |-> 0, amounts |-> NoAmounts,
             status |-> "NONE", attempts |-> 0, sent |-> FALSE]

Counted == {"PENDING", "PROCESSED"}

RefundsOf(p) == {r \in RefundIds : refund[r].payment = p}

CashIn(rows) == SumFunction([r \in rows |-> refund[r].cash])

(* What can still be refunded: failed refunds do not count. *)
Refundable(p) ==
  IF payment[p].status \in {"CAPTURED", "PARTIALLY_REFUNDED"}
  THEN payment[p].amount - CashIn({r \in RefundsOf(p) : refund[r].status \in Counted})
  ELSE 0

----------------------------------------------------------------------------
(* create: the amount left is read first, the row is inserted after. *)

CreateRefund(p, kind, cash, amounts) ==
  [op |-> "createRefund", payment |-> p, kind |-> kind, cash |-> cash, amounts |-> amounts]

Allowed(cash, left) == cash \in 1..left

Check(h) ==
  /\ At(h, "createRefund")
  /\ LET left == Refundable(Arg(h).payment)
     IN  \/ Arg(h).cash > left /\ Arg(h).cash > 0 /\ Throw(h)      \* REFUND_TOO_LARGE
         \/ Allowed(Arg(h).cash, left) /\ Continue(h, <<[Arg(h) EXCEPT !.op = "insertRefund"]>>)
         \/ Arg(h).cash <= 0 /\ Return(h)
  /\ UNCHANGED <<payment, refund, books, accepted, unheard, faults>>

Insert(h) ==
  /\ At(h, "insertRefund")
  /\ \E r \in RefundIds :
       /\ refund[r] = NoRefund
       /\ \A q \in 1..(r - 1) : refund[q] # NoRefund
       /\ refund' = [refund EXCEPT ![r] =
            [payment |-> Arg(h).payment, kind |-> Arg(h).kind, cash |-> Arg(h).cash,
             amounts |-> Arg(h).amounts, status |-> "PENDING", attempts |-> 0, sent |-> FALSE]]
       /\ Continue(h, <<[op |-> "attempt", id |-> r]>>)
  /\ UNCHANGED <<payment, books, accepted, unheard, faults>>

----------------------------------------------------------------------------
(* attempt: read the row, claim it, call Razorpay, save what happened. *)

Attempt(h) ==
  /\ At(h, "attempt")
  /\ Continue(h, <<[op |-> "claimRefund", id |-> Arg(h).id,
                    attempts |-> refund[Arg(h).id].attempts]>>)
  /\ UNCHANGED <<payment, refund, books, accepted, unheard, faults>>

Claimable(r, attempts) ==
  /\ ~refund[r].sent
  /\ refund[r].status \in {"PENDING", "FAILED"}
  /\ refund[r].attempts = attempts

Claim(h) ==
  /\ At(h, "claimRefund")
  /\ LET r == Arg(h).id
     IN  IF Claimable(r, Arg(h).attempts)
         THEN /\ refund' = [refund EXCEPT ![r].attempts = @ + 1]
              /\ Continue(h, <<[op |-> "callRefund", id |-> r]>>)
         ELSE Return(h) /\ UNCHANGED refund
  /\ UNCHANGED <<payment, books, accepted, unheard, faults>>

(* Razorpay accepts (and has sent it, or will), refuses, or accepts        *)
(* without the API hearing of it.                                          *)
Accepted(h) ==
  /\ At(h, "callRefund")
  /\ accepted' = [accepted EXCEPT ![Arg(h).id] = @ + 1]
  /\ \E status \in Counted :
       Continue(h, <<[op |-> "tallyRefund", id |-> Arg(h).id, status |-> status]>>)
  /\ UNCHANGED <<payment, refund, books, faults, unheard>>

RefusedRefund(h) ==
  /\ At(h, "callRefund")
  /\ Refused
  /\ \/ UNCHANGED <<accepted, unheard>>
     \/ /\ LostAnswers
        /\ accepted' = [accepted EXCEPT ![Arg(h).id] = @ + 1]
        /\ unheard' = unheard \cup {Arg(h).id}
  /\ Continue(h, <<[op |-> "failRefund", id |-> Arg(h).id]>>)
  /\ UNCHANGED <<payment, refund, books>>

Fail(h) ==
  /\ At(h, "failRefund")
  /\ refund' = [refund EXCEPT ![Arg(h).id].status = "FAILED"]
  /\ Return(h)
  /\ UNCHANGED <<payment, books, accepted, unheard, faults>>

(* The saving transaction adds up the refunds before it locks the payment  *)
(* row: it does not see one that another call is saving.                   *)
Tally(h) ==
  /\ At(h, "tallyRefund")
  /\ LET r == Arg(h).id
         p == refund[r].payment
         seen == CashIn({q \in RefundsOf(p) \ {r} : refund[q].sent
                                                    /\ refund[q].status \in Counted})
     IN  Continue(h, <<[op |-> "saveRefund", id |-> r, status |-> Arg(h).status,
                        sum |-> seen + refund[r].cash]>>)
  /\ UNCHANGED <<payment, refund, books, accepted, unheard, faults>>

PostingsOfCash(row) ==                 \* mutant: credit given back is posted as cash
  IF row.kind = "MANUAL" THEN GoodwillPostings(row.cash)
  ELSE RefundPostings([row.amounts EXCEPT !.credit = 0], Rent)

PostingsOf(row) ==
  IF row.kind = "MANUAL" THEN GoodwillPostings(row.cash)
  ELSE RefundPostings(row.amounts, Rent)

Save(h) ==
  /\ At(h, "saveRefund")
  /\ LET r == Arg(h).id
         p == refund[r].payment
     IN  /\ refund' = [refund EXCEPT ![r].sent = TRUE, ![r].status = Arg(h).status]
         /\ books' = Posted(books, PostingsOf(refund[r]))
         /\ payment' = [payment EXCEPT ![p].status =
              IF Arg(h).sum >= payment[p].amount THEN "REFUNDED" ELSE "PARTIALLY_REFUNDED"]
  /\ Return(h)
  /\ UNCHANGED <<accepted, unheard, faults>>

RefundStep(h) ==
  \/ Check(h) \/ Insert(h) \/ Attempt(h) \/ Claim(h) \/ Accepted(h)
  \/ RefusedRefund(h) \/ Fail(h) \/ Tally(h) \/ Save(h)

----------------------------------------------------------------------------
(* Webhooks and the sweep *)

(* refund.processed and refund.failed: a refund the API has not saved yet  *)
(* matches no row.                                                         *)
Settle(r, ok) ==
  /\ accepted[r] > 0
  /\ refund[r].sent
  /\ refund[r].status = "PENDING"
  /\ refund' = [refund EXCEPT ![r].status = IF ok THEN "PROCESSED" ELSE "FAILED"]
  /\ UNCHANGED <<payment, books, accepted, unheard, todo, faults>>

RetryablePending(row) ==               \* mutant: refunds on their way are retried too
  row.status \in {"PENDING", "FAILED"} /\ ~row.sent /\ row.attempts < MaxAttempts

Retryable(row) ==
  row.status = "FAILED" /\ ~row.sent /\ row.attempts < MaxAttempts

FailedUntried ==                       \* mutant: what was tried is not tried again
  {r \in RefundIds : Retryable(refund[r]) /\ refund[r].attempts = 0}

Failed == {r \in RefundIds : Retryable(refund[r])}

RetryFailed(h) ==
  /\ At(h, "retryRefunds")
  /\ Continue(h, [i \in 1..Cardinality(Failed) |->
                    [op |-> "attempt", id |-> SetToSeq(Failed)[i]]])
  /\ UNCHANGED <<payment, refund, books, accepted, unheard, faults>>

----------------------------------------------------------------------------
(* The service on its own: payments that were captured, callers that ask   *)
(* for any of Callers, and the sweep.                                      *)

Ask(h) ==
  /\ h \in Requests
  /\ \E c \in Callers : Begin(h, <<CreateRefund(c.order, c.kind, c.cash, c.amounts)>>)
  /\ UNCHANGED <<payment, refund, books, accepted, unheard, faults>>

Sweep(h) ==
  /\ h \in Workers
  /\ Begin(h, <<[op |-> "retryRefunds"]>>)
  /\ UNCHANGED <<payment, refund, books, accepted, unheard, faults>>

Crash == Restart /\ UNCHANGED <<payment, refund, books, accepted, unheard>>

Init ==
  /\ HandlersInit
  /\ payment = [p \in Orders |-> [status |-> "CAPTURED", amount |-> Charged[p]]]
  /\ refund = [r \in RefundIds |-> NoRefund]
  /\ books = Zero
  /\ accepted = [r \in RefundIds |-> 0]
  /\ unheard = {}

Next ==
  \/ \E h \in All : Ask(h) \/ Sweep(h) \/ RefundStep(h) \/ RetryFailed(h)
  \/ \E r \in RefundIds, ok \in BOOLEAN : Settle(r, ok)
  \/ Crash

Spec == Init /\ [][Next]_vars

(* The sweep is a repeating job, and a call that has started goes on.      *)
FairSpec ==
  /\ Spec
  /\ \A h \in All : WF_vars(RefundStep(h) \/ RetryFailed(h))
  /\ \A h \in Workers : WF_vars(Sweep(h))

----------------------------------------------------------------------------
(* Properties *)

(* However many callers and retries there are, Razorpay accepts a refund   *)
(* at most once as long as its answers arrive and no call is cut short:    *)
(* "so two retries can't both send it" (refunds.service.ts line 98).       *)
SentOnce == faults.crashes = 0 => \A r \in RefundIds \ unheard : accepted[r] <= 1

(* The cash of a refund, as often as Razorpay accepted to send it.         *)
SentOf(r) == accepted[r] * refund[r].cash

SentCash == SumFunction([r \in RefundIds |-> SentOf(r)])

(* When nothing is in progress the ledger says of Razorpay's balance what  *)
(* Razorpay did, as far as the API has heard of it: postings are written   *)
(* for every refund it accepted and for none it did not, and credit given  *)
(* back never counts as cash.                                              *)
BooksFollowRazorpay == (Undisturbed /\ unheard = {}) => books.GATEWAY = SentCash

(* A refund whose call failed is tried again until Razorpay accepts it or  *)
(* the attempts run out.                                                   *)
FailedRefundsRetried ==
  \A r \in RefundIds : Retryable(refund[r]) ~> ~Retryable(refund[r])

=============================================================================

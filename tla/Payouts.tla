------------------------------ MODULE Payouts -------------------------------
(***************************************************************************)
(* Money to lenders (payouts/payouts.service.ts): the rent of a paid       *)
(* booking, less commission, is transferred and held until the rental is   *)
(* over; a cancelled booking takes the held transfer back and sends the    *)
(* lender's share of any rent kept; a kept deposit is sent after a return. *)
(* Transfers wait for the lender's account, and the sweep retries calls    *)
(* that failed.  Each step below is one await of the service.              *)
(***************************************************************************)
EXTENDS Handlers, Ledger, FiniteSets, FiniteSetsExt, SequencesExt

CONSTANTS
  Orders,        \* orders at Razorpay, one per payment row
  MaxTransfers,  \* bound: transfer rows
  MaxAttempts,   \* MAX_ATTEMPTS
  Rent,          \* the booking's rent
  Kept,          \* what the lender keeps of the deposit when it completes
  Closer,        \* the request that closes the booking
  AccountMoves,  \* statuses the account may be moved to
  AdminRetries   \* whether an admin retries failed transfers

ASSUME PayoutsAssumption ==
  /\ Kept \in Nat
  /\ Closer \in Requests
  /\ AccountMoves \subseteq {"PENDING", "ACTIVATED"}
  /\ AdminRetries \in BOOLEAN
  /\ MaxTransfers \in Nat
  /\ MaxAttempts \in Nat
  /\ Rent \in Nat

VARIABLES
  status,        \* the booking's status
  payment,       \* payment rows: status and amount
  account,       \* the lender's payout account
  transfer,      \* transfer rows
  books,         \* ledger balances
  razorpay       \* transfer id -> its transfers at Razorpay: on hold, with the lender,
                 \* failed after all; and whether transfer.failed is on its way

payoutVars == <<status, payment, account, transfer, books, razorpay, todo, faults>>

TransferIds == 1..MaxTransfers

PaymentIn(statuses) == \E p \in Orders : payment[p].status \in statuses

HasPaid == PaymentIn({"CAPTURED", "PARTIALLY_REFUNDED", "REFUNDED"})

Nothing == [held |-> 0, lender |-> 0, failed |-> 0, event |-> FALSE]

NoTransfer == [amount |-> 0, onHold |-> FALSE, fromDeposit |-> FALSE, status |-> "NONE",
               attempts |-> 0, sent |-> FALSE]

Rows == {t \in TransferIds : transfer[t] # NoTransfer}

IsNext(t) == transfer[t] = NoTransfer /\ \A s \in 1..(t - 1) : s \in Rows

Each(S, Step(_)) == [i \in 1..Cardinality(S) |-> Step(SetToSeq(S)[i])]

(* transfer.create, unless a unique index refuses it; then send. *)
Conflicts(onHold, fromDeposit) ==
  \E t \in Rows :
    \/ /\ onHold /\ transfer[t].onHold
       /\ transfer[t].status \in {"AWAITING_ACCOUNT", "ON_HOLD"}     \* transfers_one_live_hold
    \/ fromDeposit /\ transfer[t].fromDeposit                        \* transfers_one_from_deposit

NewTransferUnheld(amount, onHold, fromDeposit) ==     \* mutant: the hold is forgotten
  [amount |-> amount, onHold |-> FALSE, fromDeposit |-> fromDeposit,
   status |-> "AWAITING_ACCOUNT", attempts |-> 0, sent |-> FALSE]

NewTransfer(amount, onHold, fromDeposit) ==
  [amount |-> amount, onHold |-> onHold, fromDeposit |-> fromDeposit,
   status |-> "AWAITING_ACCOUNT", attempts |-> 0, sent |-> FALSE]

CreateAndSend(h, amount, onHold, fromDeposit) ==
  /\ ~Conflicts(onHold, fromDeposit)
  /\ \E t \in TransferIds :
       /\ IsNext(t)
       /\ transfer' = [transfer EXCEPT ![t] = NewTransfer(amount, onHold, fromDeposit)]
       /\ Continue(h, <<[op |-> "send", id |-> t]>>)

----------------------------------------------------------------------------
(* send: read the transfer and the account, claim, call Razorpay, save. *)

Send(h) ==
  /\ At(h, "send")
  /\ LET t == Arg(h).id
     IN  Continue(h, <<IF account = "ACTIVATED"
                       THEN [op |-> "claimTransfer", id |-> t, onHold |-> transfer[t].onHold,
                             attempts |-> transfer[t].attempts]
                       ELSE [op |-> "wait", id |-> t]>>)
  /\ UNCHANGED <<status, payment, account, transfer, books, razorpay, faults>>

Wait(h) ==
  /\ At(h, "wait")
  /\ transfer' = [transfer EXCEPT ![Arg(h).id].status = "AWAITING_ACCOUNT"]
  /\ Return(h)
  /\ UNCHANGED <<status, payment, account, books, razorpay, faults>>

Claimable(t, attempts) ==
  /\ ~transfer[t].sent
  /\ transfer[t].status \in {"AWAITING_ACCOUNT", "FAILED"}
  /\ transfer[t].attempts = attempts

Claim(h) ==
  /\ At(h, "claimTransfer")
  /\ LET t == Arg(h).id
     IN  IF Claimable(t, Arg(h).attempts)
         THEN /\ transfer' = [transfer EXCEPT ![t].attempts = @ + 1]
              /\ Continue(h, <<[op |-> "callTransfer", id |-> t, onHold |-> Arg(h).onHold]>>)
         ELSE Return(h) /\ UNCHANGED transfer
  /\ UNCHANGED <<status, payment, account, books, razorpay, faults>>

Created(h) ==
  /\ At(h, "callTransfer")
  /\ razorpay' = IF Arg(h).onHold THEN [razorpay EXCEPT ![Arg(h).id].held = @ + 1]
                 ELSE [razorpay EXCEPT ![Arg(h).id].lender = @ + 1]
  /\ Continue(h, <<[op |-> "saveTransfer", id |-> Arg(h).id, onHold |-> Arg(h).onHold]>>)
  /\ UNCHANGED <<status, payment, account, transfer, books, faults>>

RefusedTransfer(h) ==
  /\ At(h, "callTransfer")
  /\ Refused
  /\ Continue(h, <<[op |-> "failTransfer", id |-> Arg(h).id]>>)
  /\ UNCHANGED <<status, payment, account, transfer, books, razorpay>>

Fail(h) ==
  /\ At(h, "failTransfer")
  /\ transfer' = [transfer EXCEPT ![Arg(h).id].status = "FAILED"]
  /\ Return(h)
  /\ UNCHANGED <<status, payment, account, books, razorpay, faults>>

Save(h) ==
  /\ At(h, "saveTransfer")
  /\ LET t == Arg(h).id
     IN  /\ transfer' = [transfer EXCEPT ![t].sent = TRUE,
              ![t].status = IF Arg(h).onHold THEN "ON_HOLD" ELSE "RELEASED"]
         /\ books' = Posted(books, TransferPostings(transfer[t].amount))
  /\ Return(h)
  /\ UNCHANGED <<status, payment, account, razorpay, faults>>

----------------------------------------------------------------------------
(* onConfirmed: owe the lender their share, held until the return. *)

OnConfirmed(h) ==
  /\ At(h, "onConfirmed")
  /\ IF PaymentIn({"CAPTURED"}) THEN Continue(h, <<[op |-> "oweRent"]>>) ELSE Return(h)
  /\ UNCHANGED <<status, payment, account, transfer, books, razorpay, faults>>

OweRent(h) ==
  /\ At(h, "oweRent")
  /\ \/ CreateAndSend(h, LenderShare(Rent), TRUE, FALSE)
     \/ Conflicts(TRUE, FALSE) /\ Throw(h) /\ UNCHANGED transfer
  /\ UNCHANGED <<status, payment, account, books, razorpay, faults>>

(* onCancelled: take back what is held, then send the share of rent kept.  *)
ReverseStep(t) == [op |-> "reverse", id |-> t, sent |-> transfer[t].sent]

OnCancelled(h) ==
  /\ At(h, "onCancelled")
  /\ LET live == {t \in Rows : transfer[t].onHold
                               /\ transfer[t].status \in {"AWAITING_ACCOUNT", "ON_HOLD", "FAILED"}}
     IN  Continue(h, Each(live, ReverseStep)
                       \o <<[op |-> "keepRent", kept |-> Rent - Arg(h).refunded]>>)
  /\ UNCHANGED <<status, payment, account, transfer, books, razorpay, faults>>

OwesShare(kept) == kept > 0 /\ HasPaid

KeepRent(h) ==
  /\ At(h, "keepRent")
  /\ IF OwesShare(Arg(h).kept) THEN CreateAndSend(h, LenderShare(Arg(h).kept), FALSE, FALSE)
     ELSE Return(h) /\ UNCHANGED transfer
  /\ UNCHANGED <<status, payment, account, books, razorpay, faults>>

(* reverse works on the row its caller read. *)
Drop(h) ==
  /\ At(h, "reverse")
  /\ ~Arg(h).sent
  /\ transfer' = [transfer EXCEPT ![Arg(h).id].status = "REVERSED"]
  /\ Return(h)
  /\ UNCHANGED <<status, payment, account, books, razorpay, faults>>

TakeBack(h) ==
  /\ At(h, "reverse")
  /\ Arg(h).sent
  /\ LET t == Arg(h).id
     IN  \/ /\ razorpay[t].held > 0
            /\ razorpay' = [razorpay EXCEPT ![t].held = @ - 1]
            /\ Continue(h, <<[op |-> "saveReversal", id |-> t]>>)
            /\ UNCHANGED faults
         \/ Refused /\ Return(h) /\ UNCHANGED razorpay
         \/ razorpay[t].held = 0 /\ Return(h) /\ UNCHANGED <<razorpay, faults>>
  /\ UNCHANGED <<status, payment, account, transfer, books>>

KeptOnBooks(amount) == TransferPostings(amount)   \* mutant: a reversal posted like a transfer

Reversal(amount) == ReversalPostings(amount)

SaveReversal(h) ==
  /\ At(h, "saveReversal")
  /\ transfer' = [transfer EXCEPT ![Arg(h).id].status = "REVERSED"]
  /\ books' = Posted(books, Reversal(transfer[Arg(h).id].amount))
  /\ Return(h)
  /\ UNCHANGED <<status, payment, account, razorpay, faults>>
----------------------------------------------------------------------------
(* The rental is over: release what is held, send the kept deposit. *)

ReleaseStep(t) ==
  [op |-> "release", id |-> t, held |-> transfer[t].status = "ON_HOLD" /\ transfer[t].sent]

Release(h) ==
  /\ At(h, "releaseAll")
  /\ LET rent == {t \in Rows : /\ transfer[t].onHold /\ ~transfer[t].fromDeposit
                               /\ transfer[t].status \in {"AWAITING_ACCOUNT", "ON_HOLD", "FAILED"}}
     IN  Continue(h, Each(rent, ReleaseStep))
  /\ UNCHANGED <<status, payment, account, transfer, books, razorpay, faults>>

(* One that was not sent goes out unheld when it is. *)
Unhold(h) ==
  /\ At(h, "release")
  /\ ~Arg(h).held
  /\ transfer' = [transfer EXCEPT ![Arg(h).id].onHold = FALSE]
  /\ Return(h)
  /\ UNCHANGED <<status, payment, account, books, razorpay, faults>>

ReleaseOne(h) ==
  /\ At(h, "release")
  /\ Arg(h).held
  /\ LET t == Arg(h).id
     IN  \/ /\ razorpay[t].held > 0
            /\ razorpay' = [razorpay EXCEPT ![t].held = @ - 1, ![t].lender = @ + 1]
            /\ Continue(h, <<[op |-> "saveRelease", id |-> t]>>)
            /\ UNCHANGED faults
         \/ Refused /\ Return(h) /\ UNCHANGED razorpay
         \/ razorpay[t].held = 0 /\ Return(h) /\ UNCHANGED <<razorpay, faults>>
  /\ UNCHANGED <<status, payment, account, transfer, books>>

SaveRelease(h) ==
  /\ At(h, "saveRelease")
  /\ LET t == Arg(h).id
     IN  transfer' = IF transfer[t].status = "ON_HOLD"
                     THEN [transfer EXCEPT ![t].status = "RELEASED"] ELSE transfer
  /\ Return(h)
  /\ UNCHANGED <<status, payment, account, books, razorpay, faults>>

SendKept(h) ==
  /\ At(h, "sendKept")
  /\ LET old == {t \in Rows : transfer[t].fromDeposit}
         waiting == {t \in old : transfer[t].status = "AWAITING_ACCOUNT"}
     IN  IF Arg(h).amount <= 0 \/ ~HasPaid THEN Return(h)
         ELSE Continue(h, IF old = {} THEN <<[op |-> "createKept", amount |-> Arg(h).amount]>>
                          ELSE Each(waiting, LAMBDA t : [op |-> "send", id |-> t]))
  /\ UNCHANGED <<status, payment, account, transfer, books, razorpay, faults>>

CreateKept(h) ==
  /\ At(h, "createKept")
  /\ \/ CreateAndSend(h, Arg(h).amount, FALSE, TRUE)
     \/ Conflicts(FALSE, TRUE) /\ Return(h) /\ UNCHANGED transfer
  /\ UNCHANGED <<status, payment, account, books, razorpay, faults>>

PayoutStep(h) ==
  \/ Send(h) \/ Wait(h) \/ Claim(h) \/ Created(h) \/ RefusedTransfer(h) \/ Fail(h) \/ Save(h)
  \/ OnConfirmed(h) \/ OweRent(h) \/ OnCancelled(h) \/ KeepRent(h)
  \/ Drop(h) \/ TakeBack(h) \/ SaveReversal(h)
  \/ Release(h) \/ Unhold(h) \/ ReleaseOne(h) \/ SaveRelease(h) \/ SendKept(h) \/ CreateKept(h)

----------------------------------------------------------------------------
(* The account, the sweep and the admin *)

(* setUp, and the account webhooks: an active account sends what waits.    *)
AccountChanged(h, to) ==
  /\ h \in Requests
  /\ account \notin {to, "REMOVED"}                     \* bound: events that repeat
  /\ account' = to
  /\ Begin(h, IF to = "ACTIVATED" THEN <<[op |-> "sendWaiting"]>> ELSE <<>>)
  /\ UNCHANGED <<status, payment, transfer, books, razorpay, faults>>

SendWaiting(h) ==
  /\ At(h, "sendWaiting")
  /\ LET waiting == {t \in Rows : transfer[t].status = "AWAITING_ACCOUNT"}
     IN  Continue(h, Each(waiting, LAMBDA t : [op |-> "send", id |-> t]))
  /\ UNCHANGED <<status, payment, account, transfer, books, razorpay, faults>>

Retryable(t) ==
  /\ transfer[t].status = "FAILED" /\ ~transfer[t].sent
  /\ transfer[t].attempts < MaxAttempts

Stuck == {t \in Rows : transfer[t].status = "ON_HOLD" /\ status \in {"CANCELLED", "EXPIRED"}}

RetryFailed(h) ==
  /\ At(h, "retryTransfers")
  /\ LET failed == {t \in Rows : Retryable(t)}
     IN  Continue(h, Each(failed, LAMBDA t : [op |-> "send", id |-> t])
                       \o Each(Stuck, ReverseStep))
  /\ UNCHANGED <<status, payment, account, transfer, books, razorpay, faults>>

(* The admin's retry of a failed transfer resets the attempts. *)
Retry(h, t) ==
  /\ h \in Requests
  /\ transfer[t].status = "FAILED"
  /\ Begin(h, <<[op |-> "resetAttempts", id |-> t], [op |-> "send", id |-> t]>>)
  /\ UNCHANGED <<status, payment, account, transfer, books, razorpay, faults>>

ResetAttempts(h) ==
  /\ At(h, "resetAttempts")
  /\ LET t == Arg(h).id
     IN  transfer' = IF transfer[t].status = "FAILED"
                     THEN [transfer EXCEPT ![t].attempts = 0] ELSE transfer
  /\ Return(h)
  /\ UNCHANGED <<status, payment, account, books, razorpay, faults>>

(* deleteAccount: once no booking is in progress, whatever still waits.    *)
(* Bound: between calls (each reads the account once per transfer).        *)
RemoveAccount ==
  /\ status \in {"CANCELLED", "COMPLETED"}
  /\ AtRest
  /\ account # "REMOVED"
  /\ account' = "REMOVED"
  /\ UNCHANGED <<status, payment, transfer, books, razorpay, todo, faults>>

(* A transfer that Razorpay accepted fails after all ...                   *)
FailsLater(t, place) ==
  /\ razorpay[t][place] > 0
  /\ Refused
  /\ razorpay' = [razorpay EXCEPT ![t][place] = @ - 1, ![t].failed = @ + 1, ![t].event = TRUE]
  /\ UNCHANGED <<status, payment, account, transfer, books, todo>>

(* ... and the webhook says so: to the row whose id it is, if it has been  *)
(* saved by then (of two transfers for a row the last saved is its own).   *)
Named(t) ==
  IF razorpay[t].held + razorpay[t].lender > 0 THEN {transfer[t].sent, FALSE}
  ELSE {transfer[t].sent}

TransferFailed(t) ==
  /\ razorpay[t].event
  /\ razorpay' = [razorpay EXCEPT ![t].event = FALSE]
  /\ \E named \in Named(t) :
       transfer' = IF named THEN [transfer EXCEPT ![t].status = "FAILED"] ELSE transfer
  /\ UNCHANGED <<status, payment, account, books, todo, faults>>

----------------------------------------------------------------------------
(* The service on its own: a booking that is paid, then cancelled or       *)
(* completed.                                                              *)

Confirm(h) ==
  /\ h \in Requests \ {Closer}
  /\ status = "AWAITING_PAYMENT"
  /\ status' = "CONFIRMED"
  /\ Begin(h, <<[op |-> "onConfirmed"]>>)
  /\ UNCHANGED <<payment, account, transfer, books, razorpay, faults>>

CancelRental ==
  /\ status = "CONFIRMED"
  /\ status' = "CANCELLED"
  /\ \E refunded \in {0, (Rent + 1) \div 2, Rent} :
       Begin(Closer, <<[op |-> "onCancelled", refunded |-> refunded]>>)
  /\ UNCHANGED <<payment, account, transfer, books, razorpay, faults>>

Settlement == <<[op |-> "releaseAll"], [op |-> "sendKept", amount |-> Kept]>>

Complete ==
  /\ status = "CONFIRMED"
  /\ status' = "COMPLETED"
  /\ Begin(Closer, Settlement)
  /\ UNCHANGED <<payment, account, transfer, books, razorpay, faults>>

(* The sweep leaves a booking alone for a minute after it completed: by    *)
(* then the call that completed it is over (Razorpay is given 15 seconds). *)
RentHeld == \E t \in Rows : transfer[t].status = "ON_HOLD" /\ ~transfer[t].fromDeposit

Sweep(h) ==
  /\ h \in Workers
  /\ Begin(h, (IF status = "COMPLETED" /\ Free(Closer) /\ RentHeld THEN Settlement ELSE <<>>)
                \o <<[op |-> "retryTransfers"]>>)
  /\ UNCHANGED <<status, payment, account, transfer, books, razorpay, faults>>

PayoutsCrash == Restart /\ UNCHANGED <<status, payment, account, transfer, books, razorpay>>

PayoutsInit ==
  /\ HandlersInit
  /\ status = "AWAITING_PAYMENT"
  /\ payment = [p \in Orders |-> [status |-> "CAPTURED", amount |-> 1]]
  /\ account \in {"NONE", "ACTIVATED"}
  /\ transfer = [t \in TransferIds |-> NoTransfer]
  /\ books = Zero
  /\ razorpay = [t \in TransferIds |-> Nothing]

PayoutsNext ==
  \/ \E h \in All : PayoutStep(h) \/ SendWaiting(h) \/ RetryFailed(h) \/ ResetAttempts(h) \/ Confirm(h) \/ Sweep(h)
  \/ \E h \in All, to \in AccountMoves : AccountChanged(h, to)
  \/ AdminRetries /\ \E h \in All, t \in Rows : Retry(h, t)
  \/ RemoveAccount
  \/ \E t \in Rows, place \in {"held", "lender"} : FailsLater(t, place)
  \/ \E t \in Rows : TransferFailed(t)
  \/ CancelRental
  \/ Complete
  \/ PayoutsCrash

PayoutsSpec == PayoutsInit /\ [][PayoutsNext]_payoutVars

----------------------------------------------------------------------------
(* Properties *)

(* The lender gets no money before the rental is over or the booking is    *)
(* cancelled, and the rent that was held for a cancelled booking never     *)
(* reaches them, whatever calls, retries and webhooks overlap.             *)
HeldUntilOver ==
  /\ status \in {"AWAITING_PAYMENT", "CONFIRMED"} => \A t \in Rows : razorpay[t].lender = 0
  /\ status = "CANCELLED" => \A t \in Rows : transfer[t].onHold => razorpay[t].lender = 0

(* The cash of a transfer, as often as it left the balance.                *)
TransferredOf(t) ==
  transfer[t].amount * (razorpay[t].held + razorpay[t].lender + razorpay[t].failed)

(* When nothing is in progress the ledger says what left Razorpay's        *)
(* balance for the lender: every transfer it accepted less every reversal, *)
(* those that failed later included, which are not posted back.            *)
BooksFollowRazorpay ==
  Undisturbed => books.GATEWAY = SumFunction([t \in TransferIds |-> TransferredOf(t)])

=============================================================================

------------------------------ MODULE Credits ------------------------------
(***************************************************************************)
(* Referral credit (credits.ts, referrals.service.ts): what invitations    *)
(* give, bookings hold and give back, and administrators take away.  A     *)
(* transaction that spends or rewards takes the person's advisory lock     *)
(* before it reads; giving back takes none.  A person's balance stands for *)
(* the sum of their credit_entries, which are only ever added.             *)
(***************************************************************************)
EXTENDS Integers, FiniteSets, Functions

CONSTANTS
  People,
  Nobody,
  Bookings,        \* booking ids
  Calls,           \* bound: transactions in progress at once
  Gift,            \* refereeCreditPaise and referrerCreditPaise
  Limit,           \* creditLimitFor of a booking's rent
  MaxRewards,      \* maxReferrerRewards
  MaxTaken         \* bound: credit taken away from one person

ASSUME CreditsAssumption ==
  /\ Nobody \notin People
  /\ IsFiniteSet(People)
  /\ IsFiniteSet(Bookings)
  /\ Gift \in Nat \ {0}
  /\ Limit \in Nat
  /\ MaxRewards \in Nat
  /\ MaxTaken \in Nat

VARIABLES
  balance,         \* person -> the sum of their entries
  referral,        \* person -> who invited them [by, rewarded]
  booking,         \* id -> [status, borrower, held, given: what was given back]
  lock,            \* person -> the call that has their advisory lock
  call,            \* call -> [step, kind, who: whose credit, about, seen]
  taken            \* person -> what was taken away from them

creditVars == <<balance, referral, booking, lock, call, taken>>

NoReferral == [by |-> Nobody, rewarded |-> FALSE]

NoBooking == [status |-> "NONE", borrower |-> Nobody, held |-> 0, given |-> 0]

NoCall == [step |-> "IDLE", kind |-> "NONE", who |-> Nobody, about |-> Nobody, seen |-> 0]

Least(a, b) == IF a < b THEN a ELSE b

Rewarded(u) == {p \in People : referral[p] = [by |-> u, rewarded |-> TRUE]}

Start(c, kind, who, about) ==
  /\ call[c] = NoCall
  /\ call' = [call EXCEPT ![c] = [step |-> "READY", kind |-> kind, who |-> who,
                                  about |-> about, seen |-> 0]]
  /\ UNCHANGED <<balance, referral, lock, taken>>

NotLocked(u) == TRUE         \* mutant: lockCredit is not waited for

Unlocked(u) == lock[u] = {}

HasLock(row, seen) == [row EXCEPT !.step = "LOCKED", !.seen = seen]

(* lockCredit, and what is read under the lock: the rewards so far or the  *)
(* balance.                                                                *)
Lock(c) ==
  LET u == call[c].who
  IN  /\ call[c].step = "READY"
      /\ Unlocked(u)
      /\ lock' = [lock EXCEPT ![u] = @ \cup {c}]
      /\ call' = [call EXCEPT ![c] = HasLock(call[c],
           IF call[c].kind = "REWARD" THEN Cardinality(Rewarded(u)) ELSE balance[u])]
      /\ UNCHANGED <<balance, referral, booking, taken>>

Locked(c, kind) == call[c].step = "LOCKED" /\ call[c].kind = kind

(* The transaction ends, and the lock with it. *)
Ends(c) ==
  /\ call' = [call EXCEPT ![c] = NoCall]
  /\ lock' = [lock EXCEPT ![call[c].who] = @ \ {c}]

(* ... having changed nothing: it was refused, or the process stopped.     *)
RollBack(c) ==
  /\ call[c] # NoCall
  /\ Ends(c)
  /\ UNCHANGED <<balance, referral, booking, taken>>

----------------------------------------------------------------------------
InvitedAgain(u) == TRUE      \* mutant: the referee is not the referral's key

Uninvited(u) == referral[u] = NoReferral

(* redeem(): canRedeem is asked before the transaction, and only the       *)
(* referral's primary key is asked again in it.                            *)
StartRedeem(c, u, inviter) ==
  /\ u # inviter
  /\ Uninvited(u)
  /\ \A b \in Bookings : booking[b].borrower # u
  /\ Start(c, "REDEEM", u, inviter)
  /\ UNCHANGED booking

Redeem(c) ==
  LET u == call[c].who
  IN  /\ Locked(c, "REDEEM")
      /\ Uninvited(u)
      /\ referral' = [referral EXCEPT ![u] = [by |-> call[c].about, rewarded |-> FALSE]]
      /\ balance' = [balance EXCEPT ![u] = @ + Gift]
      /\ Ends(c)
      /\ UNCHANGED <<booking, taken>>

(* A request to book, or an offer accepted: holdCredit in the transaction. *)
StartBook(c, u, b) ==
  /\ booking[b] = NoBooking
  /\ \A d \in Calls : ~(call[d].kind = "BOOK" /\ call[d].about = b)
  /\ Start(c, "BOOK", u, b)
  /\ UNCHANGED booking

Hold(c) ==
  LET u == call[c].who
      amount == Least(call[c].seen, Limit)
  IN  /\ Locked(c, "BOOK")
      /\ booking' = [booking EXCEPT ![call[c].about] =
           [NoBooking EXCEPT !.status = "UNPAID", !.borrower = u, !.held = amount]]
      /\ balance' = [balance EXCEPT ![u] = @ - amount]
      /\ Ends(c)
      /\ UNCHANGED <<referral, taken>>

(* revoke(): an administrator takes unused credit away. *)
StartRevoke(c, u) == Start(c, "REVOKE", u, Nobody) /\ UNCHANGED booking

Revoke(c) ==
  LET u == call[c].who
  IN  /\ Locked(c, "REVOKE")
      /\ \E amount \in 1..Least(call[c].seen, MaxTaken - taken[u]) :
           /\ balance' = [balance EXCEPT ![u] = @ - amount]
           /\ taken' = [taken EXCEPT ![u] = @ + amount]
      /\ Ends(c)
      /\ UNCHANGED <<referral, booking>>

----------------------------------------------------------------------------
Change(b, from, to) ==
  /\ booking[b].status = from
  /\ booking' = [booking EXCEPT ![b].status = to]

Pay(b) ==
  /\ Change(b, "UNPAID", "PAID")
  /\ UNCHANGED <<balance, referral, lock, call, taken>>

ClosedBooking(row, status, amount) ==
  [row EXCEPT !.status = status, !.given = row.given + amount]

(* releaseCredit, at most once per booking. *)
GivenBack(b, status, amount) ==
  /\ booking' = [booking EXCEPT ![b] = ClosedBooking(booking[b], status, amount)]
  /\ balance' = [balance EXCEPT ![booking[b].borrower] = @ + amount]

(* Closed before payment: it gives all of it back in its own transaction.  *)
CloseUnpaid(b) ==
  /\ booking[b].status = "UNPAID"
  /\ GivenBack(b, "CLOSED", booking[b].held)
  /\ UNCHANGED <<referral, lock, call, taken>>

CancelPaid(b) ==
  /\ Change(b, "PAID", "CANCELLED")
  /\ UNCHANGED <<balance, referral, lock, call, taken>>

AlwaysReleased(b) == TRUE    \* mutant: no index credit_entries_one_release_per_booking

Releasable(b) == booking[b].given = 0

(* refundCancelled, by the listener or the sweep: credit first, up to the  *)
(* rent that comes back.                                                   *)
RefundCredit(b, rentBack) ==
  /\ booking[b].status = "CANCELLED"
  /\ Releasable(b)
  /\ GivenBack(b, "CANCELLED", Least(booking[b].held, rentBack))
  /\ UNCHANGED <<referral, lock, call, taken>>

(* Completed; the listener that rewards may be lost in a crash, and nothing *)
(* makes up for it but another completed rental.                           *)
Complete(b) ==
  /\ Change(b, "PAID", "COMPLETED")
  /\ UNCHANGED <<balance, referral, lock, call, taken>>

(* rewardReferrer reads the referral before its transaction ... *)
CompleteAndReward(c, b) ==
  LET u == booking[b].borrower
  IN  /\ Change(b, "PAID", "COMPLETED")
      /\ referral[u] # NoReferral /\ ~referral[u].rewarded
      /\ Start(c, "REWARD", referral[u].by, u)

(* ... and claims it in there, within the cap. *)
Reward(c) ==
  LET u == call[c].who
  IN  /\ Locked(c, "REWARD")
      /\ call[c].seen < MaxRewards
      /\ ~referral[call[c].about].rewarded
      /\ referral' = [referral EXCEPT ![call[c].about].rewarded = TRUE]
      /\ balance' = [balance EXCEPT ![u] = @ + Gift]
      /\ Ends(c)
      /\ UNCHANGED <<booking, taken>>

----------------------------------------------------------------------------
CreditsInit ==
  /\ balance = [u \in People |-> 0]
  /\ referral = [u \in People |-> NoReferral]
  /\ booking = [b \in Bookings |-> NoBooking]
  /\ lock = [u \in People |-> {}]
  /\ call = [c \in Calls |-> NoCall]
  /\ taken = [u \in People |-> 0]

Calling(c) ==
  \/ Lock(c) \/ RollBack(c)
  \/ \E u, inviter \in People : StartRedeem(c, u, inviter)
  \/ \E u \in People, b \in Bookings : StartBook(c, u, b)
  \/ \E u \in People : StartRevoke(c, u)
  \/ \E b \in Bookings : CompleteAndReward(c, b)
  \/ Redeem(c) \/ Hold(c) \/ Revoke(c) \/ Reward(c)

Going(b) ==
  \/ Pay(b) \/ CloseUnpaid(b) \/ CancelPaid(b) \/ Complete(b)
  \/ \E rentBack \in 0..(2 * Limit) : RefundCredit(b, rentBack)

CreditsNext == (\E c \in Calls : Calling(c)) \/ (\E b \in Bookings : Going(b))

CreditsSpec == CreditsInit /\ [][CreditsNext]_creditVars

----------------------------------------------------------------------------
(* Nobody spends credit they do not have, however many bookings and        *)
(* withdrawals spend at once ("two bookings can't spend the same credit"). *)
NeverOverspent == \A u \in People : balance[u] >= 0

(* A person's credit is what the rows account for: one gift for being      *)
(* invited and one for each rewarded invitation, within the cap, less what *)
(* their bookings keep and what was taken away.                            *)
Given(u) ==
  Gift * (Cardinality(Rewarded(u)) + IF referral[u] = NoReferral THEN 0 ELSE 1)

KeptOf(row, u) == IF row.borrower = u THEN row.held - row.given ELSE 0

Kept(u) == SumFunction([b \in Bookings |-> KeptOf(booking[b], u)])

WithinCap == \A u \in People : Cardinality(Rewarded(u)) <= MaxRewards

CreditIsAccountedFor ==
  /\ \A u \in People : balance[u] = Given(u) - Kept(u) - taken[u]
  /\ WithinCap

(* A booking that was never paid for gives all of its credit back, and     *)
(* none gives back more than it held.                                      *)
CreditComesBack ==
  \A b \in Bookings :
    /\ booking[b].given <= booking[b].held
    /\ booking[b].status = "CLOSED" => booking[b].given = booking[b].held

=============================================================================

------------------------------ MODULE Bookings ------------------------------
(***************************************************************************)
(* The bookings of one listing: requests that race each other for the same *)
(* days, the state machine every change goes through, and the timers that  *)
(* close what nobody answered (bookings.service.ts, booking-state-         *)
(* machine.ts, booking-queue.ts, booking-worker.ts).                       *)
(*                                                                         *)
(* Each database transaction is one action, and its `now` is the moment it *)
(* commits.  What the code does between two transactions (the checks of a  *)
(* request, the status an expiry job read before it locks the row) is in   *)
(* asking, checks and sweep, so that anything may happen in between.  A    *)
(* crash loses all of those and any delayed job may be lost.  What else a  *)
(* step of a rental does (codes, photos, claims) is left out: here it only *)
(* moves the status.                                                       *)
(***************************************************************************)
EXTENDS BookingRules, FiniteSets

CONSTANTS
  Ids,            \* booking ids
  Borrowers,      \* people who ask for the listing
  Calls,          \* bound: requests in flight at once
  None,           \* no borrower, and no booking
  FirstDays,      \* first and last days people ask for
  MaxDays,        \* the listing's longest rental
  QueueUp,        \* whether Redis takes a delayed job: {TRUE}, {FALSE} or BOOLEAN
  Concurrency,    \* jobs the worker runs at once
  MaxTime,        \* bound: the clock stops here
  MaxRestarts      \* bound: restarts of the API

ASSUME BookingsAssumption ==
  /\ None \notin Borrowers \cup Ids
  /\ FirstDays \subseteq Nat
  /\ MaxDays \in Nat \ {0}
  /\ QueueUp \in (SUBSET BOOLEAN) \ {{}}
  /\ Concurrency \in Nat \ {0}
  /\ MaxTime \in Nat
  /\ MaxRestarts \in Nat

VARIABLES
  clock,          \* now
  asksDocs,       \* the listing asks for documents (the lender may edit this)
  booking,        \* the bookings table: id -> row
  asking,         \* call -> the request that passed its checks, not inserted yet
  jobs,           \* delayed expiry jobs in Redis
  checks,         \* expiry checks that have read the status but not locked the row
  sweep,          \* the sweep that is running: its time and the ids left to look at
  crashes

vars == <<clock, asksDocs, booking, asking, jobs, checks, sweep, crashes>>

Ranges == {r \in FirstDays \X FirstDays : r[1] <= r[2] /\ r[2] - r[1] < MaxDays}

NoRow == [status |-> "NONE", borrower |-> None, startsOn |-> 0, endsOn |-> 0,
          docsSubmitted |-> FALSE, returnedAt |-> NoTime, expiresAt |-> NoTime]

NotAsking == [source |-> "NONE", borrower |-> None, startsOn |-> 0, endsOn |-> 0]

Idle == [now |-> NoTime, due |-> {}]

Overlap(a, b) == a.startsOn <= b.endsOn /\ b.startsOn <= a.endsOn

HeldRows == {i \in Ids : booking[i].status \in Held}

Today == clock \div Day         \* todayUtc()

----------------------------------------------------------------------------
(* The database: what it refuses to commit.                                *)

(* bookings_no_overlap and bookings_one_open, for a new value of row i. *)
NoOverlapWhilePaid(i, row) == \* mutant: dates held from payment, not from acceptance
  row.status \in Held \cap Paid =>
    \A j \in Ids \ {i} : booking[j].status \in Held \cap Paid => ~Overlap(row, booking[j])

NoOverlap(i, row) ==
  row.status \in Held =>
    \A j \in Ids \ {i} : booking[j].status \in Held => ~Overlap(row, booking[j])

OneOpen(i, row) ==
  row.status \in Open =>
    \A j \in Ids \ {i} : booking[j].status \in Open => booking[j].borrower # row.borrower

(* A committed row, and the job afterChange then schedules for its         *)
(* deadline.  scheduleExpiry never throws and a crash may come first, so   *)
(* the job may also never exist.                                           *)
JobsFor(i, row) ==
  IF row.expiresAt = NoTime THEN {} ELSE {[id |-> i, at |-> row.expiresAt]}

Commit(i, row) ==
  /\ NoOverlap(i, row)
  /\ OneOpen(i, row)
  /\ booking' = [booking EXCEPT ![i] = row]
  /\ \E up \in QueueUp : jobs' = IF up THEN jobs \cup JobsFor(i, row) ELSE jobs

(* BookingStateMachine.transition without what a single step patches. *)
Moved(i, action) ==
  LET to == Target(action, asksDocs)
  IN  [booking[i] EXCEPT !.status = to,
                         !.expiresAt = DeadlineFor(to, booking[i].startsOn, clock)]

Transition(i, action, party) ==
  /\ Permits(action, party, booking[i], clock)
  /\ Commit(i, Moved(i, action))
  /\ UNCHANGED <<clock, asksDocs, asking, checks, sweep, crashes>>

----------------------------------------------------------------------------
(* Asking: the checks read the table, the insert comes later.              *)

AskFrom(source, c, u, r) ==
  /\ asking[c] = NotAsking
  /\ r[1] >= Today
  /\ \A i \in HeldRows : ~Overlap([startsOn |-> r[1], endsOn |-> r[2]], booking[i])
  /\ \A i \in Ids : booking[i].status \in Open => booking[i].borrower # u
  /\ asking' = [asking EXCEPT ![c] = [source |-> source, borrower |-> u,
                                     startsOn |-> r[1], endsOn |-> r[2]]]
  /\ UNCHANGED <<clock, asksDocs, booking, jobs, checks, sweep, crashes>>

(* "Request to book", and accepting a chat offer, up to the transaction. *)
Ask(c, u, r) == \E source \in {"REQUEST", "OFFER"} : AskFrom(source, c, u, r)

NewRow(a, borrower) ==
  LET to == IF a.source = "REQUEST" THEN "REQUESTED" ELSE Target("accept", asksDocs)
  IN  [status |-> to, borrower |-> borrower, startsOn |-> a.startsOn, endsOn |-> a.endsOn,
       docsSubmitted |-> FALSE, returnedAt |-> NoTime,
       expiresAt |-> DeadlineFor(to, a.startsOn, clock)]

Inserted(c) == NewRow(asking[c], asking[c].borrower)

(* booking.create, with what the database refuses left to GiveUp. *)
Insert(c, i) ==
  /\ asking[c] # NotAsking
  /\ booking[i] = NoRow
  /\ Commit(i, Inserted(c))
  /\ asking' = [asking EXCEPT ![c] = NotAsking]
  /\ UNCHANGED <<clock, asksDocs, checks, sweep, crashes>>

(* The transaction fails: a constraint refuses the row (mapBookingError),   *)
(* the offer turns out to be taken (Deals), or the database is away.       *)
GiveUp(c) ==
  /\ asking[c] # NotAsking
  /\ asking' = [asking EXCEPT ![c] = NotAsking]
  /\ UNCHANGED <<clock, asksDocs, booking, jobs, checks, sweep, crashes>>

----------------------------------------------------------------------------
(* The two people, Nivra and the payment *)

Accept(i) == Transition(i, "accept", "LENDER")

Decline(i) == Transition(i, "decline", "LENDER")

Cancel(i) == \E party \in {"BORROWER", "LENDER", "ADMIN"} : Transition(i, "cancel", party)

(* The shares created are those the listing asks for now: none, if the     *)
(* lender has stopped asking.                                              *)
SubmitDocs(i) ==
  /\ Permits("submitDocs", "BORROWER", booking[i], clock)
  /\ Commit(i, [Moved(i, "submitDocs") EXCEPT !.docsSubmitted = asksDocs])
  /\ UNCHANGED <<clock, asksDocs, asking, checks, sweep, crashes>>

(* Reviewed shares are APPROVED or REJECTED: no longer SUBMITTED. *)
ReviewDocs(i) ==
  /\ \E action \in {"approveDocs", "rejectDocs"} :
       /\ Permits(action, "LENDER", booking[i], clock)
       /\ Commit(i, [Moved(i, action) EXCEPT !.docsSubmitted = FALSE])
  /\ UNCHANGED <<clock, asksDocs, asking, checks, sweep, crashes>>

ConfirmPayment(i) == Transition(i, "confirmPayment", "SYSTEM")

HandOver(i) == Transition(i, "handOver", "LENDER")

MarkReturned(i) ==
  /\ Permits("markReturned", "BORROWER", booking[i], clock)
  /\ Commit(i, [Moved(i, "markReturned") EXCEPT !.returnedAt = clock])
  /\ UNCHANGED <<clock, asksDocs, asking, checks, sweep, crashes>>

NoShow(i) == Transition(i, "noShow", "LENDER")

OpenDispute(i) == Transition(i, "openDispute", "LENDER")

ResolveDispute(i) == Transition(i, "resolveDispute", "ADMIN")

SetRequiredDocs ==
  /\ asksDocs' = ~asksDocs
  /\ UNCHANGED <<clock, booking, asking, jobs, checks, sweep, crashes>>

----------------------------------------------------------------------------
(* Timers.  expireIfDue reads the status without a lock and picks what to  *)
(* do; the transition re-checks the locked row against the same `now`.      *)

CheckOf(i, now) ==
  [id |-> i, now |-> now,
   action |-> IF booking[i].status = "RETURNED" THEN "complete" ELSE "expire"]

RunJob(j) ==
  /\ j \in jobs
  /\ Cardinality(checks) < Concurrency
  /\ j.at <= clock
  /\ jobs' = jobs \ {j}
  /\ checks' = checks \cup {CheckOf(j.id, clock)}
  /\ UNCHANGED <<clock, asksDocs, booking, asking, sweep, crashes>>

DueUnlessReturned(now) ==     \* mutant: the sweep forgets returned bookings
  {i \in Ids : /\ booking[i].status \in Expirable
               /\ booking[i].expiresAt # NoTime /\ booking[i].expiresAt <= now}

DueUnlessUnpaid(now) ==       \* mutant: the sweep forgets the payment step
  {i \in Ids : /\ booking[i].status \in {"REQUESTED", "AWAITING_DOCS", "RETURNED"}
               /\ booking[i].expiresAt # NoTime /\ booking[i].expiresAt <= now}

Due(now) ==
  {i \in Ids : /\ booking[i].status \in Expirable \cup {"RETURNED"}
               /\ booking[i].expiresAt # NoTime /\ booking[i].expiresAt <= now}

StartSweep ==
  /\ sweep = Idle
  /\ Due(clock) # {}
  /\ sweep' = [now |-> clock, due |-> Due(clock)]
  /\ UNCHANGED <<clock, asksDocs, booking, asking, jobs, checks, crashes>>

SweepOne(i) ==
  /\ i \in sweep.due
  /\ Cardinality(checks) < Concurrency
  /\ checks' = checks \cup {CheckOf(i, sweep.now)}
  /\ sweep' = IF sweep.due = {i} THEN Idle ELSE [sweep EXCEPT !.due = @ \ {i}]
  /\ UNCHANGED <<clock, asksDocs, booking, asking, jobs, crashes>>

(* onlyIf, on the locked row. *)
StillInStep(c) ==             \* mutant: the deadline is not read again
  booking[c.id].status \in (IF c.action = "complete" THEN {"RETURNED"} ELSE Expirable)

StillDue(c) ==
  /\ booking[c.id].status \in (IF c.action = "complete" THEN {"RETURNED"} ELSE Expirable)
  /\ booking[c.id].expiresAt # NoTime
  /\ booking[c.id].expiresAt <= c.now

ApplyCheck(c) ==
  /\ c \in checks
  /\ checks' = checks \ {c}
  /\ IF StillDue(c)
     THEN Commit(c.id, Moved(c.id, c.action))
     ELSE UNCHANGED <<booking, jobs>>
  /\ UNCHANGED <<clock, asksDocs, asking, sweep, crashes>>

----------------------------------------------------------------------------
(* The world *)

(* A restart drops whatever was between two transactions. *)
Crash ==
  /\ crashes < MaxRestarts
  /\ crashes' = crashes + 1
  /\ asking' = [c \in Calls |-> NotAsking]
  /\ checks' = {}
  /\ sweep' = Idle
  /\ UNCHANGED <<clock, asksDocs, booking, jobs>>

Tick ==
  /\ clock < MaxTime
  /\ clock' = clock + 1
  /\ UNCHANGED <<asksDocs, booking, asking, jobs, checks, sweep, crashes>>

----------------------------------------------------------------------------

Init ==
  /\ clock = 0
  /\ asksDocs \in BOOLEAN
  /\ booking = [i \in Ids |-> NoRow]
  /\ asking = [c \in Calls |-> NotAsking]
  /\ jobs = {}
  /\ checks = {}
  /\ sweep = Idle
  /\ crashes = 0

People(i) ==
  \/ Accept(i) \/ Decline(i) \/ Cancel(i) \/ SubmitDocs(i) \/ ReviewDocs(i)
  \/ ConfirmPayment(i) \/ HandOver(i) \/ MarkReturned(i) \/ NoShow(i)
  \/ OpenDispute(i) \/ ResolveDispute(i)

Next ==
  \/ \E c \in Calls, u \in Borrowers, r \in Ranges : Ask(c, u, r)
  \/ \E c \in Calls, i \in Ids : Insert(c, i)
  \/ \E c \in Calls : GiveUp(c)
  \/ \E i \in Ids : People(i)
  \/ SetRequiredDocs
  \/ \E j \in jobs : RunJob(j)
  \/ StartSweep
  \/ \E i \in Ids : SweepOne(i)
  \/ \E c \in checks : ApplyCheck(c)
  \/ Crash
  \/ Tick

(* The sweep is a repeating job on a worker that restarts: it keeps        *)
(* running, works through what it found, and time passes.  Nobody is       *)
(* obliged to answer, to pay or to return anything, and no delayed job is  *)
(* relied upon.                                                            *)
Fairness ==
  /\ WF_vars(Tick)
  /\ WF_vars(StartSweep)
  /\ \A i \in Ids : WF_vars(SweepOne(i))
  /\ \A i \in Ids : WF_vars(\E c \in checks : c.id = i /\ ApplyCheck(c))

Spec == Init /\ [][Next]_vars

FairSpec == Spec /\ Fairness

----------------------------------------------------------------------------
(* Properties *)

Row == [status : Statuses, borrower : Borrowers, startsOn : FirstDays, endsOn : FirstDays,
        docsSubmitted : BOOLEAN, returnedAt : Nat \cup {NoTime},
        expiresAt : Int]

Asked == [source : {"REQUEST", "OFFER"}, borrower : Borrowers,
          startsOn : FirstDays, endsOn : FirstDays]

(* What lives between two transactions. *)
InFlightOK ==
  /\ clock \in Nat
  /\ asksDocs \in BOOLEAN
  /\ asking \in [Calls -> Asked \cup {NotAsking}]
  /\ checks \subseteq [id : Ids, now : Nat, action : {"expire", "complete"}]
  /\ sweep \in [now : Nat, due : SUBSET Ids] \cup {Idle}
  /\ crashes \in 0..MaxRestarts

TypeOK ==
  /\ InFlightOK
  /\ booking \in [Ids -> Row \cup {NoRow}]
  /\ jobs \subseteq [id : Ids, at : Int]

(* Two bookings whose dates are held never share a day, whatever requests, *)
(* offers, acceptances and document reviews race (bookings_no_overlap).    *)
NoDoubleBooking ==
  \A i, j \in HeldRows : i # j => ~Overlap(booking[i], booking[j])

(* A borrower has at most one booking in progress here, even though the    *)
(* check before the insert reads an older table (bookings_one_open).       *)
OneOpenPerBorrower ==
  \A i, j \in Ids :
    i # j /\ booking[i].status \in Open /\ booking[j].status \in Open =>
      booking[i].borrower # booking[j].borrower

(* A booking waits with a deadline exactly in the steps that time out, so  *)
(* nothing waits for ever and nothing paid or closed is ever due.          *)
TimedStepsHaveDeadlines ==
  \A i \in Ids :
    booking[i].expiresAt # NoTime <=> booking[i].status \in Expirable \cup {"RETURNED"}

(* The last moment to be paid is fixed by the start date: however often    *)
(* the step is renewed, the deadline stays within lastChance.              *)
DeadlineWithinLastChance ==
  \A i \in Ids :
    booking[i].status \in Expirable => booking[i].expiresAt <= LastChance(booking[i].startsOn)

(* A timer closes a booking only once the deadline it has at that moment   *)
(* has passed: a job or sweep that read an earlier step, or an earlier     *)
(* deadline, changes nothing (booking-queue.ts: "a stale or duplicate job  *)
(* is harmless").                                                          *)
ClosedByTimer(i) ==
  booking'[i].status # booking[i].status /\ booking'[i].status = "EXPIRED"

OnlyOverdueExpire ==
  [][\A i \in Ids : ClosedByTimer(i) =>
       booking[i].expiresAt # NoTime /\ booking[i].expiresAt <= clock]_vars

(* The lender always has the whole claim window: without a claim, a return *)
(* is completed no earlier than 24 hours after it.                         *)
FullClaimWindow ==
  [][\A i \in Ids :
       booking[i].status = "RETURNED" /\ booking'[i].status = "COMPLETED" =>
         clock >= ClaimUntil(booking[i].returnedAt)]_vars

(* Even if every delayed job is lost, a booking nobody answers or pays     *)
(* does not wait for ever, and a return is eventually settled.             *)
Waits(i) == booking[i].status \in Expirable

UnansweredCloses == \A i \in Ids : Waits(i) ~> ~Waits(i)

Overdue(i) == booking[i].status = "RETURNED" /\ booking[i].expiresAt <= clock

ReturnsSettle == \A i \in Ids : Overdue(i) ~> booking[i].status # "RETURNED"

(* The bookings implement the calendar: day d is held by the booking in a  *)
(* held status that covers it.                                             *)
Covers(i, d) ==
  /\ booking[i].status \in Held
  /\ booking[i].startsOn <= d /\ d <= booking[i].endsOn

HolderOf ==
  [d \in FirstDays |-> IF \E i \in Ids : Covers(i, d)
                      THEN CHOOSE i \in Ids : Covers(i, d) ELSE None]

ListingCalendar == INSTANCE Calendar WITH
  Days <- FirstDays, Holders <- Ids, Nobody <- None, holder <- HolderOf

CalendarKept == ListingCalendar!Spec

=============================================================================

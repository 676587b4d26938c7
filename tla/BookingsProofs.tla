--------------------------- MODULE BookingsProofs ---------------------------
(***************************************************************************)
(* Theorems about Bookings, Deals and Payouts.                             *)
(*                                                                         *)
(* For Bookings and Deals they hold for every set of bookings, borrowers   *)
(* and days, every length of the windows and every bound.                  *)
(*                                                                         *)
(* Bookings: the inductive invariant is IInv: types, the deadline rules    *)
(* and the two database constraints.  Every step either leaves the table   *)
(* alone or commits one row (lemma NextKeepsTable), so the work is done    *)
(* once, in CommitKeepsTable.  TimedInv adds what a check has read to the  *)
(* clock; the table implements Calendar.                                   *)
(*                                                                         *)
(* Deals: with offers answered in the chats, the bookings still take only  *)
(* the steps of Bookings, so its theorems hold here too; and whatever two  *)
(* answers have read, an offer becomes one booking and no chat shows a     *)
(* deal that is not one.                                                   *)
(*                                                                         *)
(* Payouts, of one booking: the lender gets no money early, and the ledger *)
(* follows what Razorpay did, for any number of calls, sweeps, transfers,  *)
(* retries and failures; the inductive invariant is PayoutsInv.            *)
(***************************************************************************)
EXTENDS Deals, Payouts, SumsAndLists

(* A committed row is well formed: typed, with a deadline exactly when its *)
(* step times out, and before payment never past its last chance.          *)
TimedRow(row) ==
  /\ row.expiresAt # NoTime <=> row.status \in Expirable \cup {"RETURNED"}
  /\ row.status \in Expirable => row.expiresAt <= LastChance(row.startsOn)

GoodRow(row) == row \in Row /\ TimedRow(row)

IInv ==
  /\ TypeOK
  /\ NoDoubleBooking
  /\ OneOpenPerBorrower
  /\ TimedStepsHaveDeadlines
  /\ DeadlineWithinLastChance

(* The part of IInv that is about the bookings table and its jobs. *)
TableInv ==
  /\ booking \in [Ids -> Row \cup {NoRow}]
  /\ jobs \subseteq [id : Ids, at : Int]
  /\ NoDoubleBooking
  /\ OneOpenPerBorrower
  /\ TimedStepsHaveDeadlines
  /\ DeadlineWithinLastChance

Actions == {"accept", "decline", "cancel", "submitDocs", "approveDocs", "rejectDocs",
            "confirmPayment", "expire", "handOver", "markReturned", "noShow",
            "openDispute", "complete", "resolveDispute"}

USE DEF NoTime

(* deadlineFor yields a time, or none exactly outside the timed steps, and *)
(* before payment one within the last chance.                              *)
LEMMA DeadlineForFacts ==
  ASSUME NEW st \in Statuses, NEW startsOn \in Nat, NEW now \in Nat
  PROVE  /\ DeadlineFor(st, startsOn, now) \in Int
         /\ DeadlineFor(st, startsOn, now) # NoTime
              <=> st \in Expirable \cup {"RETURNED"}
         /\ st \in Expirable =>
              DeadlineFor(st, startsOn, now) <= LastChance(startsOn)
<1> USE TimeAssumption
<1>1. LastChance(startsOn) \in Nat
  <2>1. \A a, b \in Nat : a * b \in Nat
    OBVIOUS
  <2> QED BY <2>1 DEF LastChance
<1>2. CASE st = "RETURNED"
  BY <1>2 DEF DeadlineFor, ClaimUntil, ClaimWindow, Expirable
<1>3. CASE st \in Expirable
  <2>1. Window(st) \in Nat
    BY <1>3 DEF Window, Expirable
  <2>2. DeadlineFor(st, startsOn, now)
          = Earlier(now + Window(st), LastChance(startsOn))
    BY <1>3 DEF DeadlineFor, Expirable
  <2>3. /\ Earlier(now + Window(st), LastChance(startsOn)) \in Nat
        /\ Earlier(now + Window(st), LastChance(startsOn)) <= LastChance(startsOn)
    BY <1>1, <2>1 DEF Earlier
  <2> QED BY <1>3, <2>2, <2>3
<1>4. CASE st \notin Expirable \cup {"RETURNED"}
  <2>1. DeadlineFor(st, startsOn, now) = NoTime
    BY <1>4 DEF DeadlineFor, Expirable
  <2> QED BY <1>4, <2>1
<1> QED BY <1>2, <1>3, <1>4

(* Every action leads to a status. *)
LEMMA TargetIsStatus ==
  ASSUME NEW action \in Actions, NEW asks \in BOOLEAN
  PROVE  Target(action, asks) \in Statuses
BY DEF Target, Actions, Statuses, Open, Closed

(* Only an existing booking may be acted on, and by one of the actions. *)
LEMMA PermitsFacts ==
  ASSUME NEW action, NEW party, NEW b, NEW now, Permits(action, party, b, now)
  PROVE  action \in Actions /\ b.status # "NONE"
BY DEF Permits, MayCancel, MayDispute, Actions, Open, Rental, Expirable

(* Moving an existing booking gives a good row. *)
LEMMA MovedIsGood ==
  ASSUME IInv, NEW i \in Ids, NEW action \in Actions, booking[i].status # "NONE"
  PROVE  GoodRow(Moved(i, action))
<1> DEFINE to == Target(action, asksDocs)
           at == DeadlineFor(to, booking[i].startsOn, clock)
<1>1. booking[i] \in Row
  BY DEF IInv, TypeOK, NoRow
<1>2. booking[i].startsOn \in Nat /\ clock \in Nat /\ asksDocs \in BOOLEAN
  BY <1>1, BookingsAssumption DEF IInv, TypeOK, InFlightOK, Row
<1>3. to \in Statuses
  BY <1>2, TargetIsStatus
<1>4. /\ at \in Int
      /\ at # NoTime <=> to \in Expirable \cup {"RETURNED"}
      /\ to \in Expirable => at <= LastChance(booking[i].startsOn)
  BY <1>2, <1>3, DeadlineForFacts
<1> HIDE DEF to, at
<1>5. Moved(i, action) = [booking[i] EXCEPT !.status = to, !.expiresAt = at]
  BY DEF Moved, to, at
<1>6. /\ Moved(i, action) \in Row
      /\ Moved(i, action).status = to
      /\ Moved(i, action).expiresAt = at
      /\ Moved(i, action).startsOn = booking[i].startsOn
  BY <1>1, <1>3, <1>4, <1>5 DEF Row
<1> QED BY <1>4, <1>6 DEF GoodRow, TimedRow

(* Committing one good row keeps the table: this is where the exclusion    *)
(* constraint and the unique index are used.                               *)
LEMMA CommitKeepsTable ==
  ASSUME IInv, NEW i \in Ids, NEW row, GoodRow(row), Commit(i, row)
  PROVE  TableInv'
<1>1. booking \in [Ids -> Row \cup {NoRow}]
  BY DEF IInv, TypeOK
<1>2. booking' = [booking EXCEPT ![i] = row]
  BY DEF Commit
<1>3. booking' \in [Ids -> Row \cup {NoRow}]
  BY <1>1, <1>2 DEF GoodRow
<1>4. booking'[i] = row /\ \A j \in Ids \ {i} : booking'[j] = booking[j]
  BY <1>1, <1>2
<1>5. (jobs \subseteq [id : Ids, at : Int])'
  <2>1. JobsFor(i, row) \subseteq [id : Ids, at : Int]
    BY DEF JobsFor, GoodRow, Row
  <2> QED BY <2>1 DEF Commit, IInv, TypeOK
<1>6. NoDoubleBooking'
  <2>1. SUFFICES ASSUME NEW j \in Ids, NEW k \in Ids, j # k,
                        booking'[j].status \in Held, booking'[k].status \in Held
                 PROVE  ~Overlap(booking'[j], booking'[k])
    BY DEF NoDoubleBooking, HeldRows
  <2>2. \A l \in Ids \ {i} : row.status \in Held /\ booking[l].status \in Held =>
          ~Overlap(row, booking[l]) /\ ~Overlap(booking[l], row)
    BY DEF Commit, NoOverlap, Overlap
  <2>3. \A l, n \in Ids \ {i} :
          l # n /\ booking[l].status \in Held /\ booking[n].status \in Held =>
            ~Overlap(booking[l], booking[n])
    BY DEF IInv, NoDoubleBooking, HeldRows
  <2> QED BY <1>4, <2>1, <2>2, <2>3
<1>7. OneOpenPerBorrower'
  <2>1. SUFFICES ASSUME NEW j \in Ids, NEW k \in Ids, j # k,
                        booking'[j].status \in Open, booking'[k].status \in Open
                 PROVE  booking'[j].borrower # booking'[k].borrower
    BY DEF OneOpenPerBorrower
  <2>2. \A l \in Ids \ {i} : row.status \in Open /\ booking[l].status \in Open =>
          booking[l].borrower # row.borrower
    BY DEF Commit, OneOpen
  <2> QED BY <1>4, <2>1, <2>2 DEF IInv, OneOpenPerBorrower
<1>8. TimedStepsHaveDeadlines'
  BY <1>4 DEF IInv, TimedStepsHaveDeadlines, GoodRow, TimedRow
<1>9. DeadlineWithinLastChance'
  BY <1>4 DEF IInv, DeadlineWithinLastChance, GoodRow, TimedRow
<1> QED BY <1>3, <1>5, <1>6, <1>7, <1>8, <1>9 DEF TableInv

(* A step that leaves bookings and jobs alone keeps the table. *)
LEMMA UnchangedTable ==
  ASSUME IInv, booking' = booking, jobs' \subseteq jobs
  PROVE  TableInv'
BY DEF IInv, TypeOK, TableInv, NoDoubleBooking, HeldRows, OneOpenPerBorrower,
       TimedStepsHaveDeadlines, DeadlineWithinLastChance

(* The generic transition, with any party. *)
LEMMA TransitionKeepsTable ==
  ASSUME IInv, NEW i \in Ids, NEW action, NEW party, Transition(i, action, party)
  PROVE  TableInv'
<1>1. action \in Actions /\ booking[i].status # "NONE"
  BY PermitsFacts DEF Transition
<1>2. GoodRow(Moved(i, action))
  BY <1>1, MovedIsGood
<1> QED BY <1>2, CommitKeepsTable DEF Transition

(* Steps that patch one more field of the row they move. *)
LEMMA PatchedIsGood ==
  ASSUME NEW row, GoodRow(row), NEW docs \in BOOLEAN, NEW at \in Nat
  PROVE  /\ GoodRow([row EXCEPT !.docsSubmitted = docs])
         /\ GoodRow([row EXCEPT !.returnedAt = at])
BY DEF GoodRow, TimedRow, Row

LEMMA PeopleKeepTable ==
  ASSUME IInv, NEW i \in Ids, People(i)
  PROVE  TableInv'
<1> USE TransitionKeepsTable
<1>0. clock \in Nat /\ asksDocs \in BOOLEAN
  BY DEF IInv, TypeOK, InFlightOK
<1>1. CASE Accept(i)          BY <1>1 DEF Accept
<1>2. CASE Decline(i)         BY <1>2 DEF Decline
<1>3. CASE Cancel(i)          BY <1>3 DEF Cancel
<1>4. CASE SubmitDocs(i)
  <2>1. GoodRow(Moved(i, "submitDocs"))
    BY <1>4, PermitsFacts, MovedIsGood DEF SubmitDocs
  <2>2. GoodRow([Moved(i, "submitDocs") EXCEPT !.docsSubmitted = asksDocs])
    BY <1>0, <2>1, PatchedIsGood
  <2> QED BY <1>4, <2>2, CommitKeepsTable DEF SubmitDocs
<1>5. CASE ReviewDocs(i)
  <2>1. PICK action \in {"approveDocs", "rejectDocs"} :
          /\ Permits(action, "LENDER", booking[i], clock)
          /\ Commit(i, [Moved(i, action) EXCEPT !.docsSubmitted = FALSE])
    BY <1>5 DEF ReviewDocs
  <2>2. GoodRow(Moved(i, action))
    BY <2>1, PermitsFacts, MovedIsGood
  <2>3. GoodRow([Moved(i, action) EXCEPT !.docsSubmitted = FALSE])
    BY <1>0, <2>2, PatchedIsGood
  <2> QED BY <2>1, <2>3, CommitKeepsTable
<1>6. CASE ConfirmPayment(i)  BY <1>6 DEF ConfirmPayment
<1>7. CASE HandOver(i)        BY <1>7 DEF HandOver
<1>8. CASE MarkReturned(i)
  <2>1. GoodRow(Moved(i, "markReturned"))
    BY <1>8, PermitsFacts, MovedIsGood DEF MarkReturned
  <2>2. GoodRow([Moved(i, "markReturned") EXCEPT !.returnedAt = clock])
    BY <1>0, <2>1, PatchedIsGood
  <2> QED BY <1>8, <2>2, CommitKeepsTable DEF MarkReturned
<1>9. CASE NoShow(i)          BY <1>9 DEF NoShow
<1>10. CASE OpenDispute(i)    BY <1>10 DEF OpenDispute
<1>11. CASE ResolveDispute(i) BY <1>11 DEF ResolveDispute
<1> QED BY <1>1, <1>2, <1>3, <1>4, <1>5, <1>6, <1>7, <1>8, <1>9, <1>10, <1>11 DEF People

(* The row an insert creates is good. *)
LEMMA InsertedIsGood ==
  ASSUME IInv, NEW c \in Calls, asking[c] # NotAsking
  PROVE  GoodRow(Inserted(c))
<1> DEFINE a  == asking[c]
           to == IF a.source = "REQUEST" THEN "REQUESTED" ELSE Target("accept", asksDocs)
           at == DeadlineFor(to, a.startsOn, clock)
<1>1. a.startsOn \in FirstDays /\ a.endsOn \in FirstDays /\ a.borrower \in Borrowers
  BY DEF IInv, TypeOK, InFlightOK, Asked
<1>2. clock \in Nat /\ asksDocs \in BOOLEAN /\ a.startsOn \in Nat
  BY <1>1, BookingsAssumption DEF IInv, TypeOK, InFlightOK
<1>3. to \in Statuses
  BY <1>2, TargetIsStatus DEF Actions, Statuses, Open
<1>4. /\ at \in Int
      /\ at # NoTime <=> to \in Expirable \cup {"RETURNED"}
      /\ to \in Expirable => at <= LastChance(a.startsOn)
  BY <1>2, <1>3, DeadlineForFacts
<1>5. Inserted(c) = [status |-> to, borrower |-> a.borrower, startsOn |-> a.startsOn,
                     endsOn |-> a.endsOn, docsSubmitted |-> FALSE,
                     returnedAt |-> NoTime, expiresAt |-> at]
  BY DEF Inserted, NewRow
<1> HIDE DEF a, to, at
<1> QED BY <1>1, <1>3, <1>4, <1>5 DEF GoodRow, TimedRow, Row

(* Every step keeps the table. *)
LEMMA NextKeepsTable ==
  ASSUME IInv, Next
  PROVE  TableInv'
<1>1. CASE \E c \in Calls, u \in Borrowers, r \in Ranges : Ask(c, u, r)
  BY <1>1, UnchangedTable DEF Ask, AskFrom
<1>2. CASE \E c \in Calls, i \in Ids : Insert(c, i)
  BY <1>2, InsertedIsGood, CommitKeepsTable DEF Insert
<1>3. CASE \E c \in Calls : GiveUp(c)
  BY <1>3, UnchangedTable DEF GiveUp
<1>4. CASE \E i \in Ids : People(i)
  BY <1>4, PeopleKeepTable
<1>5. CASE SetRequiredDocs
  BY <1>5, UnchangedTable DEF SetRequiredDocs
<1>6. CASE \E j \in jobs : RunJob(j)
  BY <1>6, UnchangedTable DEF RunJob
<1>7. CASE StartSweep
  BY <1>7, UnchangedTable DEF StartSweep
<1>8. CASE \E i \in Ids : SweepOne(i)
  BY <1>8, UnchangedTable DEF SweepOne
<1>9. CASE \E c \in checks : ApplyCheck(c)
  <2>1. PICK c \in checks : ApplyCheck(c)
    BY <1>9
  <2>2. c.id \in Ids /\ c.action \in {"expire", "complete"}
    BY DEF IInv, TypeOK, InFlightOK
  <2>3. CASE StillDue(c)
    <3>1. booking[c.id].status # "NONE" /\ c.action \in Actions
      BY <2>2, <2>3 DEF StillDue, Expirable, Actions
    <3>2. GoodRow(Moved(c.id, c.action))
      BY <2>2, <3>1, MovedIsGood
    <3> QED BY <2>1, <2>2, <2>3, <3>2, CommitKeepsTable DEF ApplyCheck
  <2>4. CASE ~StillDue(c)
    BY <2>1, <2>4, UnchangedTable DEF ApplyCheck
  <2> QED BY <2>3, <2>4
<1>10. CASE Crash
  BY <1>10, UnchangedTable DEF Crash
<1>11. CASE Tick
  BY <1>11, UnchangedTable DEF Tick
<1> QED BY <1>1, <1>2, <1>3, <1>4, <1>5, <1>6, <1>7, <1>8, <1>9, <1>10, <1>11 DEF Next

(* Every step keeps what is between two transactions well typed. *)
LEMMA NextKeepsInFlight ==
  ASSUME IInv, Next
  PROVE  InFlightOK'
<1> USE DEF IInv, TypeOK, InFlightOK
<1>1. CASE \E c \in Calls, u \in Borrowers, r \in Ranges : Ask(c, u, r)
  <2>1. PICK c \in Calls, u \in Borrowers, r \in Ranges, source \in {"REQUEST", "OFFER"} :
          AskFrom(source, c, u, r)
    BY <1>1 DEF Ask
  <2>2. r[1] \in FirstDays /\ r[2] \in FirstDays
    BY DEF Ranges
  <2> QED BY <2>1, <2>2 DEF AskFrom, Asked
<1>2. CASE \E c \in Calls, i \in Ids : Insert(c, i)
  BY <1>2 DEF Insert
<1>3. CASE \E c \in Calls : GiveUp(c)
  BY <1>3 DEF GiveUp
<1>4. CASE \E i \in Ids : People(i)
  BY <1>4 DEF People, Accept, Decline, Cancel, SubmitDocs, ReviewDocs, ConfirmPayment,
              HandOver, MarkReturned, NoShow, OpenDispute, ResolveDispute, Transition
<1>5. CASE SetRequiredDocs
  BY <1>5 DEF SetRequiredDocs
<1>6. CASE \E j \in jobs : RunJob(j)
  BY <1>6 DEF RunJob, CheckOf
<1>7. CASE StartSweep
  BY <1>7 DEF StartSweep, Due
<1>8. CASE \E i \in Ids : SweepOne(i)
  <2>1. PICK i \in Ids : SweepOne(i)
    BY <1>8
  <2>2. sweep \in [now : Nat, due : SUBSET Ids]
    BY <2>1 DEF SweepOne, Idle
  <2>3. [sweep EXCEPT !.due = @ \ {i}] \in [now : Nat, due : SUBSET Ids]
    BY <2>2
  <2> QED BY <2>1, <2>2, <2>3 DEF SweepOne, CheckOf
<1>9. CASE \E c \in checks : ApplyCheck(c)
  BY <1>9 DEF ApplyCheck
<1>10. CASE Crash
  BY <1>10, BookingsAssumption DEF Crash
<1>11. CASE Tick
  BY <1>11 DEF Tick
<1> QED BY <1>1, <1>2, <1>3, <1>4, <1>5, <1>6, <1>7, <1>8, <1>9, <1>10, <1>11 DEF Next

----------------------------------------------------------------------------
(* The initial state has it, and every step keeps it. *)
LEMMA InitIInv == Init => IInv
<1> SUFFICES ASSUME Init PROVE IInv
  OBVIOUS
<1>1. TypeOK
  BY BookingsAssumption DEF Init, TypeOK, InFlightOK
<1>2. \A i \in Ids : booking[i].status = "NONE" /\ booking[i].expiresAt = NoTime
  BY DEF Init, NoRow
<1> QED BY <1>1, <1>2 DEF IInv, NoDoubleBooking, HeldRows, OneOpenPerBorrower,
            TimedStepsHaveDeadlines, DeadlineWithinLastChance, Held, Open, Expirable

LEMMA StepIInv == IInv /\ [Next]_vars => IInv'
<1> SUFFICES ASSUME IInv, [Next]_vars PROVE IInv'
  OBVIOUS
<1>1. CASE Next
  <2>1. TableInv' /\ InFlightOK'
    BY <1>1, NextKeepsTable, NextKeepsInFlight
  <2> QED BY <2>1 DEF TableInv, IInv, TypeOK
<1>2. CASE UNCHANGED vars
  BY <1>2 DEF vars, IInv, TypeOK, InFlightOK, NoDoubleBooking, HeldRows,
     OneOpenPerBorrower, TimedStepsHaveDeadlines, DeadlineWithinLastChance
<1> QED BY <1>1, <1>2

(* The inductive invariant holds of every reachable state. *)
THEOREM InductiveInvariant == Spec => []IInv
BY InitIInv, StepIInv, PTL DEF Spec

(* Type correctness of the bookings, their jobs and what is in flight. *)
THEOREM TypeCorrect == Spec => []TypeOK
<1>1. IInv => TypeOK
  BY DEF IInv
<1> QED BY <1>1, InductiveInvariant, PTL

(* No two bookings that hold their dates ever share a day. *)
THEOREM DatesAreHeldOnce == Spec => []NoDoubleBooking
<1>1. IInv => NoDoubleBooking
  BY DEF IInv
<1> QED BY <1>1, InductiveInvariant, PTL

(* A borrower never has two bookings in progress for the listing. *)
THEOREM OneBookingInProgress == Spec => []OneOpenPerBorrower
<1>1. IInv => OneOpenPerBorrower
  BY DEF IInv
<1> QED BY <1>1, InductiveInvariant, PTL

(* A booking has a deadline exactly while its step times out, and before   *)
(* payment that deadline is within the last chance.                        *)
THEOREM DeadlinesAreSound == Spec => [](TimedStepsHaveDeadlines /\ DeadlineWithinLastChance)
<1>1. IInv => TimedStepsHaveDeadlines /\ DeadlineWithinLastChance
  BY DEF IInv
<1> QED BY <1>1, InductiveInvariant, PTL

----------------------------------------------------------------------------
(* What a step may do to a row: the timers and the calendar need more of a *)
(* step than that the row it commits is a good one.                        *)

SameDates(new, old) == new.startsOn = old.startsOn /\ new.endsOn = old.endsOn

(* A new booking, for dates that somebody asked for.                       *)
NewBooking(i, row) ==
  /\ booking[i].status = "NONE"
  /\ row.status \in Expirable
  /\ \E c \in Calls : asking[c] # NotAsking /\ SameDates(row, asking[c])

(* One that a person, or a payment, moved to its next step.                *)
ActedOn(i, row) ==
  /\ booking[i].status # "NONE"
  /\ SameDates(row, booking[i])
  /\ row.status # "EXPIRED"
  /\ booking[i].status = "RETURNED" => row.status # "COMPLETED"
  /\ row.status = "RETURNED" =>
       row.returnedAt = clock /\ row.expiresAt = ClaimUntil(row.returnedAt)

(* One that a check closed, on the deadline it has.                        *)
TimedOut(i, row) ==
  \E c \in checks :
    /\ c.id = i /\ StillDue(c)
    /\ SameDates(row, booking[i])
    /\ row.status = IF c.action = "complete" THEN "COMPLETED" ELSE "EXPIRED"

RowStep(i, row) ==
  /\ Commit(i, row)
  /\ NewBooking(i, row) \/ ActedOn(i, row) \/ TimedOut(i, row)

(* Where a permitted action of a person or a payment leads.                *)
LEMMA ActionsLead ==
  ASSUME NEW action, NEW party, NEW b, NEW now, Permits(action, party, b, now),
         action \notin {"expire", "complete"}, NEW asks \in BOOLEAN
  PROVE  /\ Target(action, asks) # "EXPIRED"
         /\ b.status = "RETURNED" => Target(action, asks) # "COMPLETED"
         /\ Target(action, asks) = "RETURNED" => action = "markReturned"
<1>1. action \in Actions
  BY PermitsFacts
<1>2. b.status = "RETURNED" => action = "openDispute"
  BY DEF Permits, MayCancel, Open, Rental, Expirable
<1> QED BY <1>1, <1>2 DEF Actions, Target

LEMMA MovedRow ==
  ASSUME IInv, NEW i \in Ids, NEW action, NEW party,
         Permits(action, party, booking[i], clock), action \notin {"expire", "complete"},
         NEW docs, NEW at
  PROVE  LET row == Moved(i, action)
         IN  /\ action # "markReturned" => /\ ActedOn(i, row)
                                           /\ ActedOn(i, [row EXCEPT !.docsSubmitted = docs])
             /\ at = clock => ActedOn(i, [row EXCEPT !.returnedAt = at])
<1> DEFINE to == Target(action, asksDocs)
           due == DeadlineFor(to, booking[i].startsOn, clock)
<1>1. booking[i].status # "NONE" /\ booking[i] \in Row
  BY PermitsFacts DEF IInv, TypeOK, NoRow
<1>2. asksDocs \in BOOLEAN
  BY DEF IInv, TypeOK, InFlightOK
<1>3. /\ to # "EXPIRED"
      /\ booking[i].status = "RETURNED" => to # "COMPLETED"
      /\ to = "RETURNED" => action = "markReturned"
  BY <1>2, ActionsLead
<1>4. to = "RETURNED" => due = ClaimUntil(clock)
  BY DEF DeadlineFor, Expirable
<1> HIDE DEF to, due
<1>5. Moved(i, action) = [booking[i] EXCEPT !.status = to, !.expiresAt = due]
  BY DEF Moved, to, due
<1> QED BY <1>1, <1>3, <1>4, <1>5 DEF ActedOn, SameDates, Row

LEMMA TransitionStep ==
  ASSUME IInv, NEW i \in Ids, NEW action, NEW party, Transition(i, action, party),
         action \notin {"expire", "complete", "markReturned"}
  PROVE  \E row : RowStep(i, row)
  BY MovedRow DEF Transition, RowStep

LEMMA PeopleStep ==
  ASSUME IInv, NEW i \in Ids, People(i)
  PROVE  \E row : RowStep(i, row)
<1> USE TransitionStep
<1>1. CASE Accept(i)          BY <1>1 DEF Accept
<1>2. CASE Decline(i)         BY <1>2 DEF Decline
<1>3. CASE Cancel(i)          BY <1>3 DEF Cancel
<1>4. CASE SubmitDocs(i)
  BY <1>4, MovedRow DEF SubmitDocs, RowStep
<1>5. CASE ReviewDocs(i)
  BY <1>5, MovedRow DEF ReviewDocs, RowStep
<1>6. CASE ConfirmPayment(i)  BY <1>6 DEF ConfirmPayment
<1>7. CASE HandOver(i)        BY <1>7 DEF HandOver
<1>8. CASE MarkReturned(i)
  BY <1>8, MovedRow DEF MarkReturned, RowStep
<1>9. CASE NoShow(i)          BY <1>9 DEF NoShow
<1>10. CASE OpenDispute(i)    BY <1>10 DEF OpenDispute
<1>11. CASE ResolveDispute(i) BY <1>11 DEF ResolveDispute
<1> QED BY <1>1, <1>2, <1>3, <1>4, <1>5, <1>6, <1>7, <1>8, <1>9, <1>10, <1>11 DEF People

(* Every step commits one row in one of those ways, or changes none.       *)
LEMMA NextRow ==
  ASSUME IInv, [Next]_vars
  PROVE  booking' = booking \/ \E i \in Ids : \E row : RowStep(i, row)
<1>1. CASE \E c \in Calls, i \in Ids : Insert(c, i)
  <2>1. PICK c \in Calls, i \in Ids : Insert(c, i)
    BY <1>1
  <2>2. asksDocs \in BOOLEAN
    BY DEF IInv, TypeOK, InFlightOK
  <2>3. /\ Inserted(c).status \in Expirable
        /\ SameDates(Inserted(c), asking[c])
    BY <2>2 DEF Inserted, NewRow, SameDates, Target, Expirable
  <2>4. booking[i].status = "NONE" /\ asking[c] # NotAsking /\ Commit(i, Inserted(c))
    BY <2>1 DEF Insert, NoRow
  <2> QED BY <2>3, <2>4 DEF RowStep, NewBooking
<1>2. CASE \E i \in Ids : People(i)
  BY <1>2, PeopleStep
<1>3. CASE \E c \in checks : ApplyCheck(c)
  <2>1. PICK c \in checks : ApplyCheck(c)
    BY <1>3
  <2>2. c.id \in Ids /\ c.action \in {"expire", "complete"}
    BY DEF IInv, TypeOK, InFlightOK
  <2>3. CASE StillDue(c)
    <3>1. booking[c.id] \in Row
      BY <2>2, <2>3 DEF IInv, TypeOK, StillDue, NoRow, Expirable
    <3>2. /\ SameDates(Moved(c.id, c.action), booking[c.id])
          /\ Moved(c.id, c.action).status = IF c.action = "complete" THEN "COMPLETED" ELSE "EXPIRED"
      BY <2>2, <3>1 DEF Moved, SameDates, Target, Row
    <3>3. Commit(c.id, Moved(c.id, c.action))
      BY <2>1, <2>3 DEF ApplyCheck
    <3> QED BY <2>2, <2>3, <3>2, <3>3 DEF RowStep, TimedOut
  <2>4. CASE ~StillDue(c)
    BY <2>1, <2>4 DEF ApplyCheck
  <2> QED BY <2>3, <2>4
<1>4. CASE \/ \E c \in Calls, u \in Borrowers, r \in Ranges : Ask(c, u, r)
           \/ \E c \in Calls : GiveUp(c)
           \/ SetRequiredDocs
           \/ \E j \in jobs : RunJob(j)
           \/ StartSweep
           \/ \E i \in Ids : SweepOne(i)
           \/ Crash
           \/ Tick
           \/ UNCHANGED vars
  BY <1>4 DEF Ask, AskFrom, GiveUp, SetRequiredDocs, RunJob, StartSweep, SweepOne, Crash,
              Tick, vars
<1> QED BY <1>1, <1>2, <1>3, <1>4 DEF Next

----------------------------------------------------------------------------
(* The timers and the dates, by an invariant of their own.                 *)

(* No check is ahead of the clock, whenever its job or its sweep began;    *)
(* a return is due exactly when its claim window ends; and the dates of a  *)
(* booking are in order, as those of the request were.                     *)
PastChecks == (\A c \in checks : c.now <= clock) /\ sweep.now <= clock

ReturnsDue ==
  \A i \in Ids : booking[i].status = "RETURNED" =>
    booking[i].expiresAt = ClaimUntil(booking[i].returnedAt)

DatesInOrder ==
  /\ \A c \in Calls : asking[c] # NotAsking => asking[c].startsOn <= asking[c].endsOn
  /\ \A i \in Ids : booking[i].status # "NONE" => booking[i].startsOn <= booking[i].endsOn

TimedInv == PastChecks /\ ReturnsDue /\ DatesInOrder

LEMMA InitTimed == Init => TimedInv
  BY DEF Init, TimedInv, PastChecks, ReturnsDue, DatesInOrder, NoRow, Idle

LEMMA StepPastChecks == IInv /\ PastChecks /\ [Next]_vars => PastChecks'
<1> SUFFICES ASSUME IInv, PastChecks, [Next]_vars
             PROVE  PastChecks'
  OBVIOUS
<1> USE DEF PastChecks
<1>0. /\ clock \in Nat
      /\ \A c \in checks : c.now \in Nat
      /\ sweep \in [now : Nat, due : SUBSET Ids] \cup {Idle}
  BY DEF IInv, TypeOK, InFlightOK
<1>1. CASE \/ \E c \in Calls, u \in Borrowers, r \in Ranges : Ask(c, u, r)
           \/ \E c \in Calls, i \in Ids : Insert(c, i)
           \/ \E c \in Calls : GiveUp(c)
           \/ SetRequiredDocs
           \/ \E c \in checks : ApplyCheck(c)
           \/ UNCHANGED vars
  BY <1>1 DEF Ask, AskFrom, Insert, GiveUp, SetRequiredDocs, ApplyCheck, vars
<1>2. CASE \E i \in Ids : People(i)
  BY <1>2 DEF People, Accept, Decline, Cancel, SubmitDocs, ReviewDocs, ConfirmPayment,
              HandOver, MarkReturned, NoShow, OpenDispute, ResolveDispute, Transition
<1>3. CASE \E j \in jobs : RunJob(j)
  BY <1>0, <1>3 DEF RunJob, CheckOf
<1>4. CASE StartSweep
  BY <1>0, <1>4 DEF StartSweep
<1>5. CASE \E i \in Ids : SweepOne(i)
  <2>1. PICK i \in Ids : SweepOne(i)
    BY <1>5
  <2>2. sweep \in [now : Nat, due : SUBSET Ids]
    BY <1>0, <2>1 DEF SweepOne, Idle
  <2>3. sweep'.now \in {sweep.now, NoTime}
    BY <2>1, <2>2 DEF SweepOne, Idle
  <2>4. clock' = clock /\ \A c \in checks' : c \in checks \/ c.now = sweep.now
    BY <2>1 DEF SweepOne, CheckOf
  <2> QED BY <1>0, <2>2, <2>3, <2>4
<1>6. CASE Crash
  BY <1>0, <1>6 DEF Crash, Idle
<1>7. CASE Tick
  <2>1. sweep.now \in Int
    BY <1>0 DEF Idle
  <2> QED BY <1>0, <1>7, <2>1 DEF Tick
<1> QED BY <1>1, <1>2, <1>3, <1>4, <1>5, <1>6, <1>7 DEF Next

LEMMA StepReturnsDue == IInv /\ ReturnsDue /\ [Next]_vars => ReturnsDue'
<1> SUFFICES ASSUME IInv, ReturnsDue, [Next]_vars,
                    NEW i \in Ids, booking'[i].status = "RETURNED"
             PROVE  booking'[i].expiresAt = ClaimUntil(booking'[i].returnedAt)
  BY DEF ReturnsDue
<1>1. CASE booking' = booking
  BY <1>1 DEF ReturnsDue
<1>2. CASE \E j \in Ids : \E row : RowStep(j, row)
  <2>1. PICK j \in Ids : \E row : RowStep(j, row)
    BY <1>2
  <2>2. PICK row : RowStep(j, row)
    BY <2>1
  <2>3. booking'[i] = IF i = j THEN row ELSE booking[i]
    BY <2>2 DEF RowStep, Commit, IInv, TypeOK
  <2>4. row.status = "RETURNED" => row.expiresAt = ClaimUntil(row.returnedAt)
    BY <2>2 DEF RowStep, NewBooking, ActedOn, TimedOut, Expirable
  <2> QED BY <2>3, <2>4 DEF ReturnsDue
<1> QED BY <1>1, <1>2, NextRow

(* A request that is on its way was made for dates in order.               *)
LEMMA AskedInOrder ==
  ASSUME IInv, DatesInOrder, [Next]_vars, NEW c \in Calls, asking'[c] # NotAsking
  PROVE  asking'[c].startsOn <= asking'[c].endsOn
<1>1. CASE asking'[c] = asking[c]
  BY <1>1 DEF DatesInOrder
<1>2. CASE asking'[c] # asking[c]
  <2>1. asking \in [Calls -> Asked \cup {NotAsking}]
    BY DEF IInv, TypeOK, InFlightOK
  <2>2. CASE \E d \in Calls, u \in Borrowers, r \in Ranges : Ask(d, u, r)
    <3>1. PICK d \in Calls, u \in Borrowers, r \in Ranges, source \in {"REQUEST", "OFFER"} :
            AskFrom(source, d, u, r)
      BY <2>2 DEF Ask
    <3>2. asking' = [asking EXCEPT ![d] = [source |-> source, borrower |-> u,
                                           startsOn |-> r[1], endsOn |-> r[2]]]
      BY <3>1 DEF AskFrom
    <3>3. asking'[c] = [source |-> source, borrower |-> u, startsOn |-> r[1], endsOn |-> r[2]]
      BY <1>2, <2>1, <3>2
    <3>4. r[1] <= r[2]
      BY DEF Ranges
    <3> QED BY <3>3, <3>4
  <2>3. CASE \/ \E d \in Calls, i \in Ids : Insert(d, i)
             \/ \E d \in Calls : GiveUp(d)
             \/ Crash
    BY <1>2, <2>1, <2>3 DEF Insert, GiveUp, Crash
  <2>4. CASE \/ \E i \in Ids : People(i)
             \/ SetRequiredDocs
             \/ \E j \in jobs : RunJob(j)
             \/ StartSweep
             \/ \E i \in Ids : SweepOne(i)
             \/ \E d \in checks : ApplyCheck(d)
             \/ Tick
             \/ UNCHANGED vars
    BY <1>2, <2>4 DEF People, Accept, Decline, Cancel, SubmitDocs, ReviewDocs, ConfirmPayment,
         HandOver, MarkReturned, NoShow, OpenDispute, ResolveDispute, Transition,
         SetRequiredDocs, RunJob, StartSweep, SweepOne, ApplyCheck, Tick, vars
  <2> QED BY <2>2, <2>3, <2>4 DEF Next
<1> QED BY <1>1, <1>2

LEMMA StepDatesInOrder == IInv /\ DatesInOrder /\ [Next]_vars => DatesInOrder'
<1> SUFFICES ASSUME IInv, DatesInOrder, [Next]_vars
             PROVE  DatesInOrder'
  OBVIOUS
<1>1. ASSUME NEW i \in Ids, booking'[i].status # "NONE"
      PROVE  booking'[i].startsOn <= booking'[i].endsOn
  <2>1. CASE booking' = booking
    BY <1>1, <2>1 DEF DatesInOrder
  <2>2. CASE \E j \in Ids : \E row : RowStep(j, row)
    <3>1. PICK j \in Ids : \E row : RowStep(j, row)
      BY <2>2
    <3>2. PICK row : RowStep(j, row)
      BY <3>1
    <3>3. booking'[i] = IF i = j THEN row ELSE booking[i]
      BY <3>2 DEF RowStep, Commit, IInv, TypeOK
    <3>4. row.startsOn <= row.endsOn
      <4>1. CASE NewBooking(j, row)
        BY <4>1 DEF NewBooking, SameDates, DatesInOrder
      <4>2. CASE ActedOn(j, row)
        BY <4>2 DEF ActedOn, SameDates, DatesInOrder
      <4>3. CASE TimedOut(j, row)
        <5>1. booking[j].status # "NONE"
          BY <4>3 DEF TimedOut, StillDue, Expirable
        <5> QED BY <4>3, <5>1 DEF TimedOut, SameDates, DatesInOrder
      <4> QED BY <3>2, <4>1, <4>2, <4>3 DEF RowStep
    <3> QED BY <1>1, <3>3, <3>4 DEF DatesInOrder
  <2> QED BY <2>1, <2>2, NextRow
<1> QED BY <1>1, AskedInOrder DEF DatesInOrder

LEMMA TimedAlways == Spec => [](IInv /\ TimedInv)
<1>1. IInv /\ TimedInv /\ [Next]_vars => TimedInv'
  BY StepPastChecks, StepReturnsDue, StepDatesInOrder DEF TimedInv
<1> QED BY <1>1, InitTimed, InductiveInvariant, StepIInv, PTL DEF Spec

(* A job or a sweep that read an earlier step, or an earlier deadline,     *)
(* never closes a booking that is not overdue when it does                 *)
(* (expireIfDue: onlyIf on the locked row).                                *)
THEOREM NothingExpiresEarly == Spec => OnlyOverdueExpire
<1>1. IInv /\ TimedInv /\ [Next]_vars =>
        \A i \in Ids : ClosedByTimer(i) =>
          booking[i].expiresAt # NoTime /\ booking[i].expiresAt <= clock
  <2> SUFFICES ASSUME IInv, TimedInv, [Next]_vars, NEW i \in Ids, ClosedByTimer(i)
               PROVE  booking[i].expiresAt # NoTime /\ booking[i].expiresAt <= clock
    OBVIOUS
  <2>1. PICK j \in Ids : \E row : RowStep(j, row)
    BY NextRow DEF ClosedByTimer
  <2>2. PICK row : RowStep(j, row)
    BY <2>1
  <2>3. booking'[i] = IF i = j THEN row ELSE booking[i]
    BY <2>2 DEF RowStep, Commit, IInv, TypeOK
  <2>4. i = j /\ row.status = "EXPIRED"
    BY <2>3 DEF ClosedByTimer
  <2>5. TimedOut(i, row)
    BY <2>2, <2>4 DEF RowStep, NewBooking, ActedOn, Expirable
  <2>6. PICK c \in checks : c.id = i /\ StillDue(c)
    BY <2>5 DEF TimedOut
  <2>7. c.now \in Nat /\ c.now <= clock /\ clock \in Nat
    BY DEF IInv, TypeOK, InFlightOK, TimedInv, PastChecks
  <2>8. booking[i].expiresAt \in Int
    BY <2>6 DEF IInv, TypeOK, Row, NoRow, StillDue
  <2> QED BY <2>6, <2>7, <2>8 DEF StillDue
<1> QED BY <1>1, TimedAlways, PTL DEF Spec, OnlyOverdueExpire

(* The lender has the whole claim window: a return that nobody disputes    *)
(* completes by a check that finds its deadline, the end of the window,    *)
(* passed (expireIfDue, complete).                                         *)
THEOREM WindowStaysOpen == Spec => FullClaimWindow
<1>1. IInv /\ TimedInv /\ [Next]_vars =>
        \A i \in Ids : booking[i].status = "RETURNED" /\ booking'[i].status = "COMPLETED" =>
          clock >= ClaimUntil(booking[i].returnedAt)
  <2> SUFFICES ASSUME IInv, TimedInv, [Next]_vars, NEW i \in Ids,
                      booking[i].status = "RETURNED", booking'[i].status = "COMPLETED"
               PROVE  clock >= ClaimUntil(booking[i].returnedAt)
    OBVIOUS
  <2>1. PICK j \in Ids : \E row : RowStep(j, row)
    BY NextRow
  <2>2. PICK row : RowStep(j, row)
    BY <2>1
  <2>3. booking'[i] = IF i = j THEN row ELSE booking[i]
    BY <2>2 DEF RowStep, Commit, IInv, TypeOK
  <2>4. i = j /\ row.status = "COMPLETED"
    BY <2>3
  <2>5. TimedOut(i, row)
    BY <2>2, <2>4 DEF RowStep, NewBooking, ActedOn
  <2>6. PICK c \in checks : c.id = i /\ StillDue(c)
    BY <2>5 DEF TimedOut
  <2>7. c.now \in Nat /\ c.now <= clock /\ clock \in Nat
    BY DEF IInv, TypeOK, InFlightOK, TimedInv, PastChecks
  <2>8. booking[i].expiresAt \in Int /\ booking[i].expiresAt = ClaimUntil(booking[i].returnedAt)
    BY DEF IInv, TypeOK, Row, NoRow, TimedInv, ReturnsDue
  <2> QED BY <2>6, <2>7, <2>8 DEF StillDue
<1> QED BY <1>1, TimedAlways, PTL DEF Spec, FullClaimWindow

----------------------------------------------------------------------------
(* The bookings implement the calendar of Calendar.tla.                    *)

(* A day is covered by one booking at most, so the refinement mapping      *)
(* shows every booking on exactly the days it covers.                      *)
LEMMA CoversOnce ==
  ASSUME IInv, NEW d \in FirstDays, NEW i \in Ids, NEW j \in Ids, Covers(i, d), Covers(j, d)
  PROVE  i = j
<1>1. \A k \in Ids : booking[k].status \in Held =>
        booking[k].startsOn \in Nat /\ booking[k].endsOn \in Nat
  <2> SUFFICES ASSUME NEW k \in Ids, booking[k].status \in Held
               PROVE  booking[k].startsOn \in Nat /\ booking[k].endsOn \in Nat
    OBVIOUS
  <2>1. booking[k] \in Row
    BY DEF IInv, TypeOK, NoRow, Held
  <2> QED BY <2>1, BookingsAssumption DEF Row
<1>2. d \in Nat
  BY BookingsAssumption
<1>3. Overlap(booking[i], booking[j])
  BY <1>1, <1>2 DEF Covers, Overlap
<1> QED BY <1>3 DEF Covers, IInv, NoDoubleBooking, HeldRows

HolderSound ==
  \A d \in FirstDays :
    /\ \A i \in Ids : HolderOf[d] = i <=> Covers(i, d)
    /\ HolderOf[d] = None <=> \A i \in Ids : ~Covers(i, d)
    /\ HolderOf[d] \in Ids \cup {None}

LEMMA HolderIs == IInv => HolderSound
<1> SUFFICES ASSUME IInv, NEW d \in FirstDays
             PROVE  /\ \A i \in Ids : HolderOf[d] = i <=> Covers(i, d)
                    /\ HolderOf[d] = None <=> \A i \in Ids : ~Covers(i, d)
                    /\ HolderOf[d] \in Ids \cup {None}
  BY DEF HolderSound
<1>1. None \notin Ids
  BY BookingsAssumption
<1>2. CASE \E i \in Ids : Covers(i, d)
  <2>1. PICK i \in Ids : Covers(i, d)
    BY <1>2
  <2>2. PICK h : h = CHOOSE j \in Ids : Covers(j, d)
    OBVIOUS
  <2>3. h \in Ids /\ Covers(h, d)
    BY <2>1, <2>2
  <2>4. HolderOf[d] = h
    BY <1>2, <2>2 DEF HolderOf
  <2>5. \A j \in Ids : Covers(j, d) => j = h
    BY <2>3, CoversOnce
  <2> QED BY <1>1, <2>3, <2>4, <2>5
<1>3. CASE ~\E i \in Ids : Covers(i, d)
  <2>1. HolderOf[d] = None
    BY <1>3 DEF HolderOf
  <2> QED BY <1>1, <1>3, <2>1
<1> QED BY <1>2, <1>3

LEMMA HolderIsAfter == IInv' => HolderSound'
  BY HolderIs, PTL

(* What a step does to the days of the row it commits, and only to those.  *)
LEMMA CalendarStep ==
  ASSUME IInv, IInv', TimedInv, NEW i \in Ids, NEW row, RowStep(i, row)
  PROVE  [ListingCalendar!Next]_HolderOf
<1>1. booking \in [Ids -> Row \cup {NoRow}]
  BY DEF IInv, TypeOK
<1>2. booking' = [booking EXCEPT ![i] = row]
  BY DEF RowStep, Commit
<1>3. \A j \in Ids : booking'[j] = IF j = i THEN row ELSE booking[j]
  BY <1>1, <1>2
<1>4. HolderSound /\ HolderSound'
  BY HolderIs, HolderIsAfter
<1>5. DOMAIN HolderOf = FirstDays /\ DOMAIN HolderOf' = FirstDays
  BY DEF HolderOf
<1>a. HolderOf = [d \in FirstDays |-> HolderOf[d]] /\ HolderOf' = [d \in FirstDays |-> HolderOf'[d]]
  BY DEF HolderOf
<1>6. \A j \in Ids : j # i => \A d \in FirstDays : Covers(j, d)' <=> Covers(j, d)
  BY <1>3 DEF Covers
<1>7. \A d \in FirstDays :
        Covers(i, d)' <=> row.status \in Held /\ row.startsOn <= d /\ d <= row.endsOn
  BY <1>3 DEF Covers
<1>8. booking[i].status # "NONE" => SameDates(row, booking[i])
  BY DEF RowStep, NewBooking, ActedOn, TimedOut
<1>9. CASE booking[i].status \in Held /\ row.status \in Held
  <2>1. \A d \in FirstDays : Covers(i, d)' <=> Covers(i, d)
    BY <1>7, <1>8, <1>9 DEF Covers, SameDates, Held
  <2>2. \A d \in FirstDays : HolderOf'[d] = HolderOf[d]
    BY <1>4, <1>6, <2>1 DEF HolderSound
  <2> QED BY <1>a, <2>2
<1>10. CASE booking[i].status \notin Held /\ row.status \notin Held
  <2>1. \A d \in FirstDays : Covers(i, d)' <=> Covers(i, d)
    BY <1>7, <1>10 DEF Covers
  <2>2. \A d \in FirstDays : HolderOf'[d] = HolderOf[d]
    BY <1>4, <1>6, <2>1 DEF HolderSound
  <2> QED BY <1>a, <2>2
<1>11. CASE booking[i].status \in Held /\ row.status \notin Held
  <2>1. \A d \in FirstDays : ~Covers(i, d)'
    BY <1>7, <1>11
  <2>2. \A d \in FirstDays :
          HolderOf'[d] = IF HolderOf[d] = i THEN None ELSE HolderOf[d]
    BY <1>4, <1>6, <2>1 DEF HolderSound
  <2>3. booking[i].startsOn \in FirstDays /\ booking[i].startsOn <= booking[i].endsOn
    BY <1>1, <1>11 DEF TimedInv, DatesInOrder, Held, Row, NoRow
  <2>a. booking[i].startsOn \in Nat
    BY <2>3, BookingsAssumption
  <2>4. Covers(i, booking[i].startsOn)
    BY <1>11, <2>3, <2>a DEF Covers
  <2>5. HolderOf[booking[i].startsOn] = i
    BY <1>4, <2>3, <2>4 DEF HolderSound
  <2>6. ListingCalendar!Release(i)
    BY <1>5, <1>a, <2>2, <2>3, <2>5 DEF ListingCalendar!Release, ListingCalendar!DaysOf
  <2> QED BY <2>6 DEF ListingCalendar!Next
<1>12. CASE booking[i].status \notin Held /\ row.status \in Held
  <2>1. \A d \in FirstDays : ~Covers(i, d)
    BY <1>12 DEF Covers
  <2>2. row \in Row
    <3>1. booking'[i] \in Row \cup {NoRow}
      BY DEF IInv, TypeOK
    <3> QED BY <1>3, <1>12, <3>1 DEF Held, NoRow
  <2>3. row.startsOn \in FirstDays /\ row.endsOn \in FirstDays /\ row.startsOn <= row.endsOn
    <3>1. row.startsOn <= row.endsOn
      <4>1. CASE NewBooking(i, row)
        BY <4>1 DEF NewBooking, SameDates, TimedInv, DatesInOrder
      <4>2. CASE ActedOn(i, row) \/ TimedOut(i, row)
        <5>1. booking[i].status # "NONE"
          BY <4>2 DEF ActedOn, TimedOut, StillDue, Expirable
        <5> QED BY <1>8, <5>1 DEF SameDates, TimedInv, DatesInOrder
      <4> QED BY <4>1, <4>2 DEF RowStep
    <3> QED BY <2>2, <3>1 DEF Row
  <2>4. \A d \in FirstDays : row.startsOn <= d /\ d <= row.endsOn => HolderOf[d] = None
    <3> SUFFICES ASSUME NEW d \in FirstDays, row.startsOn <= d, d <= row.endsOn
                 PROVE  HolderOf[d] = None
      OBVIOUS
    <3>1. HolderOf'[d] = i
      BY <1>4, <1>7, <1>12 DEF HolderSound
    <3>2. \A j \in Ids : j # i => ~Covers(j, d)
      BY <1>4, <1>6, <3>1 DEF HolderSound
    <3> QED BY <1>4, <2>1, <3>2 DEF HolderSound
  <2>5. \A d \in FirstDays : HolderOf'[d] =
          IF row.startsOn <= d /\ d <= row.endsOn THEN i ELSE HolderOf[d]
    BY <1>4, <1>6, <1>7, <1>12, <2>1 DEF HolderSound
  <2>6. \A d \in FirstDays : HolderOf[d] # i
    BY <1>4, <2>1 DEF HolderSound
  <2>7. ListingCalendar!Take(i)
    BY <1>5, <1>a, <2>3, <2>4, <2>5, <2>6 DEF ListingCalendar!Take, ListingCalendar!DaysOf
  <2> QED BY <2>7 DEF ListingCalendar!Next
<1> QED BY <1>9, <1>10, <1>11, <1>12

(* The bookings implement the calendar: a day has one holder, whose range  *)
(* of free days is taken in one step and given back in one step, whatever  *)
(* requests, offers, answers and timers overlap (docs/ARCHITECTURE.md      *)
(* section 3.5).                                                           *)
THEOREM BookingsKeepCalendar == Spec => CalendarKept
<1>1. Init => ListingCalendar!Init
  <2> SUFFICES ASSUME Init
               PROVE  HolderOf = [d \in FirstDays |-> None]
    BY DEF ListingCalendar!Init
  <2>1. \A i \in Ids, d \in FirstDays : ~Covers(i, d)
    BY DEF Init, NoRow, Covers, Held
  <2> QED BY <2>1 DEF HolderOf
<1>2. IInv /\ IInv' /\ TimedInv /\ [Next]_vars => [ListingCalendar!Next]_HolderOf
  <2> SUFFICES ASSUME IInv, IInv', TimedInv, [Next]_vars
               PROVE  [ListingCalendar!Next]_HolderOf
    OBVIOUS
  <2>1. CASE booking' = booking
    BY <2>1 DEF HolderOf, Covers
  <2>2. CASE \E i \in Ids : \E row : RowStep(i, row)
    BY <2>2, CalendarStep
  <2> QED BY <2>1, <2>2, NextRow
<1> QED BY <1>1, <1>2, TimedAlways, PTL DEF Spec, CalendarKept, ListingCalendar!Spec

----------------------------------------------------------------------------
(* Deals *)

OfferRows ==
  [status : {"NONE", "PENDING", "COUNTERED", "DECLINED", "EXPIRED", "ACCEPTED", "SUPERSEDED"},
   chat : Borrowers \cup {None}, range : Ranges \cup {<<0, 0>>}, over : BOOLEAN]

CallRows ==
  {NotAnswering}
    \cup [step : {"PROPOSE"}, chat : Borrowers, range : Ranges, open : SUBSET Offers]
    \cup [step : {"ANSWER"}, offer : Offers, status : {"EXPIRED", "DECLINED"}]
    \cup [step : {"ACCEPT"}, offer : Offers]

DealTypes ==
  /\ scene \in Scenes
  /\ offer \in [Offers -> OfferRows]
  /\ answering \in [Calls -> CallRows]
  /\ madeFrom \in [Ids -> Offers \cup {NoOffer}]

Made(o) == offer[o].status # "NONE"

OffersOK == \A o \in Offers : Made(o) => offer[o].chat \in Borrowers /\ offer[o].range \in Ranges

(* A call that answers is about an offer that was made, and one that       *)
(* accepts asks for the person of that offer's chat.                       *)
AnswersOK ==
  \A c \in Calls :
    /\ answering[c].step \in {"ANSWER", "ACCEPT"} => Made(answering[c].offer)
    /\ answering[c].step = "ACCEPT" =>
         /\ asking[c] # NotAsking
         /\ asking[c].borrower = offer[answering[c].offer].chat
    /\ answering[c].step = "PROPOSE" => \A o \in answering[c].open : Made(o)

(* A booking that an offer made is that chat's. *)
BookedOK ==
  \A i \in Ids : madeFrom[i] # NoOffer =>
    /\ booking[i].status # "NONE"
    /\ Made(madeFrom[i])
    /\ booking[i].borrower = offer[madeFrom[i]].chat

DealInv ==
  IInv /\ DealTypes /\ OffersOK /\ AnswersOK /\ BookedOK /\ OneBookingPerOffer /\ DealsAreBooked

LEMMA NoneIsNoStatus == "NONE" \notin Statuses /\ NoRow.status = "NONE"
  BY DEF Statuses, Open, Closed, NoRow

LEMMA InitDeals == DealsInit => DealInv
  <1> SUFFICES ASSUME DealsInit
               PROVE  DealInv
    OBVIOUS
  <1>1. IInv
    BY InitIInv DEF DealsInit
  <1>2. NotMade \in OfferRows /\ NotMade.status = "NONE"
    BY DEF NotMade, OfferRows
  <1>3. NotAnswering \in CallRows /\ NotAnswering.step = "NONE"
    BY DEF NotAnswering, CallRows
  <1>4. DealTypes
    BY <1>2, <1>3 DEF DealsInit, DealTypes
  <1>5. OffersOK /\ AnswersOK
    BY <1>2, <1>3 DEF DealsInit, OffersOK, AnswersOK, Made
  <1>6. BookedOK /\ OneBookingPerOffer
    BY DEF DealsInit, BookedOK, OneBookingPerOffer
  <1>7. DealsAreBooked
    BY <1>2 DEF DealsInit, DealsAreBooked
  <1> QED BY <1>1, <1>4, <1>5, <1>6, <1>7 DEF DealInv

(* What people do with a booking changes neither whose it is nor what      *)
(* anyone is asking for.                                                   *)
LEMMA MovedKeepsBorrower ==
  ASSUME IInv, NEW i \in Ids, NEW action, NEW party, Permits(action, party, booking[i], clock)
  PROVE  /\ booking[i] \in Row /\ booking[i].status # "NONE"
         /\ GoodRow(Moved(i, action)) /\ Moved(i, action).borrower = booking[i].borrower
  <1>1. action \in Actions /\ booking[i].status # "NONE"
    BY PermitsFacts
  <1>2. booking[i] \in Row
    BY <1>1, NoneIsNoStatus DEF IInv, TypeOK
  <1>3. GoodRow(Moved(i, action))
    BY <1>1, MovedIsGood
  <1>4. Moved(i, action).borrower = booking[i].borrower
    BY <1>2 DEF Moved, Row
  <1> QED BY <1>1, <1>2, <1>3, <1>4

LEMMA PeopleRow ==
  ASSUME IInv, NEW i \in Ids, People(i)
  PROVE  /\ asking' = asking /\ booking[i].status # "NONE"
         /\ \E row : /\ booking' = [booking EXCEPT ![i] = row]
                      /\ row.status \in Statuses /\ row.borrower = booking[i].borrower
  <1>0. clock \in Nat /\ asksDocs \in BOOLEAN
    BY DEF IInv, TypeOK, InFlightOK
  <1>1. ASSUME NEW action, NEW party, Transition(i, action, party)
        PROVE  /\ asking' = asking /\ booking[i].status # "NONE"
               /\ \E row : /\ booking' = [booking EXCEPT ![i] = row]
                            /\ row.status \in Statuses /\ row.borrower = booking[i].borrower
    BY <1>1, MovedKeepsBorrower DEF Transition, Commit, GoodRow, Row
  <1>2. ASSUME NEW row, GoodRow(row), NEW new, NEW value,
               new = [row EXCEPT !.docsSubmitted = value] \/ new = [row EXCEPT !.returnedAt = value]
        PROVE  new.status \in Statuses /\ new.borrower = row.borrower
    BY <1>2 DEF GoodRow, Row
  <1>3. CASE SubmitDocs(i)
    <2>1. PICK moved : moved = Moved(i, "submitDocs")
      OBVIOUS
    <2>2. /\ GoodRow(moved) /\ moved.borrower = booking[i].borrower /\ booking[i].status # "NONE"
      BY <1>3, <2>1, MovedKeepsBorrower DEF SubmitDocs
    <2>r. PICK row : row = [moved EXCEPT !.docsSubmitted = asksDocs]
      OBVIOUS
    <2>s. row.status \in Statuses /\ row.borrower = moved.borrower
      BY <1>2, <2>2, <2>r
    <2>3. booking' = [booking EXCEPT ![i] = row]
      BY <1>3, <2>1, <2>r DEF SubmitDocs, Commit
    <2>4. asking' = asking
      BY <1>3 DEF SubmitDocs
    <2> QED BY <2>2, <2>s, <2>3, <2>4
  <1>4. CASE ReviewDocs(i)
    <2>1. PICK action : /\ Permits(action, "LENDER", booking[i], clock)
                        /\ Commit(i, [Moved(i, action) EXCEPT !.docsSubmitted = FALSE])
      BY <1>4 DEF ReviewDocs
    <2>2. PICK moved : moved = Moved(i, action)
      OBVIOUS
    <2>3. /\ GoodRow(moved) /\ moved.borrower = booking[i].borrower /\ booking[i].status # "NONE"
      BY <2>1, <2>2, MovedKeepsBorrower
    <2>r. PICK row : row = [moved EXCEPT !.docsSubmitted = FALSE]
      OBVIOUS
    <2>s. row.status \in Statuses /\ row.borrower = moved.borrower
      BY <1>2, <2>3, <2>r
    <2>4. booking' = [booking EXCEPT ![i] = row]
      BY <2>1, <2>2, <2>r DEF Commit
    <2>5. asking' = asking
      BY <1>4 DEF ReviewDocs
    <2> QED BY <2>3, <2>s, <2>4, <2>5
  <1>5. CASE MarkReturned(i)
    <2>1. PICK moved : moved = Moved(i, "markReturned")
      OBVIOUS
    <2>2. /\ GoodRow(moved) /\ moved.borrower = booking[i].borrower /\ booking[i].status # "NONE"
      BY <1>5, <2>1, MovedKeepsBorrower DEF MarkReturned
    <2>r. PICK row : row = [moved EXCEPT !.returnedAt = clock]
      OBVIOUS
    <2>s. row.status \in Statuses /\ row.borrower = moved.borrower
      BY <1>2, <2>2, <2>r
    <2>3. booking' = [booking EXCEPT ![i] = row]
      BY <1>5, <2>1, <2>r DEF MarkReturned, Commit
    <2>4. asking' = asking
      BY <1>5 DEF MarkReturned
    <2> QED BY <2>2, <2>s, <2>3, <2>4
  <1> QED BY <1>1, <1>3, <1>4, <1>5
          DEF People, Accept, Decline, Cancel, ConfirmPayment, HandOver, NoShow, OpenDispute,
              ResolveDispute

(* Each step of Deals is a step of Bookings, or none.                      *)
LEMMA DealStep ==
  ASSUME DealInv, [DealsNext]_<<vars, dealVars>>
  PROVE  [Next]_vars
  <1>1. CASE UNCHANGED vars
    BY <1>1
  <1>2. ASSUME NEW c \in Calls, NEW o \in Offers, AcceptOffer(c, o)
        PROVE  Next
    <2>1. offer[o].chat \in Borrowers /\ offer[o].range \in Ranges
      BY <1>2 DEF AcceptOffer, Pending, DealInv, OffersOK, Made
    <2>2. Ask(c, offer[o].chat, offer[o].range)
      BY <1>2 DEF AcceptOffer, Ask
    <2> QED BY <2>1, <2>2 DEF Next
  <1>3. ASSUME NEW c \in Calls, NEW u \in scene.people, NEW r \in scene.ranges, RequestToBook(c, u, r)
        PROVE  Next
    <2>1. u \in Borrowers /\ r \in Ranges
      BY DealsAssumption DEF DealInv, DealTypes
    <2>2. Ask(c, u, r)
      BY <1>3 DEF RequestToBook, Ask
    <2> QED BY <2>1, <2>2 DEF Next
  <1>4. ASSUME NEW c \in Calls, NEW i \in Ids, MakeDeal(c, i)
        PROVE  Next
    BY <1>4 DEF MakeDeal, Next
  <1>5. ASSUME NEW c \in Calls, FailDeal(c) \/ Requesting(c)
        PROVE  Next
    BY <1>5 DEF FailDeal, Requesting, Next
  <1>6. CASE BookingGoesOn
    BY <1>6 DEF BookingGoesOn, Next
  <1>7. ASSUME NEW c \in Calls, NEW u, NEW r, Propose(c, u, r)
        PROVE  UNCHANGED vars
    BY <1>7 DEF Propose
  <1>8. ASSUME NEW c \in Calls, NEW o \in Offers, MakeOffer(c, o) \/ DeclineOffer(c, o)
        PROVE  UNCHANGED vars
    BY <1>8 DEF MakeOffer, DeclineOffer
  <1>9. ASSUME NEW c \in Calls, WriteAnswer(c)
        PROVE  UNCHANGED vars
    BY <1>9 DEF WriteAnswer
  <1>10. ASSUME NEW o \in Offers, OfferEnds(o)
         PROVE  UNCHANGED vars
    BY <1>10 DEF OfferEnds
  <1>11. DealsNext \/ UNCHANGED vars
    OBVIOUS
  <1> QED BY <1>1, <1>2, <1>3, <1>4, <1>5, <1>6, <1>7, <1>8, <1>9, <1>10, <1>11 DEF DealsNext

(* Offers change, and none becomes a deal: what was booked from them is    *)
(* still theirs.                                                           *)
LEMMA OffersMove ==
  ASSUME DealInv, madeFrom' = madeFrom,
         \A o \in Offers : Made(o) =>
           /\ offer'[o].status # "NONE" /\ offer'[o].chat = offer[o].chat
           /\ offer'[o].range = offer[o].range,
         \A o \in Offers : offer'[o].status = "ACCEPTED" => offer[o].status = "ACCEPTED",
         \A i \in Ids : madeFrom[i] # NoOffer =>
           booking'[i].status # "NONE" /\ booking'[i].borrower = booking[i].borrower
  PROVE  BookedOK' /\ OneBookingPerOffer' /\ DealsAreBooked'
  <1>1. BookedOK'
    <2> SUFFICES ASSUME NEW i \in Ids, madeFrom[i] # NoOffer
                 PROVE  /\ booking'[i].status # "NONE"
                        /\ offer'[madeFrom[i]].status # "NONE"
                        /\ booking'[i].borrower = offer'[madeFrom[i]].chat
      BY DEF BookedOK, Made
    <2>1. madeFrom[i] \in Offers /\ Made(madeFrom[i])
      BY DEF DealInv, DealTypes, BookedOK
    <2> QED BY <2>1 DEF DealInv, BookedOK
  <1>2. OneBookingPerOffer'
    BY DEF DealInv, OneBookingPerOffer
  <1>3. DealsAreBooked'
    <2> SUFFICES ASSUME NEW o \in Offers, offer'[o].status = "ACCEPTED"
                 PROVE  /\ \E i \in Ids : madeFrom'[i] = o /\ booking'[i].borrower = offer'[o].chat
                        /\ {p \in Offers : offer'[p].chat = offer'[o].chat
                                         /\ offer'[p].status = "ACCEPTED"} = {o}
      BY DEF DealsAreBooked, InChat
    <2>1. offer[o].status = "ACCEPTED" /\ Made(o) /\ offer'[o].chat = offer[o].chat
      BY DEF Made
    <2>2. PICK i \in Ids : madeFrom[i] = o /\ booking[i].borrower = offer[o].chat
      BY <2>1 DEF DealInv, DealsAreBooked
    <2>3. booking'[i].borrower = booking[i].borrower
      BY <2>2, DealsAssumption
    <2>4. ASSUME NEW p \in Offers, offer'[p].chat = offer'[o].chat, offer'[p].status = "ACCEPTED"
          PROVE  p = o
      <3>1. offer[p].status = "ACCEPTED" /\ offer[p].chat = offer[o].chat
        BY <2>1, <2>4 DEF Made
      <3> QED BY <2>1, <3>1 DEF DealInv, DealsAreBooked, InChat
    <2> QED BY <2>1, <2>2, <2>3, <2>4
  <1> QED BY <1>1, <1>2, <1>3

(* The offers are as they were, and so are the borrowers of bookings.      *)
LEMMA OffersStay ==
  ASSUME DealInv, UNCHANGED <<offer, madeFrom>>,
         \A i \in Ids : madeFrom[i] # NoOffer =>
           booking'[i].status # "NONE" /\ booking'[i].borrower = booking[i].borrower
  PROVE  OffersOK' /\ BookedOK' /\ OneBookingPerOffer' /\ DealsAreBooked'
  <1>1. OffersOK'
    BY DEF DealInv, OffersOK, Made
  <1>2. BookedOK' /\ OneBookingPerOffer' /\ DealsAreBooked'
    BY OffersMove DEF Made
  <1> QED BY <1>1, <1>2

(* What has been read stays about offers that exist, when calls begin, end *)
(* or go on: offers are made once and keep their chat and range.           *)
SameOffers ==
  \A o \in Offers : Made(o) =>
    /\ offer'[o].status # "NONE" /\ offer'[o].chat = offer[o].chat
    /\ offer'[o].range = offer[o].range

LEMMA AnswersStand ==
  ASSUME DealInv, SameOffers, NEW c \in Calls,
         \A d \in Calls : d # c => answering'[d] = answering[d] /\ asking'[d] = asking[d],
         answering'[c] = NotAnswering
  PROVE  AnswersOK'
  <1> SUFFICES ASSUME NEW d \in Calls
               PROVE  /\ answering'[d].step \in {"ANSWER", "ACCEPT"} =>
                           offer'[answering'[d].offer].status # "NONE"
                      /\ answering'[d].step = "ACCEPT" =>
                           /\ asking'[d] # NotAsking
                           /\ asking'[d].borrower = offer'[answering'[d].offer].chat
                      /\ answering'[d].step = "PROPOSE" =>
                           \A o \in answering'[d].open : offer'[o].status # "NONE"
    BY DEF AnswersOK, Made
  <1>1. CASE d = c
    BY <1>1 DEF NotAnswering
  <1>2. CASE d # c
    <2>1. answering'[d] = answering[d] /\ asking'[d] = asking[d] /\ answering[d] \in CallRows
      BY <1>2 DEF DealInv, DealTypes
    <2>2. /\ answering[d].step \in {"ANSWER", "ACCEPT"} => answering[d].offer \in Offers
          /\ answering[d].step = "PROPOSE" => answering[d].open \subseteq Offers
      BY <2>1 DEF CallRows, NotAnswering
    <2> QED BY <2>1, <2>2 DEF DealInv, AnswersOK, SameOffers
  <1> QED BY <1>1, <1>2

(* ... and when a call has just read. *)
LEMMA ReadStands ==
  ASSUME DealInv, UNCHANGED offer, NEW c \in Calls, NEW row, answering' = [answering EXCEPT ![c] = row],
         \A d \in Calls : d # c => asking'[d] = asking[d],
         row.step \in {"ANSWER", "ACCEPT"} => Made(row.offer),
         row.step = "ACCEPT" => asking'[c] # NotAsking /\ asking'[c].borrower = offer[row.offer].chat,
         row.step = "PROPOSE" => \A o \in row.open : Made(o)
  PROVE  AnswersOK'
  <1>1. answering'[c] = row /\ \A d \in Calls : d # c => answering'[d] = answering[d]
    BY DEF DealInv, DealTypes
  <1> QED BY <1>1 DEF DealInv, AnswersOK, Made

LEMMA DealsKept ==
  ASSUME DealInv, DealsNext
  PROVE  DealTypes' /\ OffersOK' /\ AnswersOK' /\ BookedOK' /\ OneBookingPerOffer' /\ DealsAreBooked'
  <1>t. /\ scene \in Scenes /\ offer \in [Offers -> OfferRows]
        /\ answering \in [Calls -> CallRows] /\ madeFrom \in [Ids -> Offers \cup {NoOffer}]
        /\ IInv
        /\ asking \in [Calls -> Asked \cup {NotAsking}] /\ booking \in [Ids -> Row \cup {NoRow}]
    BY DEF DealInv, DealTypes, IInv, TypeOK, InFlightOK
  <1>n. NotAnswering \in CallRows /\ NotAnswering.step = "NONE"
    BY DEF NotAnswering, CallRows
  <1>s. ASSUME UNCHANGED <<offer, madeFrom, booking>>
        PROVE  SameOffers /\ OffersOK' /\ BookedOK' /\ OneBookingPerOffer' /\ DealsAreBooked'
    BY <1>s, OffersStay DEF DealInv, BookedOK, Made, SameOffers
  <1>1. ASSUME NEW c \in Calls, NEW u, NEW r, RequestToBook(c, u, r)
        PROVE  DealTypes' /\ AnswersOK' /\ UNCHANGED <<offer, madeFrom, booking>>
    <2>1. UNCHANGED dealVars /\ answering[c] = NotAnswering /\ booking' = booking
      BY <1>1 DEF RequestToBook, Idling, AskFrom
    <2>2. \A d \in Calls : d # c => asking'[d] = asking[d]
      BY <1>1, <1>t DEF RequestToBook, AskFrom
    <2>3. AnswersOK'
      BY <1>s, <2>1, <2>2, AnswersStand DEF dealVars
    <2>4. DealTypes'
      BY <1>t, <2>1 DEF dealVars, DealTypes
    <2> QED BY <2>1, <2>3, <2>4 DEF dealVars
  <1>2. ASSUME NEW c \in Calls, NEW u \in scene.chats, NEW r \in scene.ranges, Propose(c, u, r)
        PROVE  DealTypes' /\ AnswersOK' /\ UNCHANGED <<offer, madeFrom, booking>>
    <2>1. PICK row : row = [step |-> "PROPOSE", chat |-> u, range |-> r, open |-> InChat(u, "PENDING")]
      OBVIOUS
    <2>2. /\ answering' = [answering EXCEPT ![c] = row]
          /\ UNCHANGED <<vars, scene, offer, madeFrom>>
      BY <1>2, <2>1 DEF Propose, Reads
    <2>3. u \in Borrowers /\ r \in Ranges
      BY <1>t, DealsAssumption
    <2>4. row.open \subseteq Offers /\ \A o \in row.open : Made(o)
      BY <2>1 DEF InChat, Made
    <2>5. row \in CallRows /\ row.step = "PROPOSE"
      BY <2>1, <2>3, <2>4 DEF CallRows
    <2>6. AnswersOK'
      BY <2>2, <2>4, <2>5, ReadStands DEF vars
    <2>7. DealTypes'
      BY <1>t, <2>2, <2>5 DEF DealTypes
    <2> QED BY <2>2, <2>6, <2>7 DEF vars
  <1>3. ASSUME NEW c \in Calls, NEW o \in Offers, DeclineOffer(c, o)
        PROVE  DealTypes' /\ AnswersOK' /\ UNCHANGED <<offer, madeFrom, booking>>
    <2>1. PICK row : row = [step |-> "ANSWER", offer |-> o,
                            status |-> IF offer[o].over THEN "EXPIRED" ELSE "DECLINED"]
      OBVIOUS
    <2>2. /\ answering' = [answering EXCEPT ![c] = row] /\ Made(o)
          /\ UNCHANGED <<vars, scene, offer, madeFrom>>
      BY <1>3, <2>1 DEF DeclineOffer, Reads, Made
    <2>3. row \in CallRows /\ row.step = "ANSWER" /\ row.offer = o
      BY <2>1 DEF CallRows
    <2>4. AnswersOK'
      BY <2>2, <2>3, ReadStands DEF vars
    <2>5. DealTypes'
      BY <1>t, <2>2, <2>3 DEF DealTypes
    <2> QED BY <2>2, <2>4, <2>5 DEF vars
  <1>4. ASSUME NEW c \in Calls, NEW o \in Offers, AcceptOffer(c, o)
        PROVE  DealTypes' /\ AnswersOK' /\ UNCHANGED <<offer, madeFrom, booking>>
    <2>1. PICK row : row = [step |-> "ACCEPT", offer |-> o]
      OBVIOUS
    <2>2. PICK asks : asks = [source |-> "OFFER", borrower |-> offer[o].chat,
                              startsOn |-> offer[o].range[1], endsOn |-> offer[o].range[2]]
      OBVIOUS
    <2>3. /\ answering' = [answering EXCEPT ![c] = row] /\ Made(o)
          /\ asking' = [asking EXCEPT ![c] = asks]
          /\ UNCHANGED <<scene, offer, madeFrom, booking>>
      BY <1>4, <2>1, <2>2 DEF AcceptOffer, AskFrom, Pending, Reads, Made
    <2>4. row \in CallRows /\ row.step = "ACCEPT" /\ row.offer = o
      BY <2>1 DEF CallRows
    <2>5. asking'[c] = asks /\ \A d \in Calls : d # c => asking'[d] = asking[d]
      BY <1>t, <2>3
    <2>6. asks.borrower = offer[o].chat /\ asks.source = "OFFER" /\ NotAsking.source = "NONE"
      BY <2>2 DEF NotAsking
    <2>7. AnswersOK'
      BY <2>3, <2>4, <2>5, <2>6, ReadStands
    <2>8. DealTypes'
      BY <1>t, <2>3, <2>4 DEF DealTypes
    <2> QED BY <2>3, <2>7, <2>8
  <1>o. ASSUME UNCHANGED <<scene, answering, madeFrom>>, UNCHANGED offer,
               \A i \in Ids : madeFrom[i] # NoOffer =>
                 booking'[i].status # "NONE" /\ booking'[i].borrower = booking[i].borrower
        PROVE  DealTypes' /\ OffersOK' /\ BookedOK' /\ OneBookingPerOffer' /\ DealsAreBooked'
    BY <1>t, <1>o, OffersStay DEF DealTypes
  <1>5. ASSUME NEW c \in Calls, FailDeal(c)
        PROVE  DealTypes' /\ AnswersOK' /\ UNCHANGED <<offer, madeFrom, booking>>
    <2>1. /\ UNCHANGED <<scene, offer, madeFrom, booking>>
          /\ answering' = [answering EXCEPT ![c] = NotAnswering]
          /\ asking' = [asking EXCEPT ![c] = NotAsking]
      BY <1>5 DEF FailDeal, Done, GiveUp
    <2>2. /\ answering'[c] = NotAnswering
          /\ \A d \in Calls : d # c => answering'[d] = answering[d] /\ asking'[d] = asking[d]
      BY <1>t, <2>1
    <2>3. AnswersOK'
      BY <1>s, <2>1, <2>2, AnswersStand
    <2>4. DealTypes'
      BY <1>t, <1>n, <2>1 DEF DealTypes
    <2> QED BY <2>1, <2>3, <2>4
  <1>6. ASSUME NEW c \in Calls, Requesting(c)
        PROVE  DealTypes' /\ OffersOK' /\ AnswersOK' /\ BookedOK' /\ OneBookingPerOffer' /\ DealsAreBooked'
    <2>1. /\ answering[c] = NotAnswering /\ UNCHANGED <<scene, offer, answering, madeFrom>>
          /\ asking' = [asking EXCEPT ![c] = NotAsking]
      BY <1>6 DEF Requesting, dealVars, GiveUp, Insert
    <2>2. ASSUME NEW i \in Ids, madeFrom[i] # NoOffer
          PROVE  booking'[i].status # "NONE" /\ booking'[i].borrower = booking[i].borrower
      <3>1. booking[i].status # "NONE"
        BY <2>2 DEF DealInv, BookedOK
      <3>2. CASE GiveUp(c)
        BY <3>1, <3>2 DEF GiveUp
      <3>3. ASSUME NEW j \in Ids, Insert(c, j)
            PROVE  booking'[i] = booking[i]
        <4>1. booking[j].status = "NONE" /\ booking' = [booking EXCEPT ![j] = Inserted(c)]
          BY <3>3, NoneIsNoStatus DEF Insert, Commit
        <4> QED BY <1>t, <3>1, <4>1
      <3> QED BY <1>6, <3>1, <3>2, <3>3 DEF Requesting
    <2>3. SameOffers
      BY <2>1 DEF SameOffers, Made
    <2>4. AnswersOK'
      BY <1>t, <2>1, <2>3, AnswersStand
    <2> QED BY <1>o, <2>1, <2>2, <2>4
  <1>7. CASE BookingGoesOn
    <2>1. UNCHANGED <<scene, offer, answering, madeFrom>>
      BY <1>7 DEF BookingGoesOn, dealVars
    <2>2. asking' = asking /\ \A i \in Ids : booking[i].status # "NONE" =>
            booking'[i].status # "NONE" /\ booking'[i].borrower = booking[i].borrower
      <3>1. CASE SetRequiredDocs
        BY <3>1 DEF SetRequiredDocs
      <3>2. ASSUME NEW i \in Ids, People(i)
            PROVE  asking' = asking /\ \A j \in Ids : booking[j].status # "NONE" =>
                     booking'[j].status # "NONE" /\ booking'[j].borrower = booking[j].borrower
        BY <1>t, <3>2, PeopleRow, NoneIsNoStatus
      <3> QED BY <1>7, <3>1, <3>2 DEF BookingGoesOn
    <2>3. AnswersOK'
      BY <2>1, <2>2 DEF DealInv, AnswersOK, Made
    <2> QED BY <1>o, <2>1, <2>2, <2>3 DEF DealInv, BookedOK
  (* Offers change. *)
  <1>m. ASSUME SameOffers, OffersOK', madeFrom' = madeFrom, booking' = booking,
               \A o \in Offers : offer'[o].status = "ACCEPTED" => offer[o].status = "ACCEPTED"
        PROVE  BookedOK' /\ OneBookingPerOffer' /\ DealsAreBooked'
    BY <1>m, OffersMove DEF DealInv, BookedOK, SameOffers
  <1>8. ASSUME NEW c \in Calls, NEW o \in Offers, MakeOffer(c, o)
        PROVE  DealTypes' /\ OffersOK' /\ AnswersOK' /\ BookedOK' /\ OneBookingPerOffer' /\ DealsAreBooked'
    <2>1. PICK asks : asks = answering[c]
      OBVIOUS
    <2>2. /\ asks.step = "PROPOSE" /\ offer[o] = NotMade
          /\ offer' = Proposed(o, asks)
          /\ answering' = [answering EXCEPT ![c] = NotAnswering]
          /\ UNCHANGED <<vars, scene, madeFrom>>
      BY <1>8, <2>1 DEF MakeOffer, Done
    <2>3. /\ asks.chat \in Borrowers /\ asks.range \in Ranges
          /\ asks.open \subseteq Offers /\ \A p \in asks.open : Made(p)
      BY <1>t, <2>1, <2>2 DEF CallRows, NotAnswering, DealInv, AnswersOK
    <2>4. offer'[o] = [status |-> "PENDING", chat |-> asks.chat, range |-> asks.range, over |-> FALSE]
      BY <2>2 DEF Proposed
    <2>5. ~Made(o)
      BY <2>2 DEF Made, NotMade
    <2>6. ASSUME NEW p \in Offers, p # o
          PROVE  /\ offer'[p] \in OfferRows
                 /\ offer'[p].chat = offer[p].chat /\ offer'[p].range = offer[p].range
                 /\ offer'[p].status = "ACCEPTED" => offer[p].status = "ACCEPTED"
                 /\ Made(p) <=> offer'[p].status # "NONE"
      <3>1. offer[p] \in OfferRows
        BY <1>t
      <3>2. CASE p \in asks.open
        <4>1. PICK becomes : becomes = IF offer[p].over THEN "EXPIRED" ELSE "COUNTERED"
          OBVIOUS
        <4>2. offer'[p] = [offer[p] EXCEPT !.status = becomes]
          BY <2>2, <2>6, <3>2, <4>1 DEF Proposed
        <4>3. becomes # "NONE" /\ becomes # "ACCEPTED" /\ becomes \in {"EXPIRED", "COUNTERED"}
          BY <4>1
        <4>4. Made(p)
          BY <2>3, <3>2
        <4> QED BY <3>1, <4>2, <4>3, <4>4 DEF OfferRows
      <3>3. CASE p \notin asks.open
        BY <2>2, <2>6, <3>1, <3>3 DEF Proposed, Made
      <3> QED BY <3>2, <3>3
    <2>7. SameOffers
      BY <2>5, <2>6 DEF SameOffers
    <2>8. OffersOK'
      BY <2>3, <2>4, <2>6 DEF DealInv, OffersOK, Made
    <2>9. \A p \in Offers : offer'[p].status = "ACCEPTED" => offer[p].status = "ACCEPTED"
      BY <2>4, <2>6
    <2>10. DealTypes'
      <3>1. offer'[o] \in OfferRows
        BY <2>3, <2>4 DEF OfferRows
      <3>2. offer' \in [Offers -> OfferRows]
        BY <2>2, <2>6, <3>1 DEF Proposed
      <3> QED BY <1>t, <1>n, <2>2, <3>2 DEF DealTypes
    <2>11. AnswersOK'
      BY <1>t, <2>2, <2>7, AnswersStand DEF vars
    <2> QED BY <1>m, <2>2, <2>7, <2>8, <2>9, <2>10, <2>11 DEF vars
  <1>9. ASSUME NEW c \in Calls, WriteAnswer(c)
        PROVE  DealTypes' /\ OffersOK' /\ AnswersOK' /\ BookedOK' /\ OneBookingPerOffer' /\ DealsAreBooked'
    <2>1. PICK asks : asks = answering[c]
      OBVIOUS
    <2>2. /\ asks.step = "ANSWER"
          /\ offer' = [offer EXCEPT ![asks.offer].status = asks.status]
          /\ answering' = [answering EXCEPT ![c] = NotAnswering]
          /\ UNCHANGED <<vars, scene, madeFrom>>
      BY <1>9, <2>1 DEF WriteAnswer, Done
    <2>3. asks.offer \in Offers /\ asks.status \in {"EXPIRED", "DECLINED"} /\ Made(asks.offer)
      BY <1>t, <2>1, <2>2 DEF CallRows, NotAnswering, DealInv, AnswersOK
    <2>4. ASSUME NEW p \in Offers
          PROVE  /\ offer'[p] \in OfferRows
                 /\ offer'[p].chat = offer[p].chat /\ offer'[p].range = offer[p].range
                 /\ offer'[p].status = "ACCEPTED" => offer[p].status = "ACCEPTED"
                 /\ Made(p) <=> offer'[p].status # "NONE"
      <3>1. CASE p = asks.offer
        BY <1>t, <2>2, <2>3, <3>1 DEF OfferRows, Made
      <3>2. CASE p # asks.offer
        BY <1>t, <2>2, <3>2 DEF Made
      <3> QED BY <3>1, <3>2
    <2>5. SameOffers
      BY <2>4 DEF SameOffers
    <2>6. OffersOK'
      BY <2>4 DEF DealInv, OffersOK, Made
    <2>7. DealTypes'
      <3>1. offer' \in [Offers -> OfferRows]
        BY <1>t, <2>2, <2>4
      <3> QED BY <1>t, <1>n, <2>2, <3>1 DEF DealTypes
    <2>8. AnswersOK'
      BY <1>t, <2>2, <2>5, AnswersStand DEF vars
    <2> QED BY <1>m, <2>2, <2>4, <2>5, <2>6, <2>7, <2>8 DEF vars
  <1>10. ASSUME NEW o \in Offers, OfferEnds(o)
         PROVE  DealTypes' /\ OffersOK' /\ AnswersOK' /\ BookedOK' /\ OneBookingPerOffer' /\ DealsAreBooked'
    <2>1. /\ offer' = [offer EXCEPT ![o].over = TRUE]
          /\ UNCHANGED <<vars, scene, answering, madeFrom>>
      BY <1>10 DEF OfferEnds
    <2>2. ASSUME NEW p \in Offers
          PROVE  /\ offer'[p] \in OfferRows
                 /\ offer'[p].chat = offer[p].chat /\ offer'[p].range = offer[p].range
                 /\ offer'[p].status = offer[p].status
      BY <1>t, <2>1 DEF OfferRows
    <2>3. SameOffers
      BY <2>2 DEF SameOffers, Made
    <2>4. OffersOK'
      BY <2>2 DEF DealInv, OffersOK, Made
    <2>5. DealTypes'
      <3>1. offer' \in [Offers -> OfferRows]
        BY <1>t, <2>1, <2>2
      <3> QED BY <1>t, <2>1, <3>1 DEF DealTypes
    <2>6. AnswersOK'
      <3>1. \A c \in Calls : /\ answering[c].step \in {"ANSWER", "ACCEPT"} => answering[c].offer \in Offers
                             /\ answering[c].step = "PROPOSE" => answering[c].open \subseteq Offers
        BY <1>t DEF CallRows, NotAnswering
      <3> QED BY <2>1, <2>2, <3>1 DEF vars, DealInv, AnswersOK, Made
    <2> QED BY <1>m, <2>1, <2>2, <2>3, <2>4, <2>5, <2>6 DEF vars
  <1>11. ASSUME NEW c \in Calls, NEW i \in Ids, MakeDeal(c, i)
         PROVE  DealTypes' /\ OffersOK' /\ AnswersOK' /\ BookedOK' /\ OneBookingPerOffer' /\ DealsAreBooked'
    <2>1. PICK o : o = answering[c].offer
      OBVIOUS
    <2>2. /\ answering[c].step = "ACCEPT" /\ \A j \in Ids : madeFrom[j] # o
          /\ booking[i] = NoRow /\ asking[c] # NotAsking
          /\ booking' = [booking EXCEPT ![i] = Inserted(c)]
          /\ asking' = [asking EXCEPT ![c] = NotAsking]
          /\ madeFrom' = [madeFrom EXCEPT ![i] = o]
          /\ offer' = Agreed(o)
          /\ answering' = [answering EXCEPT ![c] = NotAnswering]
          /\ scene' = scene
      BY <1>11, <2>1 DEF MakeDeal, Unused, Insert, Commit, Done
    <2>3. /\ o \in Offers /\ Made(o) /\ o # NoOffer
          /\ asking[c].borrower = offer[o].chat
      BY <1>t, <2>1, <2>2, DealsAssumption DEF CallRows, NotAnswering, DealInv, AnswersOK
    <2>4. booking'[i].status # "NONE" /\ booking'[i].borrower = offer[o].chat
      <3>1. GoodRow(Inserted(c))
        BY <1>t, <2>2, InsertedIsGood
      <3>2. Inserted(c).borrower = offer[o].chat
        BY <2>3 DEF Inserted, NewRow
      <3> QED BY <1>t, <2>2, <3>1, <3>2, NoneIsNoStatus DEF GoodRow, Row
    <2>5. \A j \in Ids : j # i => booking'[j] = booking[j] /\ madeFrom'[j] = madeFrom[j]
      BY <1>t, <2>2
    <2>6. madeFrom[i] = NoOffer /\ madeFrom'[i] = o
      BY <1>t, <2>2, NoneIsNoStatus DEF DealInv, BookedOK
    <2>7. ASSUME NEW p \in Offers
          PROVE  /\ offer'[p] \in OfferRows
                 /\ offer'[p].chat = offer[p].chat /\ offer'[p].range = offer[p].range
                 /\ Made(p) <=> offer'[p].status # "NONE"
                 /\ p = o => offer'[p].status = "ACCEPTED"
                 /\ p # o /\ offer'[p].status = "ACCEPTED" =>
                      offer[p].status = "ACCEPTED" /\ offer[p].chat # offer[o].chat
      <3>1. offer[p] \in OfferRows
        BY <1>t
      <3>2. CASE p = o
        <4>1. offer'[p] = [offer[p] EXCEPT !.status = "ACCEPTED"]
          BY <2>2, <3>2 DEF Agreed
        <4> QED BY <2>3, <3>1, <3>2, <4>1 DEF OfferRows, Made
      <3>3. CASE p # o /\ p \in InChat(offer[o].chat, "ACCEPTED")
        <4>1. offer'[p] = [offer[p] EXCEPT !.status = "SUPERSEDED"]
          BY <2>2, <3>3 DEF Agreed
        <4>2. offer[p].status = "ACCEPTED"
          BY <3>3 DEF InChat
        <4> QED BY <3>1, <3>3, <4>1, <4>2 DEF OfferRows, Made
      <3>4. CASE p # o /\ p \notin InChat(offer[o].chat, "ACCEPTED")
        <4>1. offer'[p] = offer[p]
          BY <2>2, <3>4 DEF Agreed
        <4> QED BY <3>1, <3>4, <4>1 DEF InChat, Made
      <3> QED BY <3>2, <3>3, <3>4
    <2>8. SameOffers
      BY <2>7 DEF SameOffers, Made
    <2>9. OffersOK'
      BY <2>7 DEF DealInv, OffersOK, Made
    <2>10. DealTypes'
      <3>1. offer' \in [Offers -> OfferRows]
        BY <2>2, <2>7 DEF Agreed
      <3>2. madeFrom' \in [Ids -> Offers \cup {NoOffer}]
        BY <1>t, <2>2, <2>3
      <3> QED BY <1>t, <1>n, <2>2, <3>1, <3>2 DEF DealTypes
    <2>11. AnswersOK'
      BY <1>t, <2>2, <2>8, AnswersStand
    <2>12. BookedOK'
      <3> SUFFICES ASSUME NEW j \in Ids, madeFrom'[j] # NoOffer
                   PROVE  /\ booking'[j].status # "NONE"
                          /\ offer'[madeFrom'[j]].status # "NONE"
                          /\ booking'[j].borrower = offer'[madeFrom'[j]].chat
        BY DEF BookedOK, Made
      <3>1. CASE j = i
        BY <2>3, <2>4, <2>6, <2>7, <3>1
      <3>2. CASE j # i
        <4>1. /\ madeFrom'[j] = madeFrom[j] /\ booking'[j] = booking[j]
              /\ madeFrom[j] \in Offers
          BY <1>t, <2>5, <3>2
        <4> QED BY <2>7, <4>1 DEF DealInv, BookedOK
      <3> QED BY <3>1, <3>2
    <2>13. OneBookingPerOffer'
      BY <2>2, <2>5, <2>6 DEF DealInv, OneBookingPerOffer
    <2>14. DealsAreBooked'
      <3> SUFFICES ASSUME NEW p \in Offers, offer'[p].status = "ACCEPTED"
                   PROVE  /\ \E j \in Ids : madeFrom'[j] = p /\ booking'[j].borrower = offer'[p].chat
                          /\ {q \in Offers : offer'[q].chat = offer'[p].chat
                                           /\ offer'[q].status = "ACCEPTED"} = {p}
        BY DEF DealsAreBooked, InChat
      <3>1. CASE p = o
        BY <2>4, <2>6, <2>7, <3>1
      <3>2. CASE p # o
        <4>1. offer[p].status = "ACCEPTED" /\ offer[p].chat # offer[o].chat
          BY <2>7, <3>2
        <4>2. PICK j \in Ids : madeFrom[j] = p /\ booking[j].borrower = offer[p].chat
          BY <4>1 DEF DealInv, DealsAreBooked
        <4>3. j # i
          BY <2>6, <4>2, DealsAssumption
        <4>4. madeFrom'[j] = p /\ booking'[j].borrower = offer'[p].chat
          BY <2>5, <2>7, <4>2, <4>3
        <4>5. ASSUME NEW q \in Offers, offer'[q].chat = offer'[p].chat, offer'[q].status = "ACCEPTED"
              PROVE  q = p
          <5>1. offer[q].chat = offer[p].chat /\ q # o
            BY <2>7, <4>1, <4>5
          <5>2. offer[q].status = "ACCEPTED"
            BY <2>7, <4>5, <5>1
          <5> QED BY <4>1, <5>1, <5>2 DEF DealInv, DealsAreBooked, InChat
        <4> QED BY <4>4, <4>5
      <3> QED BY <3>1, <3>2
    <2> QED BY <2>9, <2>10, <2>11, <2>12, <2>13, <2>14
  <1> QED BY <1>s, <1>1, <1>2, <1>3, <1>4, <1>5, <1>6, <1>7, <1>8, <1>9, <1>10, <1>11
          DEF DealsNext

LEMMA StepDeals == DealInv /\ [DealsNext]_<<vars, dealVars>> => DealInv'
  <1> SUFFICES ASSUME DealInv, [DealsNext]_<<vars, dealVars>>
               PROVE  DealInv'
    OBVIOUS
  <1>1. IInv'
    BY DealStep, StepIInv DEF DealInv
  <1>2. CASE DealsNext
    BY <1>1, <1>2, DealsKept DEF DealInv
  <1>3. CASE UNCHANGED <<vars, dealVars>>
    BY <1>1, <1>3 DEF vars, dealVars, DealInv, DealTypes, OffersOK, AnswersOK, BookedOK, Made,
                      OneBookingPerOffer, DealsAreBooked, InChat
  <1> QED BY <1>2, <1>3

LEMMA DealInvAlways == DealsSpec => []DealInv
  BY InitDeals, StepDeals, PTL DEF DealsSpec

(* Offers and their answers change nothing about how bookings behave: with *)
(* them, the bookings still follow Bookings' specification (createFromOffer *)
(* inserts by the same rules as request).                                  *)
THEOREM DealsAreBookings == DealsSpec => Spec
  <1>1. DealsInit => Init
    BY DEF DealsInit
  <1>2. DealInv /\ [DealsNext]_<<vars, dealVars>> => [Next]_vars
    BY DealStep
  <1> QED BY <1>1, <1>2, DealInvAlways, PTL DEF DealsSpec, Spec

(* So no day is held twice and no one has two bookings in progress, when   *)
(* offers and requests to book race (bookings_no_overlap,                  *)
(* bookings_one_open).                                                     *)
THEOREM DatesHeldOnceWithOffers == DealsSpec => [](NoDoubleBooking /\ OneOpenPerBorrower)
  BY DealsAreBookings, DatesAreHeldOnce, OneBookingInProgress, PTL

(* However many answers have read an offer as open, it becomes one booking *)
(* (bookings_offer_id_key).                                                *)
THEOREM OffersBecomeOneBooking == DealsSpec => []OneBookingPerOffer
  BY DealInvAlways, PTL DEF DealInv

(* A chat shows a deal only with its booking, and one at most: an answer   *)
(* writes the booking and the offer in one transaction (accept).           *)
THEOREM DealsHaveBookings == DealsSpec => []DealsAreBooked
  BY DealInvAlways, PTL DEF DealInv

(* The listing's calendar is kept with offers too: a deal takes its days   *)
(* as any booking does.                                                    *)
THEOREM CalendarKeptWithOffers == DealsSpec => CalendarKept
  BY DealsAreBookings, BookingsKeepCalendar, PTL

----------------------------------------------------------------------------
(* Money to lenders: the inductive invariant of Payouts *)
BookingStatuses == {"AWAITING_PAYMENT", "CONFIRMED", "CANCELLED", "COMPLETED"}

RowStatuses == {"NONE", "AWAITING_ACCOUNT", "ON_HOLD", "RELEASED", "FAILED", "REVERSED"}

TransferRows ==
  [amount : Int, onHold : BOOLEAN, fromDeposit : BOOLEAN, status : RowStatuses,
   attempts : Nat, sent : BOOLEAN]

AtRazorpay == [held : Nat, lender : Nat, failed : Nat, event : BOOLEAN]

Types ==
  /\ status \in BookingStatuses
  /\ transfer \in [TransferIds -> TransferRows]
  /\ razorpay \in [TransferIds -> AtRazorpay]
  /\ faults \in [crashes : Nat, failures : Nat]
  /\ \A t \in TransferIds : IF transfer[t] = NoTransfer THEN razorpay[t] = Nothing
                            ELSE transfer[t].status # "NONE"

BookTypes == books \in [Accounts -> Int]

(* The steps that a call may have to make, given the booking's status st   *)
(* and the transfer rows tr.                                               *)
IdOps == {"send", "wait", "failTransfer", "saveReversal", "saveRelease", "resetAttempts"}

HoldOps == {"claimTransfer", "callTransfer", "saveTransfer"}

PlainOps == {"onConfirmed", "oweRent", "releaseAll", "sendWaiting", "retryTransfers"}

AnySteps ==
  [op : IdOps, id : TransferIds]
    \cup [op : {"claimTransfer"}, id : TransferIds, onHold : BOOLEAN, attempts : Nat]
    \cup [op : {"callTransfer", "saveTransfer"}, id : TransferIds, onHold : BOOLEAN]
    \cup [op : {"reverse"}, id : TransferIds, sent : BOOLEAN]
    \cup [op : {"release"}, id : TransferIds, held : BOOLEAN]
    \cup [op : PlainOps]
    \cup [op : {"onCancelled"}, refunded : Int]
    \cup [op : {"keepRent"}, kept : Int]
    \cup [op : {"sendKept", "createKept"}, amount : Int]

RowsIn(tr) == {t \in TransferIds : tr[t] # NoTransfer}

AboutRow == IdOps \cup HoldOps \cup {"reverse", "release"}

AfterReturn == {"releaseAll", "release", "saveRelease", "sendKept", "createKept"}

Fits(s, st, tr) ==
  /\ s.op \in AboutRow => s.id \in RowsIn(tr)
  /\ s.op \in HoldOps => /\ s.onHold \in BOOLEAN
                         /\ st # "COMPLETED" => s.onHold = tr[s.id].onHold
  /\ s.op = "onCancelled" => s.refunded \in Int
  /\ s.op = "keepRent" => s.kept \in Int
  /\ s.op \in {"sendKept", "createKept"} => s.amount \in Int
  /\ s.op \in {"onCancelled", "keepRent"} => st \notin {"AWAITING_PAYMENT", "CONFIRMED"}
  /\ s.op \in AfterReturn => st = "COMPLETED"
  /\ s.op # "catch"

FitSteps(st, tr) == {s \in AnySteps : Fits(s, st, tr)}

(* What Razorpay has done and the ledger does not say yet is saved next.   *)
SaveOps == {"saveTransfer", "saveReversal"}

LaterSteps(st, tr) == {s \in FitSteps(st, tr) : s.op \notin SaveOps}

TodoFits ==
  todo \in [All -> ListsOf(FitSteps(status, transfer), LaterSteps(status, transfer))]

HeldUntilReturn ==
  /\ status \in {"AWAITING_PAYMENT", "CONFIRMED"} => \A t \in Rows : transfer[t].onHold
  /\ status # "COMPLETED" => \A t \in Rows : transfer[t].onHold => razorpay[t].lender = 0

(* The cash of the transfer (or, negative, of the reversal) that a call is *)
(* about to save.                                                          *)
PendingOf(q, tr) ==
  IF q = <<>> THEN 0
  ELSE IF Head(q).op = "saveTransfer" THEN tr[Head(q).id].amount
  ELSE IF Head(q).op = "saveReversal" THEN -tr[Head(q).id].amount
  ELSE 0

Transferred == SumFunction([t \in TransferIds |-> TransferredOf(t)])

NotPosted == SumFunction([h \in All |-> PendingOf(todo[h], transfer)])

InBalance == faults.crashes = 0 => books.GATEWAY = Transferred - NotPosted

PayoutsInv ==
  /\ Types
  /\ BookTypes
  /\ TodoFits
  /\ HeldUntilReturn
  /\ InBalance

----------------------------------------------------------------------------
(* The steps one by one *)
LEMMA IdStep ==
  ASSUME NEW st, NEW tr, NEW t \in RowsIn(tr), NEW op \in {"send", "wait", "failTransfer", "resetAttempts"}
  PROVE  [op |-> op, id |-> t] \in LaterSteps(st, tr)
  <1>1. PICK s : s = [op |-> op, id |-> t]
    OBVIOUS
  <1>2. s \in AnySteps /\ s.op = op /\ s.id = t
    BY <1>1 DEF AnySteps, IdOps, RowsIn
  <1>3. Fits(s, st, tr)
    BY <1>2 DEF Fits, AboutRow, IdOps, HoldOps, AfterReturn
  <1> QED BY <1>1, <1>2, <1>3 DEF LaterSteps, FitSteps, SaveOps

LEMMA SavingReversal ==
  ASSUME NEW st, NEW tr, NEW t \in RowsIn(tr)
  PROVE  [op |-> "saveReversal", id |-> t] \in FitSteps(st, tr)
  <1>1. PICK s : s = [op |-> "saveReversal", id |-> t]
    OBVIOUS
  <1>2. s \in AnySteps /\ s.op = "saveReversal" /\ s.id = t
    BY <1>1 DEF AnySteps, IdOps, RowsIn
  <1>3. Fits(s, st, tr)
    BY <1>2 DEF Fits, AboutRow, IdOps, HoldOps, AfterReturn
  <1> QED BY <1>1, <1>2, <1>3 DEF FitSteps

LEMMA SavingRelease ==
  ASSUME NEW tr, NEW t \in RowsIn(tr)
  PROVE  [op |-> "saveRelease", id |-> t] \in LaterSteps("COMPLETED", tr)
  <1>1. PICK s : s = [op |-> "saveRelease", id |-> t]
    OBVIOUS
  <1>2. s \in AnySteps /\ s.op = "saveRelease" /\ s.id = t
    BY <1>1 DEF AnySteps, IdOps, RowsIn
  <1>3. Fits(s, "COMPLETED", tr)
    BY <1>2 DEF Fits, AboutRow, IdOps, HoldOps, AfterReturn
  <1> QED BY <1>1, <1>2, <1>3 DEF LaterSteps, FitSteps, SaveOps

LEMMA ClaimStep ==
  ASSUME NEW st, NEW tr, NEW t \in RowsIn(tr), NEW hold \in BOOLEAN, NEW n \in Nat,
         st # "COMPLETED" => hold = tr[t].onHold
  PROVE  [op |-> "claimTransfer", id |-> t, onHold |-> hold, attempts |-> n] \in LaterSteps(st, tr)
  <1>1. PICK s : s = [op |-> "claimTransfer", id |-> t, onHold |-> hold, attempts |-> n]
    OBVIOUS
  <1>2. s \in AnySteps /\ s.op = "claimTransfer" /\ s.id = t /\ s.onHold = hold
    BY <1>1 DEF AnySteps, RowsIn
  <1>3. Fits(s, st, tr)
    BY <1>2 DEF Fits, AboutRow, IdOps, HoldOps, AfterReturn
  <1> QED BY <1>1, <1>2, <1>3 DEF LaterSteps, FitSteps, SaveOps

LEMMA HoldStep ==
  ASSUME NEW st, NEW tr, NEW t \in RowsIn(tr), NEW hold \in BOOLEAN,
         NEW op \in {"callTransfer", "saveTransfer"}, st # "COMPLETED" => hold = tr[t].onHold
  PROVE  /\ [op |-> op, id |-> t, onHold |-> hold] \in FitSteps(st, tr)
         /\ op = "callTransfer" => [op |-> op, id |-> t, onHold |-> hold] \in LaterSteps(st, tr)
  <1>1. PICK s : s = [op |-> op, id |-> t, onHold |-> hold]
    OBVIOUS
  <1>2. s \in AnySteps /\ s.op = op /\ s.id = t /\ s.onHold = hold
    BY <1>1 DEF AnySteps, RowsIn
  <1>3. Fits(s, st, tr)
    BY <1>2 DEF Fits, AboutRow, IdOps, HoldOps, AfterReturn
  <1> QED BY <1>1, <1>2, <1>3 DEF LaterSteps, FitSteps, SaveOps

LEMMA ReverseFits ==
  ASSUME NEW st, NEW tr, NEW t \in RowsIn(tr), NEW sent \in BOOLEAN
  PROVE  [op |-> "reverse", id |-> t, sent |-> sent] \in LaterSteps(st, tr)
  <1>1. PICK s : s = [op |-> "reverse", id |-> t, sent |-> sent]
    OBVIOUS
  <1>2. s \in AnySteps /\ s.op = "reverse" /\ s.id = t
    BY <1>1 DEF AnySteps, RowsIn
  <1>3. Fits(s, st, tr)
    BY <1>2 DEF Fits, AboutRow, IdOps, HoldOps, AfterReturn
  <1> QED BY <1>1, <1>2, <1>3 DEF LaterSteps, FitSteps, SaveOps

LEMMA ReleaseFits ==
  ASSUME NEW tr, NEW t \in RowsIn(tr), NEW held \in BOOLEAN
  PROVE  [op |-> "release", id |-> t, held |-> held] \in LaterSteps("COMPLETED", tr)
  <1>1. PICK s : s = [op |-> "release", id |-> t, held |-> held]
    OBVIOUS
  <1>2. s \in AnySteps /\ s.op = "release" /\ s.id = t
    BY <1>1 DEF AnySteps, RowsIn
  <1>3. Fits(s, "COMPLETED", tr)
    BY <1>2 DEF Fits, AboutRow, IdOps, HoldOps, AfterReturn
  <1> QED BY <1>1, <1>2, <1>3 DEF LaterSteps, FitSteps, SaveOps

LEMMA PlainStep ==
  ASSUME NEW st, NEW tr, NEW op \in PlainOps, op = "releaseAll" => st = "COMPLETED"
  PROVE  [op |-> op] \in LaterSteps(st, tr)
  <1>1. PICK s : s = [op |-> op]
    OBVIOUS
  <1>2. s \in AnySteps /\ s.op = op
    BY <1>1 DEF AnySteps
  <1>3. Fits(s, st, tr)
    BY <1>2 DEF Fits, AboutRow, IdOps, HoldOps, AfterReturn, PlainOps
  <1> QED BY <1>1, <1>2, <1>3 DEF LaterSteps, FitSteps, SaveOps, PlainOps

LEMMA CancelSteps ==
  ASSUME NEW st, NEW tr, NEW n \in Int, st \notin {"AWAITING_PAYMENT", "CONFIRMED"}
  PROVE  /\ [op |-> "onCancelled", refunded |-> n] \in LaterSteps(st, tr)
         /\ [op |-> "keepRent", kept |-> n] \in LaterSteps(st, tr)
  <1>1. PICK s, k : s = [op |-> "onCancelled", refunded |-> n] /\ k = [op |-> "keepRent", kept |-> n]
    OBVIOUS
  <1>2. /\ s \in AnySteps /\ s.op = "onCancelled" /\ s.refunded = n
        /\ k \in AnySteps /\ k.op = "keepRent" /\ k.kept = n
    BY <1>1 DEF AnySteps
  <1>3. Fits(s, st, tr) /\ Fits(k, st, tr)
    BY <1>2 DEF Fits, AboutRow, IdOps, HoldOps, AfterReturn
  <1> QED BY <1>1, <1>2, <1>3 DEF LaterSteps, FitSteps, SaveOps

LEMMA KeptSteps ==
  ASSUME NEW tr, NEW n \in Int, NEW op \in {"sendKept", "createKept"}
  PROVE  [op |-> op, amount |-> n] \in LaterSteps("COMPLETED", tr)
  <1>1. PICK s : s = [op |-> op, amount |-> n]
    OBVIOUS
  <1>2. s \in AnySteps /\ s.op = op /\ s.amount = n
    BY <1>1 DEF AnySteps
  <1>3. Fits(s, "COMPLETED", tr)
    BY <1>2 DEF Fits, AboutRow, IdOps, HoldOps, AfterReturn
  <1> QED BY <1>1, <1>2, <1>3 DEF LaterSteps, FitSteps, SaveOps

----------------------------------------------------------------------------
(* What every step keeps: rows stay, with their amount and, until the      *)
(* rental is over, their hold; and the booking's status does not go back.  *)
RowsKept ==
  \A t \in Rows : /\ transfer'[t] # NoTransfer
                  /\ transfer'[t].amount = transfer[t].amount
                  /\ status' # "COMPLETED" => transfer'[t].onHold = transfer[t].onHold

Forward ==
  /\ status' \in {"AWAITING_PAYMENT", "CONFIRMED"} => status \in {"AWAITING_PAYMENT", "CONFIRMED"}
  /\ status = "COMPLETED" => status' = "COMPLETED"

LEMMA StepsStay ==
  ASSUME RowsKept, Forward
  PROVE  /\ FitSteps(status, transfer) \subseteq FitSteps(status', transfer')
         /\ LaterSteps(status, transfer) \subseteq LaterSteps(status', transfer')
         /\ LaterSteps(status', transfer') \subseteq FitSteps(status', transfer')
  <1>1. ASSUME NEW s \in AnySteps, Fits(s, status, transfer)
        PROVE  Fits(s, status', transfer')
    <2>1. s.op \in AboutRow => s.id \in RowsIn(transfer')
      BY <1>1 DEF Fits, RowsKept, RowsIn, Rows
    <2>2. s.op \in HoldOps =>
            s.onHold \in BOOLEAN /\ (status' # "COMPLETED" => s.onHold = transfer'[s.id].onHold)
      <3>1. HoldOps \subseteq AboutRow
        BY DEF AboutRow
      <3>2. s.op \in HoldOps => s.id \in Rows
        BY <1>1, <3>1 DEF Fits, RowsIn, Rows
      <3> QED BY <1>1, <3>2 DEF Fits, RowsKept, Forward
    <2> QED BY <1>1, <2>1, <2>2 DEF Fits, Forward
  <1> QED BY <1>1 DEF FitSteps, LaterSteps

LEMMA SamePending ==
  ASSUME TodoFits, RowsKept, NEW h \in All, todo'[h] = todo[h]
  PROVE  PendingOf(todo'[h], transfer') = PendingOf(todo[h], transfer)
  <1>1. PICK q : q = todo[h]
    OBVIOUS
  <1>2. CASE q = <<>>
    BY <1>1, <1>2 DEF PendingOf
  <1>3. CASE q # <<>>
    <2>1. Head(q) \in FitSteps(status, transfer)
      BY <1>1, <1>3, HeadFits DEF TodoFits
    <2>2. Head(q).op \in SaveOps => Head(q).id \in Rows
      BY <2>1 DEF FitSteps, Fits, SaveOps, AboutRow, IdOps, HoldOps, RowsIn, Rows
    <2>3. Head(q).op \in SaveOps => transfer'[Head(q).id].amount = transfer[Head(q).id].amount
      BY <2>2 DEF RowsKept
    <2> QED BY <1>1, <2>3 DEF PendingOf, SaveOps
  <1> QED BY <1>2, <1>3

(* The cash that a call which does not save now has pending is none.       *)
LEMMA NothingPending ==
  ASSUME NEW q, NEW tr, q = <<>> \/ Head(q).op \notin SaveOps
  PROVE  PendingOf(q, tr) = 0
  BY DEF PendingOf, SaveOps

LEMMA LaterPending ==
  ASSUME NEW st, NEW tr, NEW q \in Seq(LaterSteps(st, tr))
  PROVE  PendingOf(q, tr) = 0
  <1>1. CASE q = <<>>
    BY <1>1, NothingPending
  <1>2. CASE q # <<>>
    <2>1. Head(q) \in LaterSteps(st, tr)
      BY <1>2
    <2>2. Head(q).op \notin SaveOps
      BY <2>1 DEF LaterSteps
    <2> QED BY <2>2, NothingPending
  <1> QED BY <1>1, <1>2

(* A call goes on with other steps, *)
LEMMA GoesOn ==
  ASSUME TodoFits, RowsKept, Forward, NEW h \in All, todo[h] # <<>>,
         NEW steps \in Seq(LaterSteps(status', transfer')), Continue(h, steps)
  PROVE  /\ TodoFits'
         /\ PendingOf(todo'[h], transfer') = 0
         /\ \A g \in All : g # h => todo'[g] = todo[g]
  <1> DEFINE F == FitSteps(status, transfer)
             L == LaterSteps(status, transfer)
             F2 == FitSteps(status', transfer')
             L2 == LaterSteps(status', transfer')
  <1>1. F \subseteq F2 /\ L \subseteq L2 /\ L2 \subseteq F2
    BY StepsStay
  <1>2. todo \in [All -> ListsOf(F, L)]
    BY DEF TodoFits
  <1>3. PICK r : r = steps \o Tail(todo[h])
    OBVIOUS
  <1>4. todo' = [todo EXCEPT ![h] = r]
    BY <1>3 DEF Continue
  <1>5. steps \in Seq(L2)
    OBVIOUS
  <1> HIDE DEF F, L, F2, L2
  <1>6. todo[h] \in ListsOf(F, L)
    BY <1>2
  <1>7. r \in Seq(L2) /\ r \in ListsOf(F2, L2)
    BY <1>1, <1>3, <1>5, <1>6, StepsReplaced
  <1>8. \A g \in All : todo[g] \in ListsOf(F2, L2)
    BY <1>1, <1>2, ListsGrow
  <1>9. todo' \in [All -> ListsOf(F2, L2)]
    BY <1>2, <1>4, <1>7, <1>8
  <1>10. todo'[h] = r /\ \A g \in All : g # h => todo'[g] = todo[g]
    BY <1>2, <1>4
  <1>11. TodoFits'
    BY <1>9 DEF TodoFits, F2, L2
  <1>12. PendingOf(r, transfer') = 0
    BY <1>7, LaterPending DEF L2
  <1> QED BY <1>10, <1>11, <1>12

(* ... with one that saves, *)
LEMMA GoesOnToSave ==
  ASSUME TodoFits, RowsKept, Forward, NEW h \in All, todo[h] # <<>>,
         NEW s \in FitSteps(status', transfer'), Continue(h, <<s>>)
  PROVE  /\ TodoFits'
         /\ todo'[h] # <<>> /\ Head(todo'[h]) = s
         /\ \A g \in All : g # h => todo'[g] = todo[g]
  <1> DEFINE F == FitSteps(status, transfer)
             L == LaterSteps(status, transfer)
             F2 == FitSteps(status', transfer')
             L2 == LaterSteps(status', transfer')
  <1>1. F \subseteq F2 /\ L \subseteq L2 /\ L2 \subseteq F2
    BY StepsStay
  <1>2. todo \in [All -> ListsOf(F, L)]
    BY DEF TodoFits
  <1>3. PICK r : r = <<s>> \o Tail(todo[h])
    OBVIOUS
  <1>4. todo' = [todo EXCEPT ![h] = r]
    BY <1>3 DEF Continue
  <1>5. s \in F2
    OBVIOUS
  <1> HIDE DEF F, L, F2, L2
  <1>6. todo[h] \in ListsOf(F, L)
    BY <1>2
  <1>7. r \in ListsOf(F2, L2) /\ r # <<>> /\ Head(r) = s
    BY <1>1, <1>3, <1>5, <1>6, StepReplaced
  <1>8. \A g \in All : todo[g] \in ListsOf(F2, L2)
    BY <1>1, <1>2, ListsGrow
  <1>9. todo' \in [All -> ListsOf(F2, L2)]
    BY <1>2, <1>4, <1>7, <1>8
  <1>10. todo'[h] = r /\ \A g \in All : g # h => todo'[g] = todo[g]
    BY <1>2, <1>4
  <1>11. TodoFits'
    BY <1>9 DEF TodoFits, F2, L2
  <1> QED BY <1>7, <1>10, <1>11

(* ... or starts. *)
LEMMA CallStarts ==
  ASSUME TodoFits, RowsKept, Forward, NEW h \in All,
         NEW steps \in Seq(LaterSteps(status', transfer')), Begin(h, steps)
  PROVE  /\ TodoFits'
         /\ todo[h] = <<>>
         /\ PendingOf(todo'[h], transfer') = 0
         /\ \A g \in All : g # h => todo'[g] = todo[g]
  <1> DEFINE F == FitSteps(status, transfer)
             L == LaterSteps(status, transfer)
             F2 == FitSteps(status', transfer')
             L2 == LaterSteps(status', transfer')
  <1>1. F \subseteq F2 /\ L \subseteq L2 /\ L2 \subseteq F2
    BY StepsStay
  <1>2. todo \in [All -> ListsOf(F, L)]
    BY DEF TodoFits
  <1>4. todo' = [todo EXCEPT ![h] = steps] /\ todo[h] = <<>>
    BY DEF Begin, Free
  <1>5. steps \in Seq(L2)
    OBVIOUS
  <1>6. PendingOf(steps, transfer') = 0
    BY LaterPending
  <1> HIDE DEF F, L, F2, L2
  <1>7. steps \in ListsOf(F2, L2)
    <2>1. steps \in Seq(F2) /\ (steps # <<>> => Tail(steps) \in Seq(L2))
      BY <1>1, <1>5
    <2> QED BY <2>1 DEF ListsOf
  <1>8. \A g \in All : todo[g] \in ListsOf(F2, L2)
    BY <1>1, <1>2, ListsGrow
  <1>9. todo' \in [All -> ListsOf(F2, L2)]
    BY <1>2, <1>4, <1>7, <1>8
  <1>10. todo'[h] = steps /\ \A g \in All : g # h => todo'[g] = todo[g]
    BY <1>2, <1>4
  <1>11. TodoFits'
    BY <1>9 DEF TodoFits, F2, L2
  <1> QED BY <1>4, <1>6, <1>10, <1>11

----------------------------------------------------------------------------
(* The sums *)

LEMMA IdsAreFinite == IsFiniteSet(TransferIds) /\ TransferIds \subseteq Nat /\ IsFiniteSet(All)
  <1>1. IsFiniteSet(1..MaxTransfers)
    BY PayoutsAssumption, FS_Interval
  <1>2. IsFiniteSet(Requests \cup Workers)
    BY HandlersAssumption, FS_Union
  <1> QED BY <1>1, <1>2, PayoutsAssumption DEF TransferIds, All

LEMMA TransferredType ==
  ASSUME Types
  PROVE  \A t \in TransferIds :
           /\ transfer[t].amount \in Int /\ TransferredOf(t) \in Int
           /\ razorpay[t].held \in Nat /\ razorpay[t].lender \in Nat /\ razorpay[t].failed \in Nat
  <1> TAKE t \in TransferIds
  <1>1. PICK a, n, m, k : a = transfer[t].amount /\ n = razorpay[t].held
                          /\ m = razorpay[t].lender /\ k = razorpay[t].failed
    OBVIOUS
  <1>2. a \in Int /\ n \in Nat /\ m \in Nat /\ k \in Nat
    BY <1>1 DEF Types, TransferRows, AtRazorpay
  <1>3. a * (n + m + k) \in Int
    BY <1>2
  <1> QED BY <1>1, <1>2, <1>3 DEF TransferredOf

LEMMA TransferredChanged ==
  ASSUME Types, Types', NEW t \in TransferIds,
         \A u \in TransferIds : u # t => TransferredOf(u)' = TransferredOf(u)
  PROVE  /\ Transferred \in Int
         /\ Transferred' = Transferred + TransferredOf(t)' - TransferredOf(t)
  <1>1. PICK f : f = [u \in TransferIds |-> TransferredOf(u)]
    OBVIOUS
  <1>2. PICK k : k = [u \in TransferIds |-> TransferredOf(u)']
    OBVIOUS
  <1>3. f \in [TransferIds -> Int] /\ f[t] = TransferredOf(t)
    BY <1>1, TransferredType
  <1>4. PICK v : v = TransferredOf(t)'
    OBVIOUS
  <1>5. PICK a, n, m, l : a = transfer'[t].amount /\ n = razorpay'[t].held
                          /\ m = razorpay'[t].lender /\ l = razorpay'[t].failed
    OBVIOUS
  <1>6. v \in Int
    <2>1. a \in Int /\ n \in Nat /\ m \in Nat /\ l \in Nat
      BY <1>5 DEF Types, TransferRows, AtRazorpay
    <2>2. a * (n + m + l) \in Int
      BY <2>1
    <2> QED BY <1>4, <1>5, <2>2 DEF TransferredOf
  <1>7. k = [f EXCEPT ![t] = v]
    BY <1>1, <1>2, <1>4
  <1>8. SumFunction(f) \in Int /\ SumFunction(k) = SumFunction(f) + v - f[t]
    BY <1>3, <1>6, <1>7, IdsAreFinite, SumChanged
  <1>9. Transferred = SumFunction(f) /\ Transferred' = SumFunction(k)
    BY <1>1, <1>2 DEF Transferred
  <1> QED BY <1>3, <1>4, <1>8, <1>9

LEMMA PendingType ==
  ASSUME NEW st, NEW tr \in [TransferIds -> TransferRows],
         NEW q \in ListsOf(FitSteps(st, tr), LaterSteps(st, tr))
  PROVE  PendingOf(q, tr) \in Int
  <1>2. CASE q = <<>> \/ Head(q).op \notin SaveOps
    BY <1>2, NothingPending
  <1>3. CASE q # <<>> /\ Head(q).op \in SaveOps
    <2>1. Head(q) \in FitSteps(st, tr)
      BY <1>3, HeadFits
    <2>2. PICK t : t = Head(q).id
      OBVIOUS
    <2>3. t \in TransferIds
      BY <1>3, <2>1, <2>2 DEF FitSteps, Fits, SaveOps, AboutRow, IdOps, HoldOps, RowsIn
    <2>4. tr[t].amount \in Int
      BY <2>3 DEF TransferRows
    <2> QED BY <2>2, <2>4 DEF PendingOf
  <1> QED BY <1>2, <1>3

LEMMA PendingChanged ==
  ASSUME Types, TodoFits, Types', TodoFits', RowsKept, NEW h \in All,
         \A g \in All : g # h => todo'[g] = todo[g]
  PROVE  /\ NotPosted \in Int
         /\ NotPosted' = NotPosted + PendingOf(todo'[h], transfer') - PendingOf(todo[h], transfer)
  <1>1. PICK f : f = [g \in All |-> PendingOf(todo[g], transfer)]
    OBVIOUS
  <1>2. PICK k : k = [g \in All |-> PendingOf(todo'[g], transfer')]
    OBVIOUS
  <1>3. f \in [All -> Int] /\ f[h] = PendingOf(todo[h], transfer)
    BY <1>1, PendingType DEF Types, TodoFits
  <1>4. PICK v : v = PendingOf(todo'[h], transfer')
    OBVIOUS
  <1>6. v \in Int
    <2>1. /\ transfer' \in [TransferIds -> TransferRows]
          /\ todo'[h] \in ListsOf(FitSteps(status', transfer'), LaterSteps(status', transfer'))
      BY DEF Types, TodoFits
    <2> QED BY <1>4, <2>1, PendingType
  <1>7. \A g \in All : g # h => PendingOf(todo'[g], transfer') = PendingOf(todo[g], transfer)
    BY SamePending
  <1>8. k = [f EXCEPT ![h] = v]
    BY <1>1, <1>2, <1>4, <1>7
  <1>9. SumFunction(f) \in Int /\ SumFunction(k) = SumFunction(f) + v - f[h]
    BY <1>3, <1>6, <1>8, IdsAreFinite, SumChanged
  <1>10. NotPosted = SumFunction(f) /\ NotPosted' = SumFunction(k)
    BY <1>1, <1>2 DEF NotPosted
  <1> QED BY <1>3, <1>4, <1>9, <1>10

----------------------------------------------------------------------------
(* Changes of the rows *)

SameSums == \A u \in TransferIds : TransferredOf(u)' = TransferredOf(u)

(* The rows of a step are as they should be.                               *)
RowsStand == Types' /\ HeldUntilReturn' /\ RowsKept /\ Forward

SameFaults == faults' \in [crashes : Nat, failures : Nat] /\ faults'.crashes = faults.crashes

LEMMA FaultsStay ==
  ASSUME Types, UNCHANGED faults \/ Refused
  PROVE  SameFaults
  BY DEF Types, Refused, SameFaults

LEMMA NothingChanged ==
  ASSUME Types, HeldUntilReturn, UNCHANGED <<status, transfer, razorpay>>, SameFaults
  PROVE  RowsStand /\ SameSums
  <1>1. Types'
    BY DEF Types, SameFaults
  <1>2. HeldUntilReturn' /\ RowsKept /\ Forward
    BY DEF HeldUntilReturn, RowsKept, Forward, Rows
  <1> QED BY <1>1, <1>2 DEF RowsStand, SameSums, TransferredOf

LEMMA RowChanged ==
  ASSUME Types, HeldUntilReturn, NEW t \in Rows, NEW row \in TransferRows,
         transfer' = [transfer EXCEPT ![t] = row], row.status # "NONE",
         row.amount = transfer[t].amount,
         row.onHold = transfer[t].onHold \/ status = "COMPLETED",
         UNCHANGED <<status, razorpay>>, SameFaults
  PROVE  RowsStand /\ SameSums /\ RowsIn(transfer') = Rows
  <1>1. t \in TransferIds /\ transfer[t] # NoTransfer /\ row # NoTransfer
    BY DEF Rows, NoTransfer
  <1>2. /\ transfer' \in [TransferIds -> TransferRows] /\ transfer'[t] = row
        /\ \A u \in TransferIds : u # t => transfer'[u] = transfer[u]
    BY <1>1 DEF Types
  <1>3. Types'
    BY <1>1, <1>2 DEF Types, SameFaults
  <1>4. RowsIn(transfer') = Rows /\ Rows' = Rows
    BY <1>1, <1>2 DEF RowsIn, Rows
  <1>5. RowsKept
    BY <1>1, <1>2 DEF RowsKept, Rows
  <1>6. HeldUntilReturn'
    BY <1>1, <1>2, <1>4 DEF HeldUntilReturn
  <1>7. \A u \in TransferIds : transfer'[u].amount = transfer[u].amount
    BY <1>1, <1>2
  <1> QED BY <1>3, <1>4, <1>5, <1>6, <1>7 DEF RowsStand, Forward, SameSums, TransferredOf

(* A row with another status, with more attempts, sent or without a hold.  *)
LEMMA StatusSet ==
  ASSUME NEW old \in TransferRows, NEW s \in RowStatuses
  PROVE  /\ [old EXCEPT !.status = s] \in TransferRows
         /\ [old EXCEPT !.status = s].status = s
         /\ [old EXCEPT !.status = s].amount = old.amount
         /\ [old EXCEPT !.status = s].onHold = old.onHold
  BY DEF TransferRows

LEMMA AttemptsSet ==
  ASSUME NEW old \in TransferRows, NEW n \in Nat
  PROVE  /\ [old EXCEPT !.attempts = n] \in TransferRows
         /\ [old EXCEPT !.attempts = n].status = old.status
         /\ [old EXCEPT !.attempts = n].amount = old.amount
         /\ [old EXCEPT !.attempts = n].onHold = old.onHold
  BY DEF TransferRows

LEMMA SentSet ==
  ASSUME NEW old \in TransferRows, NEW s \in RowStatuses
  PROVE  /\ [old EXCEPT !.sent = TRUE, !.status = s] \in TransferRows
         /\ [old EXCEPT !.sent = TRUE, !.status = s].status = s
         /\ [old EXCEPT !.sent = TRUE, !.status = s].amount = old.amount
         /\ [old EXCEPT !.sent = TRUE, !.status = s].onHold = old.onHold
  BY DEF TransferRows

LEMMA HoldSet ==
  ASSUME NEW old \in TransferRows
  PROVE  /\ [old EXCEPT !.onHold = FALSE] \in TransferRows
         /\ [old EXCEPT !.onHold = FALSE].status = old.status
         /\ [old EXCEPT !.onHold = FALSE].amount = old.amount
  BY DEF TransferRows

----------------------------------------------------------------------------
(* Steps that neither call Razorpay nor save *)

LEMMA StepHolds ==
  ASSUME PayoutsInv, RowsStand, SameSums, SameFaults, books' = books,
         NEW h \in All, todo[h] # <<>>, Head(todo[h]).op \notin SaveOps,
         NEW steps \in Seq(LaterSteps(status', transfer')), Continue(h, steps)
  PROVE  PayoutsInv'
  <1>1. /\ TodoFits' /\ PendingOf(todo'[h], transfer') = 0
        /\ \A g \in All : g # h => todo'[g] = todo[g]
    BY GoesOn DEF PayoutsInv, RowsStand
  <1>2. PendingOf(todo[h], transfer) = 0
    BY NothingPending
  <1>3. NotPosted \in Int /\ NotPosted' = NotPosted + PendingOf(todo'[h], transfer') - PendingOf(todo[h], transfer)
    BY <1>1, PendingChanged DEF PayoutsInv, RowsStand
  <1>4. NotPosted' = NotPosted
    BY <1>1, <1>2, <1>3
  <1>5. Transferred' = Transferred
    BY DEF SameSums, Transferred
  <1>6. InBalance'
    BY <1>4, <1>5 DEF PayoutsInv, InBalance, SameFaults
  <1>7. BookTypes'
    BY DEF PayoutsInv, BookTypes
  <1> QED BY <1>1, <1>6, <1>7 DEF PayoutsInv, RowsStand

LEMMA StartHolds ==
  ASSUME PayoutsInv, RowsStand, SameSums, SameFaults, books' = books, NEW h \in All,
         NEW steps \in Seq(LaterSteps(status', transfer')), Begin(h, steps)
  PROVE  PayoutsInv'
  <1>1. /\ TodoFits' /\ PendingOf(todo'[h], transfer') = 0 /\ todo[h] = <<>>
        /\ \A g \in All : g # h => todo'[g] = todo[g]
    BY CallStarts DEF PayoutsInv, RowsStand
  <1>2. PendingOf(todo[h], transfer) = 0
    BY <1>1, NothingPending
  <1>3. NotPosted \in Int /\ NotPosted' = NotPosted + PendingOf(todo'[h], transfer') - PendingOf(todo[h], transfer)
    BY <1>1, PendingChanged DEF PayoutsInv, RowsStand
  <1>4. NotPosted' = NotPosted
    BY <1>1, <1>2, <1>3
  <1>5. Transferred' = Transferred
    BY DEF SameSums, Transferred
  <1>6. InBalance'
    BY <1>4, <1>5 DEF PayoutsInv, InBalance, SameFaults
  <1>7. BookTypes'
    BY DEF PayoutsInv, BookTypes
  <1> QED BY <1>1, <1>6, <1>7 DEF PayoutsInv, RowsStand

(* Where no call goes on. *)
LEMMA RestHolds ==
  ASSUME PayoutsInv, RowsStand, SameSums, SameFaults, books' = books, todo' = todo
  PROVE  PayoutsInv'
  <1>1. TodoFits'
    <2>1. \A g \in All :
            todo[g] \in ListsOf(FitSteps(status', transfer'), LaterSteps(status', transfer'))
      BY StepsStay, ListsGrow DEF PayoutsInv, TodoFits, RowsStand
    <2> QED BY <2>1 DEF PayoutsInv, TodoFits
  <1>2. \A g \in All : PendingOf(todo'[g], transfer') = PendingOf(todo[g], transfer)
    BY SamePending DEF PayoutsInv, RowsStand
  <1>3. NotPosted' = NotPosted
    BY <1>2 DEF NotPosted
  <1>5. Transferred' = Transferred
    BY DEF SameSums, Transferred
  <1>6. InBalance'
    BY <1>3, <1>5 DEF PayoutsInv, InBalance, SameFaults
  <1>7. BookTypes'
    BY DEF PayoutsInv, BookTypes
  <1> QED BY <1>1, <1>6, <1>7 DEF PayoutsInv, RowsStand

LEMMA MoneyMoves ==
  ASSUME PayoutsInv, RowsStand, SameFaults, BookTypes', TodoFits', NEW h \in All,
         NEW t \in TransferIds, \A u \in TransferIds : u # t => TransferredOf(u)' = TransferredOf(u),
         \A g \in All : g # h => todo'[g] = todo[g],
         books'.GATEWAY - books.GATEWAY =
           (TransferredOf(t)' - TransferredOf(t))
             - (PendingOf(todo'[h], transfer') - PendingOf(todo[h], transfer))
  PROVE  PayoutsInv'
  <1>1. PICK old, new, from, to : /\ old = TransferredOf(t) /\ new = TransferredOf(t)'
                                  /\ from = PendingOf(todo[h], transfer)
                                  /\ to = PendingOf(todo'[h], transfer')
    OBVIOUS
  <1>2. /\ Transferred \in Int /\ Transferred' = Transferred + new - old
        /\ NotPosted \in Int /\ NotPosted' = NotPosted + to - from
    BY <1>1, TransferredChanged, PendingChanged DEF PayoutsInv, RowsStand
  <1>3. old \in Int /\ from \in Int
    BY <1>1, TransferredType, PendingType DEF PayoutsInv, Types, TodoFits
  <1>4. new \in Int
    <2>1. PICK a, n, m, l : a = transfer'[t].amount /\ n = razorpay'[t].held
                            /\ m = razorpay'[t].lender /\ l = razorpay'[t].failed
      OBVIOUS
    <2>2. a \in Int /\ n \in Nat /\ m \in Nat /\ l \in Nat
      BY <2>1 DEF RowsStand, Types, TransferRows, AtRazorpay
    <2>3. a * (n + m + l) \in Int
      BY <2>2
    <2> QED BY <1>1, <2>1, <2>3 DEF TransferredOf
  <1>5. to \in Int
    <2>1. /\ transfer' \in [TransferIds -> TransferRows]
          /\ todo'[h] \in ListsOf(FitSteps(status', transfer'), LaterSteps(status', transfer'))
      BY DEF RowsStand, Types, TodoFits
    <2> QED BY <1>1, <2>1, PendingType
  <1>6. books.GATEWAY \in Int /\ books'.GATEWAY \in Int
    BY DEF PayoutsInv, BookTypes, Accounts, Zero
  <1>7. InBalance'
    <2>1. books'.GATEWAY - books.GATEWAY = (new - old) - (to - from)
      BY <1>1
    <2>2. ASSUME faults'.crashes = 0 PROVE books'.GATEWAY = Transferred' - NotPosted'
      <3>1. books.GATEWAY = Transferred - NotPosted
        BY <2>2 DEF PayoutsInv, InBalance, SameFaults
      <3> QED BY <1>2, <1>3, <1>4, <1>5, <1>6, <2>1, <3>1
    <2> QED BY <2>2 DEF InBalance
  <1> QED BY <1>7 DEF PayoutsInv, RowsStand

(* What a transfer and a reversal do to the balance at Razorpay.           *)
LEMMA TransferPosted ==
  ASSUME NEW b \in [Accounts -> Int], NEW n \in Int
  PROVE  /\ Posted(b, TransferPostings(n)) \in [Accounts -> Int]
         /\ Posted(b, TransferPostings(n)).GATEWAY = b.GATEWAY + n
  BY DEF Posted, TransferPostings, Move, Zero, Accounts

LEMMA ReversalPosted ==
  ASSUME NEW b \in [Accounts -> Int], NEW n \in Int
  PROVE  /\ Posted(b, Reversal(n)) \in [Accounts -> Int]
         /\ Posted(b, Reversal(n)).GATEWAY = b.GATEWAY - n
  BY DEF Posted, Reversal, ReversalPostings, Move, Zero, Accounts

----------------------------------------------------------------------------
(* The actions *)

LEMMA HeadStep ==
  ASSUME PayoutsInv, NEW h \in All, todo[h] # <<>>
  PROVE  Fits(Head(todo[h]), status, transfer)
  <1>1. Head(todo[h]) \in FitSteps(status, transfer)
    BY HeadFits DEF PayoutsInv, TodoFits
  <1> QED BY <1>1 DEF FitSteps

LEMMA StepRow ==
  ASSUME PayoutsInv, NEW h \in All, NEW op \in AboutRow, At(h, op)
  PROVE  /\ todo[h] # <<>> /\ Head(todo[h]).op = op /\ Arg(h) = Head(todo[h])
         /\ Arg(h).id \in Rows /\ Arg(h).id \in RowsIn(transfer) /\ Arg(h).id \in TransferIds
         /\ transfer[Arg(h).id] \in TransferRows /\ razorpay[Arg(h).id] \in AtRazorpay
         /\ transfer[Arg(h).id].status # "NONE"
  <1>1. Fits(Head(todo[h]), status, transfer)
    BY HeadStep DEF At
  <1>2. Arg(h).id \in RowsIn(transfer)
    BY <1>1 DEF Fits, At, Arg
  <1> QED BY <1>2 DEF At, Arg, RowsIn, Rows, PayoutsInv, Types

LEMMA Unmoved ==
  ASSUME PayoutsInv, UNCHANGED <<status, transfer, razorpay>>, UNCHANGED faults \/ Refused
  PROVE  RowsStand /\ SameSums /\ SameFaults
  BY NothingChanged, FaultsStay DEF PayoutsInv

LEMMA RowOps ==
  /\ IdOps \subseteq AboutRow /\ HoldOps \subseteq AboutRow
  /\ {"reverse", "release"} \subseteq AboutRow
  BY DEF AboutRow

LEMMA SendHolds ==
  ASSUME PayoutsInv, NEW h \in All, Send(h)
  PROVE  PayoutsInv'
  <1>1. /\ todo[h] # <<>> /\ Head(todo[h]).op = "send" /\ Arg(h).id \in RowsIn(transfer)
        /\ transfer[Arg(h).id] \in TransferRows
    BY StepRow, RowOps DEF Send, IdOps
  <1>2. RowsStand /\ SameSums /\ SameFaults
    BY Unmoved DEF Send
  <1>3. PICK t : t = Arg(h).id
    OBVIOUS
  <1>4. PICK s : /\ Continue(h, <<s>>)
                 /\ \/ s = [op |-> "wait", id |-> t]
                    \/ s = [op |-> "claimTransfer", id |-> t, onHold |-> transfer[t].onHold,
                            attempts |-> transfer[t].attempts]
    BY <1>3 DEF Send
  <1>5. s \in LaterSteps(status, transfer)
    <2>1. transfer[t].onHold \in BOOLEAN /\ transfer[t].attempts \in Nat
      BY <1>1, <1>3 DEF TransferRows
    <2> QED BY <1>1, <1>3, <1>4, <2>1, IdStep, ClaimStep
  <1>6. status' = status /\ transfer' = transfer /\ books' = books
    BY DEF Send
  <1>7. <<s>> \in Seq(LaterSteps(status', transfer'))
    BY <1>5, <1>6, OneStep
  <1> QED BY <1>1, <1>2, <1>4, <1>6, <1>7, StepHolds DEF SaveOps

(* A call that only returns, *)
LEMMA ReturnHolds ==
  ASSUME PayoutsInv, NEW h \in All, todo[h] # <<>>, Head(todo[h]).op \notin SaveOps, Return(h),
         RowsStand, SameSums, SameFaults, books' = books
  PROVE  PayoutsInv'
  <1>1. <<>> \in Seq(LaterSteps(status', transfer'))
    OBVIOUS
  <1> QED BY <1>1, StepHolds DEF Return

(* ... sets the status of its row and returns. *)
LEMMA StatusHolds ==
  ASSUME PayoutsInv, NEW h \in All, NEW op \in AboutRow \ SaveOps, At(h, op), Return(h),
         NEW s \in RowStatuses \ {"NONE"},
         transfer' = [transfer EXCEPT ![Arg(h).id].status = s],
         UNCHANGED <<status, razorpay, books, faults>>
  PROVE  PayoutsInv'
  <1>1. PICK t : t = Arg(h).id
    OBVIOUS
  <1>2. t \in Rows /\ transfer[t] \in TransferRows /\ todo[h] # <<>> /\ Head(todo[h]).op = op
    BY <1>1, StepRow
  <1>3. PICK row : row = [transfer[t] EXCEPT !.status = s]
    OBVIOUS
  <1>4. row \in TransferRows /\ row.status = s /\ row.amount = transfer[t].amount
        /\ row.onHold = transfer[t].onHold
    BY <1>2, <1>3, StatusSet
  <1>5. transfer' = [transfer EXCEPT ![t] = row]
    BY <1>1, <1>3
  <1>6. SameFaults
    BY FaultsStay DEF PayoutsInv
  <1>7. RowsStand /\ SameSums
    BY <1>2, <1>4, <1>5, <1>6, RowChanged DEF PayoutsInv
  <1> QED BY <1>2, <1>6, <1>7, ReturnHolds

LEMMA WaitHolds ==
  ASSUME PayoutsInv, NEW h \in All, Wait(h)
  PROVE  PayoutsInv'
  <1>1. "wait" \in AboutRow \ SaveOps /\ "AWAITING_ACCOUNT" \in RowStatuses \ {"NONE"}
    BY DEF AboutRow, IdOps, SaveOps, RowStatuses
  <1>2. /\ At(h, "wait") /\ Return(h)
        /\ transfer' = [transfer EXCEPT ![Arg(h).id].status = "AWAITING_ACCOUNT"]
        /\ UNCHANGED <<status, razorpay, books, faults>>
    BY DEF Wait
  <1> QED BY <1>1, <1>2, StatusHolds

LEMMA FailHolds ==
  ASSUME PayoutsInv, NEW h \in All, Fail(h)
  PROVE  PayoutsInv'
  <1>1. "failTransfer" \in AboutRow \ SaveOps /\ "FAILED" \in RowStatuses \ {"NONE"}
    BY DEF AboutRow, IdOps, SaveOps, RowStatuses
  <1>2. /\ At(h, "failTransfer") /\ Return(h)
        /\ transfer' = [transfer EXCEPT ![Arg(h).id].status = "FAILED"]
        /\ UNCHANGED <<status, razorpay, books, faults>>
    BY DEF Fail
  <1> QED BY <1>1, <1>2, StatusHolds

LEMMA DropHolds ==
  ASSUME PayoutsInv, NEW h \in All, Drop(h)
  PROVE  PayoutsInv'
  <1>1. "reverse" \in AboutRow \ SaveOps /\ "REVERSED" \in RowStatuses \ {"NONE"}
    BY DEF AboutRow, IdOps, SaveOps, RowStatuses
  <1>2. /\ At(h, "reverse") /\ Return(h)
        /\ transfer' = [transfer EXCEPT ![Arg(h).id].status = "REVERSED"]
        /\ UNCHANGED <<status, razorpay, books, faults>>
    BY DEF Drop
  <1> QED BY <1>1, <1>2, StatusHolds

LEMMA ClaimHolds ==
  ASSUME PayoutsInv, NEW h \in All, Claim(h)
  PROVE  PayoutsInv'
  <1>1. PICK t : t = Arg(h).id
    OBVIOUS
  <1>2. "claimTransfer" \in AboutRow /\ "claimTransfer" \in HoldOps /\ "claimTransfer" \notin SaveOps
    BY DEF AboutRow, HoldOps, SaveOps
  <1>3. /\ todo[h] # <<>> /\ Head(todo[h]).op = "claimTransfer" /\ Arg(h) = Head(todo[h])
        /\ t \in Rows /\ t \in RowsIn(transfer) /\ transfer[t] \in TransferRows
        /\ transfer[t].status # "NONE"
    BY <1>1, <1>2, StepRow DEF Claim
  <1>4. PICK hold : hold = Arg(h).onHold
    OBVIOUS
  <1>5. hold \in BOOLEAN /\ (status # "COMPLETED" => hold = transfer[t].onHold)
    BY <1>1, <1>2, <1>3, <1>4, HeadStep DEF Fits
  <1>6. SameFaults /\ UNCHANGED <<status, books, razorpay>>
    BY FaultsStay DEF PayoutsInv, Claim
  <1>7. CASE Claimable(t, Arg(h).attempts)
    <2>1. PICK row : row = [transfer[t] EXCEPT !.attempts = transfer[t].attempts + 1]
      OBVIOUS
    <2>2. transfer[t].attempts + 1 \in Nat
      BY <1>3 DEF TransferRows
    <2>3. /\ row \in TransferRows /\ row.status = transfer[t].status
          /\ row.amount = transfer[t].amount /\ row.onHold = transfer[t].onHold
      BY <1>3, <2>1, <2>2, AttemptsSet
    <2>4. transfer' = [transfer EXCEPT ![t] = row]
          /\ Continue(h, <<[op |-> "callTransfer", id |-> t, onHold |-> hold]>>)
      BY <1>1, <1>4, <1>7, <2>1 DEF Claim
    <2>5. RowsStand /\ SameSums /\ RowsIn(transfer') = Rows
      BY <1>3, <1>6, <2>3, <2>4, RowChanged DEF PayoutsInv
    <2>6. status' # "COMPLETED" => hold = transfer'[t].onHold
      BY <1>3, <1>5, <1>6, <2>3, <2>4 DEF PayoutsInv, Types, Rows
    <2>7. [op |-> "callTransfer", id |-> t, onHold |-> hold] \in LaterSteps(status', transfer')
      BY <1>3, <1>5, <2>5, <2>6, HoldStep
    <2>8. <<[op |-> "callTransfer", id |-> t, onHold |-> hold]>> \in Seq(LaterSteps(status', transfer'))
      BY <2>7, OneStep
    <2> QED BY <1>2, <1>3, <1>6, <2>4, <2>5, <2>8, StepHolds
  <1>8. CASE ~Claimable(t, Arg(h).attempts)
    <2>1. Return(h) /\ UNCHANGED <<status, transfer, razorpay, faults>>
      BY <1>1, <1>8 DEF Claim
    <2>2. RowsStand /\ SameSums
      BY <2>1, Unmoved
    <2> QED BY <1>2, <1>3, <1>6, <2>1, <2>2, ReturnHolds
  <1> QED BY <1>7, <1>8

LEMMA ResetHolds ==
  ASSUME PayoutsInv, NEW h \in All, ResetAttempts(h)
  PROVE  PayoutsInv'
  <1>1. PICK t : t = Arg(h).id
    OBVIOUS
  <1>2. "resetAttempts" \in AboutRow /\ "resetAttempts" \notin SaveOps
    BY DEF AboutRow, IdOps, SaveOps
  <1>3. /\ todo[h] # <<>> /\ Head(todo[h]).op = "resetAttempts"
        /\ t \in Rows /\ transfer[t] \in TransferRows /\ transfer[t].status # "NONE"
    BY <1>1, <1>2, StepRow DEF ResetAttempts
  <1>4. SameFaults /\ Return(h) /\ UNCHANGED <<status, books, razorpay, faults>>
    BY FaultsStay DEF PayoutsInv, ResetAttempts
  <1>5. CASE transfer[t].status = "FAILED"
    <2>1. PICK row : row = [transfer[t] EXCEPT !.attempts = 0]
      OBVIOUS
    <2>2. /\ row \in TransferRows /\ row.status = transfer[t].status
          /\ row.amount = transfer[t].amount /\ row.onHold = transfer[t].onHold
      BY <1>3, <2>1, AttemptsSet
    <2>3. transfer' = [transfer EXCEPT ![t] = row]
      BY <1>1, <1>5, <2>1 DEF ResetAttempts
    <2>4. RowsStand /\ SameSums
      BY <1>3, <1>4, <2>2, <2>3, RowChanged DEF PayoutsInv
    <2> QED BY <1>2, <1>3, <1>4, <2>4, ReturnHolds
  <1>6. CASE transfer[t].status # "FAILED"
    <2>1. transfer' = transfer
      BY <1>1, <1>6 DEF ResetAttempts
    <2>2. RowsStand /\ SameSums
      BY <1>4, <2>1, Unmoved
    <2> QED BY <1>2, <1>3, <1>4, <2>2, ReturnHolds
  <1> QED BY <1>5, <1>6

LEMMA SaveReleaseHolds ==
  ASSUME PayoutsInv, NEW h \in All, SaveRelease(h)
  PROVE  PayoutsInv'
  <1>1. PICK t : t = Arg(h).id
    OBVIOUS
  <1>2. "saveRelease" \in AboutRow /\ "saveRelease" \notin SaveOps
    BY DEF AboutRow, IdOps, SaveOps
  <1>3. /\ todo[h] # <<>> /\ Head(todo[h]).op = "saveRelease"
        /\ t \in Rows /\ transfer[t] \in TransferRows
    BY <1>1, <1>2, StepRow DEF SaveRelease
  <1>4. SameFaults /\ Return(h) /\ UNCHANGED <<status, books, razorpay, faults>>
    BY FaultsStay DEF PayoutsInv, SaveRelease
  <1>5. CASE transfer[t].status = "ON_HOLD"
    <2>1. PICK row : row = [transfer[t] EXCEPT !.status = "RELEASED"]
      OBVIOUS
    <2>2. /\ row \in TransferRows /\ row.status = "RELEASED"
          /\ row.amount = transfer[t].amount /\ row.onHold = transfer[t].onHold
      BY <1>3, <2>1, StatusSet DEF RowStatuses
    <2>3. transfer' = [transfer EXCEPT ![t] = row]
      BY <1>1, <1>5, <2>1 DEF SaveRelease
    <2>4. RowsStand /\ SameSums
      BY <1>3, <1>4, <2>2, <2>3, RowChanged DEF PayoutsInv
    <2> QED BY <1>2, <1>3, <1>4, <2>4, ReturnHolds
  <1>6. CASE transfer[t].status # "ON_HOLD"
    <2>1. transfer' = transfer
      BY <1>1, <1>6 DEF SaveRelease
    <2>2. RowsStand /\ SameSums
      BY <1>4, <2>1, Unmoved
    <2> QED BY <1>2, <1>3, <1>4, <2>2, ReturnHolds
  <1> QED BY <1>5, <1>6

(* A hold is taken off once the rental is over. *)
LEMMA UnholdHolds ==
  ASSUME PayoutsInv, NEW h \in All, Unhold(h)
  PROVE  PayoutsInv'
  <1>1. PICK t : t = Arg(h).id
    OBVIOUS
  <1>2. "release" \in AboutRow /\ "release" \notin SaveOps /\ "release" \in AfterReturn
    BY DEF AboutRow, AfterReturn, SaveOps
  <1>3. /\ todo[h] # <<>> /\ Head(todo[h]).op = "release"
        /\ t \in Rows /\ transfer[t] \in TransferRows /\ transfer[t].status # "NONE"
    BY <1>1, <1>2, StepRow DEF Unhold
  <1>4. status = "COMPLETED"
    BY <1>2, <1>3, HeadStep DEF Fits
  <1>5. SameFaults /\ Return(h) /\ UNCHANGED <<status, books, razorpay, faults>>
    BY FaultsStay DEF PayoutsInv, Unhold
  <1>6. PICK row : row = [transfer[t] EXCEPT !.onHold = FALSE]
    OBVIOUS
  <1>7. /\ row \in TransferRows /\ row.status = transfer[t].status
        /\ row.amount = transfer[t].amount
    BY <1>3, <1>6, HoldSet
  <1>8. transfer' = [transfer EXCEPT ![t] = row]
    BY <1>1, <1>6 DEF Unhold
  <1>9. RowsStand /\ SameSums
    BY <1>3, <1>4, <1>5, <1>7, <1>8, RowChanged DEF PayoutsInv
  <1> QED BY <1>2, <1>3, <1>5, <1>9, ReturnHolds

(* Calls to Razorpay, and what is saved of them *)

LEMMA RefusedHolds ==
  ASSUME PayoutsInv, NEW h \in All, RefusedTransfer(h)
  PROVE  PayoutsInv'
  <1>1. PICK t : t = Arg(h).id
    OBVIOUS
  <1>2. "callTransfer" \in AboutRow /\ "callTransfer" \notin SaveOps
    BY DEF AboutRow, HoldOps, SaveOps
  <1>3. todo[h] # <<>> /\ Head(todo[h]).op = "callTransfer" /\ t \in RowsIn(transfer)
    BY <1>1, <1>2, StepRow DEF RefusedTransfer
  <1>4. /\ UNCHANGED <<status, transfer, razorpay, books>> /\ Refused
        /\ Continue(h, <<[op |-> "failTransfer", id |-> t]>>)
    BY <1>1 DEF RefusedTransfer
  <1>5. RowsStand /\ SameSums /\ SameFaults
    BY <1>4, Unmoved
  <1>6. [op |-> "failTransfer", id |-> t] \in LaterSteps(status', transfer')
    BY <1>3, <1>4, IdStep
  <1>7. <<[op |-> "failTransfer", id |-> t]>> \in Seq(LaterSteps(status', transfer'))
    BY <1>6, OneStep
  <1> QED BY <1>2, <1>3, <1>4, <1>5, <1>7, StepHolds

(* What is at Razorpay for a row changes, and nothing of the row.          *)
LEMMA RazorpayChanged ==
  ASSUME Types, HeldUntilReturn, NEW t \in Rows, NEW r \in AtRazorpay,
         razorpay' = [razorpay EXCEPT ![t] = r], UNCHANGED <<status, transfer>>, SameFaults,
         status # "COMPLETED" /\ transfer[t].onHold => r.lender = 0
  PROVE  /\ RowsStand
         /\ TransferredOf(t)' = transfer[t].amount * (r.held + r.lender + r.failed)
         /\ \A u \in TransferIds : u # t => TransferredOf(u)' = TransferredOf(u)
  <1>1. t \in TransferIds /\ transfer[t] # NoTransfer
    BY DEF Rows
  <1>2. /\ razorpay' \in [TransferIds -> AtRazorpay] /\ razorpay'[t] = r
        /\ \A u \in TransferIds : u # t => razorpay'[u] = razorpay[u]
    BY <1>1 DEF Types
  <1>3. Types'
    BY <1>1, <1>2 DEF Types, SameFaults
  <1>4. HeldUntilReturn' /\ RowsKept /\ Forward
    BY <1>1, <1>2 DEF HeldUntilReturn, RowsKept, Forward, Rows
  <1>5. /\ TransferredOf(t)' = transfer[t].amount * (r.held + r.lender + r.failed)
        /\ \A u \in TransferIds : u # t => TransferredOf(u)' = TransferredOf(u)
    BY <1>2 DEF TransferredOf
  <1> QED BY <1>3, <1>4, <1>5 DEF RowsStand

LEMMA CreatedHolds ==
  ASSUME PayoutsInv, NEW h \in All, Created(h)
  PROVE  PayoutsInv'
  <1>1. PICK t, hold : t = Arg(h).id /\ hold = Arg(h).onHold
    OBVIOUS
  <1>2. "callTransfer" \in AboutRow /\ "callTransfer" \in HoldOps /\ "callTransfer" \notin SaveOps
    BY DEF AboutRow, HoldOps, SaveOps
  <1>3. /\ todo[h] # <<>> /\ Head(todo[h]).op = "callTransfer" /\ Arg(h) = Head(todo[h])
        /\ t \in Rows /\ t \in RowsIn(transfer) /\ t \in TransferIds
        /\ transfer[t] \in TransferRows /\ razorpay[t] \in AtRazorpay
    BY <1>1, <1>2, StepRow DEF Created
  <1>4. hold \in BOOLEAN /\ (status # "COMPLETED" => hold = transfer[t].onHold)
    BY <1>1, <1>2, <1>3, HeadStep DEF Fits
  <1>5. PICK s : s = [op |-> "saveTransfer", id |-> t, onHold |-> hold]
    OBVIOUS
  <1>6. /\ UNCHANGED <<status, transfer, books, faults>>
        /\ Continue(h, <<s>>)
    BY <1>1, <1>5 DEF Created
  <1>7. PICK n, m, k, a : /\ n = razorpay[t].held /\ m = razorpay[t].lender
                          /\ k = razorpay[t].failed /\ a = transfer[t].amount
    OBVIOUS
  <1>8. n \in Nat /\ m \in Nat /\ k \in Nat /\ a \in Int
    BY <1>3, <1>7 DEF AtRazorpay, TransferRows
  <1>9. PICK r : r = IF hold THEN [razorpay[t] EXCEPT !.held = razorpay[t].held + 1]
                     ELSE [razorpay[t] EXCEPT !.lender = razorpay[t].lender + 1]
    OBVIOUS
  <1>10. razorpay' = [razorpay EXCEPT ![t] = r]
    BY <1>1, <1>9 DEF Created
  <1>11. /\ r \in AtRazorpay
         /\ IF hold THEN r.held = n + 1 /\ r.lender = m /\ r.failed = k
            ELSE r.held = n /\ r.lender = m + 1 /\ r.failed = k
    BY <1>3, <1>7, <1>8, <1>9 DEF AtRazorpay
  <1>12. status # "COMPLETED" /\ transfer[t].onHold => r.lender = 0
    BY <1>3, <1>4, <1>7, <1>11 DEF PayoutsInv, HeldUntilReturn
  <1>13. SameFaults
    BY <1>6, FaultsStay DEF PayoutsInv
  <1>14. /\ RowsStand
         /\ TransferredOf(t)' = a * (r.held + r.lender + r.failed)
         /\ \A u \in TransferIds : u # t => TransferredOf(u)' = TransferredOf(u)
    BY <1>3, <1>6, <1>7, <1>10, <1>11, <1>12, <1>13, RazorpayChanged DEF PayoutsInv
  <1>15. TransferredOf(t)' - TransferredOf(t) = a
    <2>1. r.held + r.lender + r.failed = (n + m + k) + 1
      BY <1>8, <1>11
    <2>2. a * ((n + m + k) + 1) - a * (n + m + k) = a
      BY <1>8
    <2> QED BY <1>7, <1>14, <2>1, <2>2 DEF TransferredOf
  <1>16. s \in FitSteps(status', transfer')
    BY <1>3, <1>4, <1>5, <1>6, HoldStep
  <1>17. /\ TodoFits' /\ todo'[h] # <<>> /\ Head(todo'[h]) = s
         /\ \A g \in All : g # h => todo'[g] = todo[g]
    BY <1>3, <1>6, <1>14, <1>16, GoesOnToSave DEF PayoutsInv, RowsStand
  <1>18. PendingOf(todo'[h], transfer') = a /\ PendingOf(todo[h], transfer) = 0
    <2>1. s.op = "saveTransfer" /\ s.id = t
      BY <1>5
    <2> QED BY <1>2, <1>3, <1>6, <1>7, <1>17, <2>1, NothingPending DEF PendingOf
  <1>19. books.GATEWAY \in Int /\ BookTypes'
    BY <1>6 DEF PayoutsInv, BookTypes, Accounts, Zero
  <1>20. books'.GATEWAY - books.GATEWAY =
           (TransferredOf(t)' - TransferredOf(t))
             - (PendingOf(todo'[h], transfer') - PendingOf(todo[h], transfer))
    BY <1>6, <1>8, <1>15, <1>18, <1>19
  <1> QED BY <1>3, <1>13, <1>14, <1>17, <1>19, <1>20, MoneyMoves

LEMMA TakeBackHolds ==
  ASSUME PayoutsInv, NEW h \in All, TakeBack(h)
  PROVE  PayoutsInv'
  <1>1. PICK t : t = Arg(h).id
    OBVIOUS
  <1>2. "reverse" \in AboutRow /\ "reverse" \notin SaveOps
    BY DEF AboutRow, SaveOps
  <1>3. /\ todo[h] # <<>> /\ Head(todo[h]).op = "reverse"
        /\ t \in Rows /\ t \in RowsIn(transfer) /\ t \in TransferIds
        /\ transfer[t] \in TransferRows /\ razorpay[t] \in AtRazorpay
    BY <1>1, <1>2, StepRow DEF TakeBack
  <1>4. UNCHANGED <<status, transfer, books>>
    BY DEF TakeBack
  <1>5. \/ /\ razorpay[t].held > 0 /\ UNCHANGED faults
           /\ razorpay' = [razorpay EXCEPT ![t].held = @ - 1]
           /\ Continue(h, <<[op |-> "saveReversal", id |-> t]>>)
        \/ Return(h) /\ UNCHANGED razorpay /\ (UNCHANGED faults \/ Refused)
    BY <1>1 DEF TakeBack
  <1>6. CASE Return(h) /\ UNCHANGED razorpay /\ (UNCHANGED faults \/ Refused)
    <2>1. RowsStand /\ SameSums /\ SameFaults
      BY <1>4, <1>6, Unmoved
    <2> QED BY <1>2, <1>3, <1>4, <1>6, <2>1, ReturnHolds
  <1>7. CASE /\ razorpay[t].held > 0 /\ UNCHANGED faults
             /\ razorpay' = [razorpay EXCEPT ![t].held = @ - 1]
             /\ Continue(h, <<[op |-> "saveReversal", id |-> t]>>)
    <2>1. PICK n, m, k, a : /\ n = razorpay[t].held /\ m = razorpay[t].lender
                            /\ k = razorpay[t].failed /\ a = transfer[t].amount
      OBVIOUS
    <2>2. n \in Nat /\ n > 0 /\ m \in Nat /\ k \in Nat /\ a \in Int
      BY <1>3, <1>7, <2>1 DEF AtRazorpay, TransferRows
    <2>3. PICK r : r = [razorpay[t] EXCEPT !.held = razorpay[t].held - 1]
      OBVIOUS
    <2>4. r \in AtRazorpay /\ r.held = n - 1 /\ r.lender = m /\ r.failed = k
      BY <1>3, <2>1, <2>2, <2>3 DEF AtRazorpay
    <2>5. razorpay' = [razorpay EXCEPT ![t] = r]
      BY <1>7, <2>3
    <2>6. status # "COMPLETED" /\ transfer[t].onHold => r.lender = 0
      BY <1>3, <2>1, <2>4 DEF PayoutsInv, HeldUntilReturn
    <2>7. SameFaults
      BY <1>7, FaultsStay DEF PayoutsInv
    <2>8. /\ RowsStand
          /\ TransferredOf(t)' = a * (r.held + r.lender + r.failed)
          /\ \A u \in TransferIds : u # t => TransferredOf(u)' = TransferredOf(u)
      BY <1>3, <1>4, <2>1, <2>4, <2>5, <2>6, <2>7, RazorpayChanged DEF PayoutsInv
    <2>9. TransferredOf(t)' - TransferredOf(t) = -a
      <3>1. r.held + r.lender + r.failed = (n + m + k) - 1
        BY <2>2, <2>4
      <3>2. a * ((n + m + k) - 1) - a * (n + m + k) = -a
        BY <2>2
      <3> QED BY <2>1, <2>8, <3>1, <3>2 DEF TransferredOf
    <2>10. PICK s : s = [op |-> "saveReversal", id |-> t]
      OBVIOUS
    <2>11. s \in FitSteps(status', transfer') /\ s.op = "saveReversal" /\ s.id = t
      BY <1>3, <1>4, <2>10, SavingReversal
    <2>12. /\ TodoFits' /\ todo'[h] # <<>> /\ Head(todo'[h]) = s
           /\ \A g \in All : g # h => todo'[g] = todo[g]
      BY <1>3, <1>7, <2>8, <2>10, <2>11, GoesOnToSave DEF PayoutsInv, RowsStand
    <2>13. PendingOf(todo'[h], transfer') = -a /\ PendingOf(todo[h], transfer) = 0
      BY <1>2, <1>3, <1>4, <2>1, <2>11, <2>12, NothingPending DEF PendingOf
    <2>14. books.GATEWAY \in Int /\ BookTypes'
      BY <1>4 DEF PayoutsInv, BookTypes, Accounts, Zero
    <2>15. books'.GATEWAY - books.GATEWAY =
             (TransferredOf(t)' - TransferredOf(t))
               - (PendingOf(todo'[h], transfer') - PendingOf(todo[h], transfer))
      BY <1>4, <2>2, <2>9, <2>13, <2>14
    <2> QED BY <1>3, <2>7, <2>8, <2>12, <2>14, <2>15, MoneyMoves
  <1> QED BY <1>5, <1>6, <1>7

LEMMA SaveHolds ==
  ASSUME PayoutsInv, NEW h \in All, Save(h)
  PROVE  PayoutsInv'
  <1>1. PICK t, hold : t = Arg(h).id /\ hold = Arg(h).onHold
    OBVIOUS
  <1>2. "saveTransfer" \in AboutRow
    BY DEF AboutRow, HoldOps
  <1>3. /\ todo[h] # <<>> /\ Head(todo[h]).op = "saveTransfer" /\ Arg(h) = Head(todo[h])
        /\ t \in Rows /\ t \in TransferIds /\ transfer[t] \in TransferRows
    BY <1>1, <1>2, StepRow DEF Save
  <1>4. PICK s : s = IF hold THEN "ON_HOLD" ELSE "RELEASED"
    OBVIOUS
  <1>5. s \in RowStatuses /\ s # "NONE"
    BY <1>4 DEF RowStatuses
  <1>6. PICK a : a = transfer[t].amount
    OBVIOUS
  <1>7. a \in Int
    BY <1>3, <1>6 DEF TransferRows
  <1>8. PICK row : row = [transfer[t] EXCEPT !.sent = TRUE, !.status = s]
    OBVIOUS
  <1>9. /\ row \in TransferRows /\ row.status = s /\ row.amount = transfer[t].amount
        /\ row.onHold = transfer[t].onHold
    BY <1>3, <1>5, <1>8, SentSet
  <1>10. transfer' = [transfer EXCEPT ![t].sent = TRUE, ![t].status = s]
    BY <1>1, <1>4 DEF Save
  <1>11. transfer' = [transfer EXCEPT ![t] = row]
    BY <1>3, <1>8, <1>10 DEF PayoutsInv, Types
  <1>12. /\ books' = Posted(books, TransferPostings(a)) /\ Return(h)
         /\ UNCHANGED <<status, razorpay, faults>>
    BY <1>1, <1>6 DEF Save
  <1>13. SameFaults
    BY <1>12, FaultsStay DEF PayoutsInv
  <1>14. RowsStand /\ SameSums
    BY <1>3, <1>5, <1>9, <1>11, <1>12, <1>13, RowChanged DEF PayoutsInv
  <1>15. /\ TodoFits' /\ PendingOf(todo'[h], transfer') = 0
         /\ \A g \in All : g # h => todo'[g] = todo[g]
    <2>1. <<>> \in Seq(LaterSteps(status', transfer'))
      OBVIOUS
    <2> QED BY <1>3, <1>12, <1>14, <2>1, GoesOn DEF Return, PayoutsInv, RowsStand
  <1>16. PendingOf(todo[h], transfer) = a
    BY <1>1, <1>3, <1>6 DEF PendingOf
  <1>17. BookTypes' /\ books'.GATEWAY = books.GATEWAY + a /\ books.GATEWAY \in Int
    <2>1. books \in [Accounts -> Int]
      BY DEF PayoutsInv, BookTypes
    <2>2. books.GATEWAY \in Int
      BY <2>1 DEF Accounts, Zero
    <2> QED BY <1>7, <1>12, <2>1, <2>2, TransferPosted DEF BookTypes
  <1>18. TransferredOf(t)' = TransferredOf(t) /\ TransferredOf(t) \in Int
         /\ \A u \in TransferIds : u # t => TransferredOf(u)' = TransferredOf(u)
    BY <1>3, <1>14, TransferredType DEF SameSums, PayoutsInv
  <1>19. books'.GATEWAY - books.GATEWAY =
           (TransferredOf(t)' - TransferredOf(t))
             - (PendingOf(todo'[h], transfer') - PendingOf(todo[h], transfer))
    BY <1>7, <1>15, <1>16, <1>17, <1>18
  <1> QED BY <1>3, <1>13, <1>14, <1>15, <1>17, <1>18, <1>19, MoneyMoves

LEMMA SaveReversalHolds ==
  ASSUME PayoutsInv, NEW h \in All, SaveReversal(h)
  PROVE  PayoutsInv'
  <1>1. PICK t : t = Arg(h).id
    OBVIOUS
  <1>2. "saveReversal" \in AboutRow
    BY DEF AboutRow, IdOps
  <1>3. /\ todo[h] # <<>> /\ Head(todo[h]).op = "saveReversal" /\ Arg(h) = Head(todo[h])
        /\ t \in Rows /\ t \in TransferIds /\ transfer[t] \in TransferRows
    BY <1>1, <1>2, StepRow DEF SaveReversal
  <1>6. PICK a : a = transfer[t].amount
    OBVIOUS
  <1>7. a \in Int
    BY <1>3, <1>6 DEF TransferRows
  <1>8. PICK row : row = [transfer[t] EXCEPT !.status = "REVERSED"]
    OBVIOUS
  <1>9. /\ row \in TransferRows /\ row.status = "REVERSED" /\ row.amount = transfer[t].amount
        /\ row.onHold = transfer[t].onHold
    BY <1>3, <1>8, StatusSet DEF RowStatuses
  <1>11. transfer' = [transfer EXCEPT ![t] = row]
    BY <1>1, <1>8 DEF SaveReversal
  <1>12. /\ books' = Posted(books, Reversal(a)) /\ Return(h)
         /\ UNCHANGED <<status, razorpay, faults>>
    BY <1>1, <1>6 DEF SaveReversal
  <1>13. SameFaults
    BY <1>12, FaultsStay DEF PayoutsInv
  <1>14. RowsStand /\ SameSums
    BY <1>3, <1>9, <1>11, <1>12, <1>13, RowChanged DEF PayoutsInv
  <1>15. /\ TodoFits' /\ PendingOf(todo'[h], transfer') = 0
         /\ \A g \in All : g # h => todo'[g] = todo[g]
    <2>1. <<>> \in Seq(LaterSteps(status', transfer'))
      OBVIOUS
    <2> QED BY <1>3, <1>12, <1>14, <2>1, GoesOn DEF Return, PayoutsInv, RowsStand
  <1>16. PendingOf(todo[h], transfer) = -a
    BY <1>1, <1>3, <1>6 DEF PendingOf
  <1>17. BookTypes' /\ books'.GATEWAY = books.GATEWAY - a /\ books.GATEWAY \in Int
    <2>1. books \in [Accounts -> Int]
      BY DEF PayoutsInv, BookTypes
    <2>2. books.GATEWAY \in Int
      BY <2>1 DEF Accounts, Zero
    <2> QED BY <1>7, <1>12, <2>1, <2>2, ReversalPosted DEF BookTypes
  <1>18. TransferredOf(t)' = TransferredOf(t) /\ TransferredOf(t) \in Int
         /\ \A u \in TransferIds : u # t => TransferredOf(u)' = TransferredOf(u)
    BY <1>3, <1>14, TransferredType DEF SameSums, PayoutsInv
  <1>19. books'.GATEWAY - books.GATEWAY =
           (TransferredOf(t)' - TransferredOf(t))
             - (PendingOf(todo'[h], transfer') - PendingOf(todo[h], transfer))
    BY <1>7, <1>15, <1>16, <1>17, <1>18
  <1> QED BY <1>3, <1>13, <1>14, <1>15, <1>17, <1>18, <1>19, MoneyMoves

(* What Razorpay has of a row is somewhere else, and as much.              *)
LEMMA SameAmount ==
  ASSUME Types, HeldUntilReturn, NEW t \in Rows, NEW r \in AtRazorpay,
         razorpay' = [razorpay EXCEPT ![t] = r], UNCHANGED <<status, transfer>>, SameFaults,
         status # "COMPLETED" /\ transfer[t].onHold => r.lender = 0,
         r.held + r.lender + r.failed = razorpay[t].held + razorpay[t].lender + razorpay[t].failed
  PROVE  RowsStand /\ SameSums
  <1>1. /\ RowsStand
        /\ TransferredOf(t)' = transfer[t].amount * (r.held + r.lender + r.failed)
        /\ \A u \in TransferIds : u # t => TransferredOf(u)' = TransferredOf(u)
    BY RazorpayChanged
  <1>2. TransferredOf(t)' = TransferredOf(t)
    BY <1>1 DEF TransferredOf
  <1> QED BY <1>1, <1>2 DEF SameSums

LEMMA ReleaseOneHolds ==
  ASSUME PayoutsInv, NEW h \in All, ReleaseOne(h)
  PROVE  PayoutsInv'
  <1>1. PICK t : t = Arg(h).id
    OBVIOUS
  <1>2. "release" \in AboutRow /\ "release" \notin SaveOps /\ "release" \in AfterReturn
    BY DEF AboutRow, AfterReturn, SaveOps
  <1>3. /\ todo[h] # <<>> /\ Head(todo[h]).op = "release"
        /\ t \in Rows /\ t \in RowsIn(transfer) /\ t \in TransferIds
        /\ razorpay[t] \in AtRazorpay
    BY <1>1, <1>2, StepRow DEF ReleaseOne
  <1>4. status = "COMPLETED" /\ UNCHANGED <<status, transfer, books>>
    BY <1>2, <1>3, HeadStep DEF Fits, ReleaseOne
  <1>5. \/ /\ razorpay[t].held > 0 /\ UNCHANGED faults
           /\ razorpay' = [razorpay EXCEPT ![t].held = @ - 1, ![t].lender = @ + 1]
           /\ Continue(h, <<[op |-> "saveRelease", id |-> t]>>)
        \/ Return(h) /\ UNCHANGED razorpay /\ (UNCHANGED faults \/ Refused)
    BY <1>1 DEF ReleaseOne
  <1>6. CASE Return(h) /\ UNCHANGED razorpay /\ (UNCHANGED faults \/ Refused)
    <2>1. RowsStand /\ SameSums /\ SameFaults
      BY <1>4, <1>6, Unmoved
    <2> QED BY <1>2, <1>3, <1>4, <1>6, <2>1, ReturnHolds
  <1>7. CASE /\ razorpay[t].held > 0 /\ UNCHANGED faults
             /\ razorpay' = [razorpay EXCEPT ![t].held = @ - 1, ![t].lender = @ + 1]
             /\ Continue(h, <<[op |-> "saveRelease", id |-> t]>>)
    <2>1. PICK r : r = [razorpay[t] EXCEPT !.held = razorpay[t].held - 1,
                                           !.lender = razorpay[t].lender + 1]
      OBVIOUS
    <2>2. /\ r \in AtRazorpay
          /\ r.held + r.lender + r.failed
               = razorpay[t].held + razorpay[t].lender + razorpay[t].failed
      <3>1. PICK n, m, k : n = razorpay[t].held /\ m = razorpay[t].lender /\ k = razorpay[t].failed
        OBVIOUS
      <3>2. n \in Nat /\ n > 0 /\ m \in Nat /\ k \in Nat
        BY <1>3, <1>7, <3>1 DEF AtRazorpay
      <3>3. n - 1 \in Nat /\ m + 1 \in Nat
        BY <3>2
      <3>4. r \in AtRazorpay /\ r.held = n - 1 /\ r.lender = m + 1 /\ r.failed = k
        BY <1>3, <2>1, <3>1, <3>3 DEF AtRazorpay
      <3> QED BY <3>1, <3>2, <3>4
    <2>3. razorpay' = [razorpay EXCEPT ![t] = r]
      BY <1>3, <1>7, <2>1 DEF PayoutsInv, Types
    <2>4. SameFaults
      BY <1>7, FaultsStay DEF PayoutsInv
    <2>5. RowsStand /\ SameSums
      BY <1>3, <1>4, <2>2, <2>3, <2>4, SameAmount DEF PayoutsInv
    <2>6. <<[op |-> "saveRelease", id |-> t]>> \in Seq(LaterSteps(status', transfer'))
      BY <1>3, <1>4, SavingRelease, OneStep
    <2> QED BY <1>2, <1>3, <1>4, <1>7, <2>4, <2>5, <2>6, StepHolds
  <1> QED BY <1>5, <1>6, <1>7

(* Calls that only read and go on with other steps.                        *)
LEMMA ReadsHold ==
  ASSUME PayoutsInv, NEW h \in All, todo[h] # <<>>, Head(todo[h]).op \notin SaveOps,
         UNCHANGED <<status, transfer, razorpay, books, faults>>,
         NEW steps \in Seq(LaterSteps(status, transfer)), Continue(h, steps)
  PROVE  PayoutsInv'
  <1>1. RowsStand /\ SameSums /\ SameFaults
    BY Unmoved
  <1>2. steps \in Seq(LaterSteps(status', transfer'))
    OBVIOUS
  <1> QED BY <1>1, <1>2, StepHolds

LEMMA ConfirmedHolds ==
  ASSUME PayoutsInv, NEW h \in All, OnConfirmed(h)
  PROVE  PayoutsInv'
  <1>1. /\ todo[h] # <<>> /\ Head(todo[h]).op \notin SaveOps
        /\ UNCHANGED <<status, transfer, razorpay, books, faults>>
        /\ Continue(h, <<[op |-> "oweRent"]>>) \/ Continue(h, <<>>)
    BY DEF OnConfirmed, At, SaveOps, Return
  <1>2. [op |-> "oweRent"] \in LaterSteps(status, transfer)
    BY PlainStep DEF PlainOps
  <1>3. /\ <<[op |-> "oweRent"]>> \in Seq(LaterSteps(status, transfer))
        /\ <<>> \in Seq(LaterSteps(status, transfer))
    BY <1>2, OneStep
  <1> QED BY <1>1, <1>3, ReadsHold

(* A list with a step for each of some rows.                               *)
LEMMA SomeRows ==
  ASSUME Types, NEW S \in SUBSET Rows
  PROVE  /\ Cardinality(S) \in Nat
         /\ \A i \in 1..Cardinality(S) : /\ SetToSeq(S)[i] \in RowsIn(transfer)
                                         /\ SetToSeq(S)[i] \in TransferIds
                                         /\ transfer[SetToSeq(S)[i]] \in TransferRows
  <1>1. IsFiniteSet(S)
    BY IdsAreFinite, FS_Subset DEF Rows
  <1>2. Cardinality(S) \in Nat /\ SetToSeq(S) \in [1..Cardinality(S) -> S]
    BY <1>1, InSomeOrder
  <1>3. \A i \in 1..Cardinality(S) : SetToSeq(S)[i] \in S
    BY <1>2
  <1>4. \A t \in S : t \in RowsIn(transfer) /\ t \in TransferIds /\ transfer[t] \in TransferRows
    BY DEF Types, Rows, RowsIn
  <1> QED BY <1>2, <1>3, <1>4

LEMMA SendsRows ==
  ASSUME PayoutsInv, NEW S \in SUBSET Rows
  PROVE  [i \in 1..Cardinality(S) |-> [op |-> "send", id |-> SetToSeq(S)[i]]]
           \in Seq(LaterSteps(status, transfer))
  <1>1. Cardinality(S) \in Nat
        /\ \A i \in 1..Cardinality(S) : SetToSeq(S)[i] \in RowsIn(transfer)
    BY SomeRows DEF PayoutsInv
  <1>2. \A i \in 1..Cardinality(S) :
          [op |-> "send", id |-> SetToSeq(S)[i]] \in LaterSteps(status, transfer)
    BY <1>1, IdStep
  <1>3. PICK q : q = [i \in 1..Cardinality(S) |-> [op |-> "send", id |-> SetToSeq(S)[i]]]
    OBVIOUS
  <1>4. q \in [1..Cardinality(S) -> LaterSteps(status, transfer)]
    BY <1>2, <1>3
  <1> QED BY <1>1, <1>3, <1>4, FromList

LEMMA ReversesRows ==
  ASSUME PayoutsInv, NEW S \in SUBSET Rows
  PROVE  [i \in 1..Cardinality(S) |-> ReverseStep(SetToSeq(S)[i])]
           \in Seq(LaterSteps(status, transfer))
  <1>1. Cardinality(S) \in Nat
        /\ \A i \in 1..Cardinality(S) : SetToSeq(S)[i] \in RowsIn(transfer)
                                        /\ transfer[SetToSeq(S)[i]].sent \in BOOLEAN
    BY SomeRows DEF PayoutsInv, TransferRows
  <1>2. \A i \in 1..Cardinality(S) : ReverseStep(SetToSeq(S)[i]) \in LaterSteps(status, transfer)
    BY <1>1, ReverseFits DEF ReverseStep
  <1>3. PICK q : q = [i \in 1..Cardinality(S) |-> ReverseStep(SetToSeq(S)[i])]
    OBVIOUS
  <1>4. q \in [1..Cardinality(S) -> LaterSteps(status, transfer)]
    BY <1>2, <1>3
  <1> QED BY <1>1, <1>3, <1>4, FromList

LEMMA ReleasesRows ==
  ASSUME PayoutsInv, NEW S \in SUBSET Rows, status = "COMPLETED"
  PROVE  [i \in 1..Cardinality(S) |-> ReleaseStep(SetToSeq(S)[i])]
           \in Seq(LaterSteps(status, transfer))
  <1>1. Cardinality(S) \in Nat
        /\ \A i \in 1..Cardinality(S) : SetToSeq(S)[i] \in RowsIn(transfer)
                                        /\ transfer[SetToSeq(S)[i]] \in TransferRows
    BY SomeRows DEF PayoutsInv
  <1>2. ASSUME NEW i \in 1..Cardinality(S)
        PROVE  ReleaseStep(SetToSeq(S)[i]) \in LaterSteps(status, transfer)
    <2>1. PICK t : t = SetToSeq(S)[i]
      OBVIOUS
    <2>2. PICK held : held = (transfer[t].status = "ON_HOLD" /\ transfer[t].sent)
      OBVIOUS
    <2>3. held \in BOOLEAN
      BY <2>2
    <2>4. ReleaseStep(t) = [op |-> "release", id |-> t, held |-> held]
      BY <2>2 DEF ReleaseStep
    <2>5. t \in RowsIn(transfer)
      BY <1>1, <2>1
    <2> QED BY <2>1, <2>3, <2>4, <2>5, ReleaseFits
  <1>3. PICK q : q = [i \in 1..Cardinality(S) |-> ReleaseStep(SetToSeq(S)[i])]
    OBVIOUS
  <1>4. q \in [1..Cardinality(S) -> LaterSteps(status, transfer)]
    BY <1>2, <1>3
  <1> QED BY <1>1, <1>3, <1>4, FromList

LEMMA CancelledHolds ==
  ASSUME PayoutsInv, NEW h \in All, OnCancelled(h)
  PROVE  PayoutsInv'
  <1>1. PICK n : n = Arg(h).refunded
    OBVIOUS
  <1>2. todo[h] # <<>> /\ Head(todo[h]).op = "onCancelled" /\ Head(todo[h]).op \notin SaveOps
        /\ UNCHANGED <<status, transfer, razorpay, books, faults>>
    BY DEF OnCancelled, At, SaveOps
  <1>3. n \in Int /\ status \notin {"AWAITING_PAYMENT", "CONFIRMED"}
    BY <1>1, <1>2, HeadStep DEF Fits, Arg
  <1>4. PICK S \in SUBSET Rows :
          Continue(h, [i \in 1..Cardinality(S) |-> ReverseStep(SetToSeq(S)[i])]
                        \o <<[op |-> "keepRent", kept |-> Rent - n]>>)
    BY <1>1 DEF OnCancelled, Each
  <1>5. PICK q : q = [i \in 1..Cardinality(S) |-> ReverseStep(SetToSeq(S)[i])]
    OBVIOUS
  <1>6. q \in Seq(LaterSteps(status, transfer))
    BY <1>5, ReversesRows
  <1>7. <<[op |-> "keepRent", kept |-> Rent - n]>> \in Seq(LaterSteps(status, transfer))
    <2>1. Rent - n \in Int
      BY <1>3, PayoutsAssumption
    <2> QED BY <1>3, <2>1, CancelSteps, OneStep
  <1>8. q \o <<[op |-> "keepRent", kept |-> Rent - n]>> \in Seq(LaterSteps(status, transfer))
    BY <1>6, <1>7
  <1> QED BY <1>2, <1>4, <1>5, <1>8, ReadsHold

LEMMA ReleaseHolds ==
  ASSUME PayoutsInv, NEW h \in All, Release(h)
  PROVE  PayoutsInv'
  <1>1. todo[h] # <<>> /\ Head(todo[h]).op = "releaseAll" /\ Head(todo[h]).op \notin SaveOps
        /\ UNCHANGED <<status, transfer, razorpay, books, faults>>
    BY DEF Release, At, SaveOps
  <1>2. status = "COMPLETED"
    BY <1>1, HeadStep DEF Fits, AfterReturn
  <1>3. PICK S \in SUBSET Rows :
          Continue(h, [i \in 1..Cardinality(S) |-> ReleaseStep(SetToSeq(S)[i])])
    BY DEF Release, Each
  <1> QED BY <1>1, <1>2, <1>3, ReleasesRows, ReadsHold

LEMMA SendKeptHolds ==
  ASSUME PayoutsInv, NEW h \in All, SendKept(h)
  PROVE  PayoutsInv'
  <1>1. PICK n : n = Arg(h).amount
    OBVIOUS
  <1>2. todo[h] # <<>> /\ Head(todo[h]).op = "sendKept" /\ Head(todo[h]).op \notin SaveOps
        /\ UNCHANGED <<status, transfer, razorpay, books, faults>>
    BY DEF SendKept, At, SaveOps
  <1>3. n \in Int /\ status = "COMPLETED"
    BY <1>1, <1>2, HeadStep DEF Fits, Arg, AfterReturn
  <1>4. PICK S : S = {t \in {u \in Rows : transfer[u].fromDeposit} :
                        transfer[t].status = "AWAITING_ACCOUNT"}
    OBVIOUS
  <1>5. \/ Continue(h, <<>>)
        \/ Continue(h, <<[op |-> "createKept", amount |-> n]>>)
        \/ Continue(h, [i \in 1..Cardinality(S) |-> [op |-> "send", id |-> SetToSeq(S)[i]]])
    BY <1>1, <1>4 DEF SendKept, Each, Return
  <1>6. /\ <<>> \in Seq(LaterSteps(status, transfer))
        /\ <<[op |-> "createKept", amount |-> n]>> \in Seq(LaterSteps(status, transfer))
    BY <1>3, KeptSteps, OneStep
  <1>7. [i \in 1..Cardinality(S) |-> [op |-> "send", id |-> SetToSeq(S)[i]]]
          \in Seq(LaterSteps(status, transfer))
    BY <1>4, SendsRows
  <1> QED BY <1>2, <1>5, <1>6, <1>7, ReadsHold

LEMMA WaitingHolds ==
  ASSUME PayoutsInv, NEW h \in All, SendWaiting(h)
  PROVE  PayoutsInv'
  <1>1. todo[h] # <<>> /\ Head(todo[h]).op \notin SaveOps
        /\ UNCHANGED <<status, transfer, razorpay, books, faults>>
    BY DEF SendWaiting, At, SaveOps
  <1>2. PICK S \in SUBSET Rows :
          Continue(h, [i \in 1..Cardinality(S) |-> [op |-> "send", id |-> SetToSeq(S)[i]]])
    BY DEF SendWaiting, Each
  <1> QED BY <1>1, <1>2, SendsRows, ReadsHold

LEMMA RetryHolds ==
  ASSUME PayoutsInv, NEW h \in All, RetryFailed(h)
  PROVE  PayoutsInv'
  <1>1. todo[h] # <<>> /\ Head(todo[h]).op \notin SaveOps
        /\ UNCHANGED <<status, transfer, razorpay, books, faults>>
    BY DEF RetryFailed, At, SaveOps
  <1>2. PICK S, U : S = {t \in Rows : Retryable(t)} /\ U = Stuck
    OBVIOUS
  <1>3. S \in SUBSET Rows /\ U \in SUBSET Rows
    BY <1>2 DEF Stuck
  <1>4. PICK p, q : /\ p = [i \in 1..Cardinality(S) |-> [op |-> "send", id |-> SetToSeq(S)[i]]]
                    /\ q = [i \in 1..Cardinality(U) |-> ReverseStep(SetToSeq(U)[i])]
    OBVIOUS
  <1>5. Continue(h, p \o q)
    BY <1>2, <1>4 DEF RetryFailed, Each
  <1>6. p \in Seq(LaterSteps(status, transfer)) /\ q \in Seq(LaterSteps(status, transfer))
    BY <1>3, <1>4, SendsRows, ReversesRows
  <1>7. p \o q \in Seq(LaterSteps(status, transfer))
    BY <1>6
  <1> QED BY <1>1, <1>5, <1>7, ReadsHold

(* New rows *)

LEMMA RowCreated ==
  ASSUME PayoutsInv, NEW h, NEW amount \in Int, NEW onHold \in BOOLEAN, NEW deposit \in BOOLEAN,
         onHold \/ status \notin {"AWAITING_PAYMENT", "CONFIRMED"},
         CreateAndSend(h, amount, onHold, deposit), UNCHANGED <<status, razorpay, faults>>
  PROVE  /\ RowsStand /\ SameSums /\ SameFaults
         /\ \E t \in RowsIn(transfer') : Continue(h, <<[op |-> "send", id |-> t]>>)
  <1>1. PICK row : row = NewTransfer(amount, onHold, deposit)
    OBVIOUS
  <1>2. PICK t \in TransferIds : /\ transfer[t] = NoTransfer
                                 /\ transfer' = [transfer EXCEPT ![t] = row]
                                 /\ Continue(h, <<[op |-> "send", id |-> t]>>)
    BY <1>1 DEF CreateAndSend, IsNext
  <1>3. /\ row \in TransferRows /\ row.status = "AWAITING_ACCOUNT" /\ row.onHold = onHold
        /\ row # NoTransfer
    BY <1>1 DEF NewTransfer, TransferRows, RowStatuses, NoTransfer
  <1>4. /\ transfer' \in [TransferIds -> TransferRows] /\ transfer'[t] = row
        /\ \A u \in TransferIds : u # t => transfer'[u] = transfer[u]
        /\ transfer \in [TransferIds -> TransferRows]
    BY <1>2, <1>3 DEF PayoutsInv, Types
  <1>5. SameFaults
    BY FaultsStay DEF PayoutsInv
  <1>6. razorpay[t] = Nothing
    BY <1>2 DEF PayoutsInv, Types
  <1>7. Types'
    BY <1>2, <1>3, <1>4, <1>5 DEF PayoutsInv, Types, SameFaults
  <1>8. RowsKept /\ Forward
    BY <1>2, <1>4 DEF RowsKept, Forward, Rows
  <1>9. HeldUntilReturn'
    BY <1>2, <1>3, <1>4, <1>6 DEF PayoutsInv, HeldUntilReturn, Rows, Nothing
  <1>10. SameSums
    <2>1. TransferredOf(t)' = TransferredOf(t)
      <3>1. transfer'[t].amount \in Int /\ transfer[t].amount \in Int
        BY <1>3, <1>4 DEF TransferRows
      <3>2. \A a \in Int : a * (0 + 0 + 0) = 0
        OBVIOUS
      <3> QED BY <1>6, <3>1, <3>2 DEF TransferredOf, Nothing
    <2> QED BY <1>4, <2>1 DEF SameSums, TransferredOf
  <1>11. t \in RowsIn(transfer')
    BY <1>3, <1>4 DEF RowsIn
  <1> QED BY <1>2, <1>5, <1>7, <1>8, <1>9, <1>10, <1>11 DEF RowsStand

LEMMA CreateHolds ==
  ASSUME PayoutsInv, NEW h \in All, todo[h] # <<>>, Head(todo[h]).op \notin SaveOps,
         NEW amount \in Int, NEW onHold \in BOOLEAN, NEW deposit \in BOOLEAN,
         onHold \/ status \notin {"AWAITING_PAYMENT", "CONFIRMED"},
         CreateAndSend(h, amount, onHold, deposit), UNCHANGED <<status, razorpay, books, faults>>
  PROVE  PayoutsInv'
  <1>1. RowsStand /\ SameSums /\ SameFaults
    BY RowCreated
  <1>2. PICK t \in RowsIn(transfer') : Continue(h, <<[op |-> "send", id |-> t]>>)
    BY RowCreated
  <1>3. <<[op |-> "send", id |-> t]>> \in Seq(LaterSteps(status', transfer'))
    BY IdStep, OneStep
  <1> QED BY <1>1, <1>2, <1>3, StepHolds

(* Nothing catches what a call of this service throws.                     *)
LEMMA ThrowIsReturn ==
  ASSUME PayoutsInv, NEW h \in All, todo[h] # <<>>, Throw(h)
  PROVE  todo' = [todo EXCEPT ![h] = <<>>]
  <1>1. PICK q : q = todo[h]
    OBVIOUS
  <1>2. q \in Seq(FitSteps(status, transfer))
    BY <1>1 DEF PayoutsInv, TodoFits, ListsOf
  <1>3. \A i \in 1..Len(q) : q[i].op # "catch"
    <2> TAKE i \in 1..Len(q)
    <2>1. q[i] \in FitSteps(status, transfer)
      BY <1>2
    <2> QED BY <2>1 DEF FitSteps, Fits
  <1>4. Catches(h) = {}
    BY <1>1, <1>3 DEF Catches
  <1> QED BY <1>4 DEF Throw

LEMMA ThrowHolds ==
  ASSUME PayoutsInv, NEW h \in All, todo[h] # <<>>, Head(todo[h]).op \notin SaveOps, Throw(h),
         UNCHANGED <<status, transfer, razorpay, books, faults>>
  PROVE  PayoutsInv'
  <1>1. todo' = [todo EXCEPT ![h] = <<>>]
    BY ThrowIsReturn
  <1>2. RowsStand /\ SameSums /\ SameFaults
    BY Unmoved
  <1>3. todo'[h] = <<>> /\ \A g \in All : g # h => todo'[g] = todo[g]
    BY <1>1 DEF PayoutsInv, TodoFits
  <1>4. TodoFits'
    <2>1. <<>> \in ListsOf(FitSteps(status, transfer), LaterSteps(status, transfer))
      BY DEF ListsOf
    <2>2. todo' \in [All -> ListsOf(FitSteps(status, transfer), LaterSteps(status, transfer))]
      BY <1>1, <2>1 DEF PayoutsInv, TodoFits
    <2> QED BY <2>2 DEF TodoFits
  <1>5. PendingOf(todo[h], transfer) = 0 /\ PendingOf(todo'[h], transfer') = 0
    BY <1>3, NothingPending
  <1>6. NotPosted \in Int /\ NotPosted' = NotPosted + PendingOf(todo'[h], transfer') - PendingOf(todo[h], transfer)
    BY <1>2, <1>3, <1>4, PendingChanged DEF PayoutsInv, RowsStand
  <1>7. NotPosted' = NotPosted
    BY <1>5, <1>6
  <1>8. Transferred' = Transferred
    BY <1>2 DEF SameSums, Transferred
  <1>9. InBalance' /\ BookTypes'
    BY <1>2, <1>7, <1>8 DEF PayoutsInv, InBalance, SameFaults, BookTypes
  <1> QED BY <1>2, <1>4, <1>9 DEF PayoutsInv, RowsStand

LEMMA ShareIsWhole ==
  ASSUME NEW n \in Int
  PROVE  LenderShare(n) \in Int
  <1>1. n * Bps + 5000 \in Int
    BY BpsAssumption
  <1>2. PICK m : m = n * Bps + 5000
    OBVIOUS
  <1>3. m \div 10000 \in Int
    BY <1>1, <1>2
  <1> QED BY <1>2, <1>3 DEF LenderShare, CommissionOn

LEMMA OweHolds ==
  ASSUME PayoutsInv, NEW h \in All, OweRent(h)
  PROVE  PayoutsInv'
  <1>1. todo[h] # <<>> /\ Head(todo[h]).op \notin SaveOps
        /\ UNCHANGED <<status, razorpay, books, faults>>
    BY DEF OweRent, At, SaveOps
  <1>2. CASE CreateAndSend(h, LenderShare(Rent), TRUE, FALSE)
    <2>1. LenderShare(Rent) \in Int
      BY ShareIsWhole, PayoutsAssumption
    <2> QED BY <1>1, <1>2, <2>1, CreateHolds
  <1>3. CASE Throw(h) /\ UNCHANGED transfer
    BY <1>1, <1>3, ThrowHolds
  <1> QED BY <1>2, <1>3 DEF OweRent

LEMMA KeepHolds ==
  ASSUME PayoutsInv, NEW h \in All, KeepRent(h)
  PROVE  PayoutsInv'
  <1>1. PICK n : n = Arg(h).kept
    OBVIOUS
  <1>2. todo[h] # <<>> /\ Head(todo[h]).op = "keepRent" /\ Head(todo[h]).op \notin SaveOps
        /\ UNCHANGED <<status, razorpay, books, faults>>
    BY DEF KeepRent, At, SaveOps
  <1>3. n \in Int /\ status \notin {"AWAITING_PAYMENT", "CONFIRMED"}
    BY <1>1, <1>2, HeadStep DEF Fits, Arg
  <1>4. CASE CreateAndSend(h, LenderShare(n), FALSE, FALSE)
    BY <1>2, <1>3, <1>4, ShareIsWhole, CreateHolds
  <1>5. CASE Return(h) /\ UNCHANGED transfer
    <2>1. <<>> \in Seq(LaterSteps(status, transfer))
      OBVIOUS
    <2> QED BY <1>2, <1>5, <2>1, ReadsHold DEF Return
  <1> QED BY <1>1, <1>4, <1>5 DEF KeepRent

LEMMA CreateKeptHolds ==
  ASSUME PayoutsInv, NEW h \in All, CreateKept(h)
  PROVE  PayoutsInv'
  <1>1. PICK n : n = Arg(h).amount
    OBVIOUS
  <1>2. todo[h] # <<>> /\ Head(todo[h]).op = "createKept" /\ Head(todo[h]).op \notin SaveOps
        /\ UNCHANGED <<status, razorpay, books, faults>>
    BY DEF CreateKept, At, SaveOps
  <1>3. n \in Int /\ status = "COMPLETED"
    BY <1>1, <1>2, HeadStep DEF Fits, Arg, AfterReturn
  <1>4. CASE CreateAndSend(h, n, FALSE, TRUE)
    BY <1>2, <1>3, <1>4, CreateHolds
  <1>5. CASE Return(h) /\ UNCHANGED transfer
    <2>1. <<>> \in Seq(LaterSteps(status, transfer))
      OBVIOUS
    <2> QED BY <1>2, <1>5, <2>1, ReadsHold DEF Return
  <1> QED BY <1>1, <1>4, <1>5 DEF CreateKept

LEMMA PayoutStepHolds ==
  ASSUME PayoutsInv, NEW h \in All, PayoutStep(h)
  PROVE  PayoutsInv'
  BY SendHolds, WaitHolds, ClaimHolds, CreatedHolds, RefusedHolds, FailHolds, SaveHolds,
     ConfirmedHolds, OweHolds, CancelledHolds, KeepHolds, DropHolds, TakeBackHolds,
     SaveReversalHolds, ReleaseHolds, UnholdHolds, ReleaseOneHolds, SaveReleaseHolds,
     SendKeptHolds, CreateKeptHolds DEF PayoutStep

(* Calls that start *)

LEMMA BeginsHold ==
  ASSUME PayoutsInv, NEW h \in All, UNCHANGED <<status, transfer, razorpay, books, faults>>,
         NEW steps \in Seq(LaterSteps(status, transfer)), Begin(h, steps)
  PROVE  PayoutsInv'
  <1>1. RowsStand /\ SameSums /\ SameFaults
    BY Unmoved
  <1>2. steps \in Seq(LaterSteps(status', transfer'))
    OBVIOUS
  <1> QED BY <1>1, <1>2, StartHolds

LEMMA AccountHolds ==
  ASSUME PayoutsInv, NEW h \in All, NEW to, AccountChanged(h, to)
  PROVE  PayoutsInv'
  <1>1. /\ UNCHANGED <<status, transfer, razorpay, books, faults>>
        /\ Begin(h, <<[op |-> "sendWaiting"]>>) \/ Begin(h, <<>>)
    BY DEF AccountChanged
  <1>2. [op |-> "sendWaiting"] \in LaterSteps(status, transfer)
    BY PlainStep DEF PlainOps
  <1>3. /\ <<[op |-> "sendWaiting"]>> \in Seq(LaterSteps(status, transfer))
        /\ <<>> \in Seq(LaterSteps(status, transfer))
    BY <1>2, OneStep
  <1> QED BY <1>1, <1>3, BeginsHold

LEMMA RetriedHolds ==
  ASSUME PayoutsInv, NEW h \in All, NEW t \in Rows, Retry(h, t)
  PROVE  PayoutsInv'
  <1>1. /\ UNCHANGED <<status, transfer, razorpay, books, faults>>
        /\ Begin(h, <<[op |-> "resetAttempts", id |-> t], [op |-> "send", id |-> t]>>)
    BY DEF Retry
  <1>2. t \in RowsIn(transfer)
    BY DEF Rows, RowsIn
  <1>3. PICK r, s : r = [op |-> "resetAttempts", id |-> t] /\ s = [op |-> "send", id |-> t]
    OBVIOUS
  <1>4. r \in LaterSteps(status, transfer) /\ s \in LaterSteps(status, transfer)
    BY <1>2, <1>3, IdStep
  <1>5. <<r, s>> \in Seq(LaterSteps(status, transfer))
    BY <1>4
  <1> QED BY <1>1, <1>3, <1>5, BeginsHold

LEMMA SettlementSteps ==
  ASSUME NEW tr
  PROVE  Settlement \in Seq(LaterSteps("COMPLETED", tr))
  <1>1. [op |-> "releaseAll"] \in LaterSteps("COMPLETED", tr)
    BY PlainStep DEF PlainOps
  <1>2. [op |-> "sendKept", amount |-> Kept] \in LaterSteps("COMPLETED", tr)
    <2>1. Kept \in Int
      BY PayoutsAssumption
    <2> QED BY <2>1, KeptSteps
  <1> QED BY <1>1, <1>2 DEF Settlement

LEMMA SweepHolds ==
  ASSUME PayoutsInv, NEW h \in All, Sweep(h)
  PROVE  PayoutsInv'
  <1>1. PICK steps : /\ (steps = Settlement /\ status = "COMPLETED") \/ steps = <<>>
                     /\ Begin(h, steps \o <<[op |-> "retryTransfers"]>>)
    BY DEF Sweep
  <1>2. UNCHANGED <<status, transfer, razorpay, books, faults>>
    BY DEF Sweep
  <1>3. steps \in Seq(LaterSteps(status, transfer))
    <2>1. CASE steps = Settlement /\ status = "COMPLETED"
      BY <2>1, SettlementSteps
    <2>2. CASE steps = <<>>
      BY <2>2
    <2> QED BY <1>1, <2>1, <2>2
  <1>4. [op |-> "retryTransfers"] \in LaterSteps(status, transfer)
    BY PlainStep DEF PlainOps
  <1>5. steps \o <<[op |-> "retryTransfers"]>> \in Seq(LaterSteps(status, transfer))
    BY <1>3, <1>4
  <1> QED BY <1>1, <1>2, <1>5, BeginsHold

LEMMA BookingMoves ==
  ASSUME PayoutsInv, status \in {"AWAITING_PAYMENT", "CONFIRMED"}, status' \in BookingStatuses,
         UNCHANGED <<transfer, razorpay, faults>>
  PROVE  RowsStand /\ SameSums /\ SameFaults
  <1>1. SameFaults
    BY FaultsStay DEF PayoutsInv
  <1>2. Types'
    BY DEF PayoutsInv, Types
  <1>3. HeldUntilReturn' /\ RowsKept /\ Forward
    BY DEF PayoutsInv, HeldUntilReturn, RowsKept, Forward, Rows
  <1> QED BY <1>1, <1>2, <1>3 DEF RowsStand, SameSums, TransferredOf

LEMMA ConfirmHolds ==
  ASSUME PayoutsInv, NEW h \in All, Confirm(h)
  PROVE  PayoutsInv'
  <1>1. /\ status = "AWAITING_PAYMENT" /\ status' = "CONFIRMED"
        /\ Begin(h, <<[op |-> "onConfirmed"]>>)
        /\ UNCHANGED <<transfer, razorpay, books, faults>>
    BY DEF Confirm
  <1>2. RowsStand /\ SameSums /\ SameFaults
    BY <1>1, BookingMoves DEF BookingStatuses
  <1>3. <<[op |-> "onConfirmed"]>> \in Seq(LaterSteps(status', transfer'))
    BY PlainStep, OneStep DEF PlainOps
  <1> QED BY <1>1, <1>2, <1>3, StartHolds

LEMMA CancelHolds ==
  ASSUME PayoutsInv, CancelRental
  PROVE  PayoutsInv'
  <1>1. PICK n \in {0, (Rent + 1) \div 2, Rent} : Begin(Closer, <<[op |-> "onCancelled", refunded |-> n]>>)
    BY DEF CancelRental
  <1>2. /\ status = "CONFIRMED" /\ status' = "CANCELLED"
        /\ UNCHANGED <<transfer, razorpay, books, faults>>
    BY DEF CancelRental
  <1>3. RowsStand /\ SameSums /\ SameFaults
    BY <1>2, BookingMoves DEF BookingStatuses
  <1>4. n \in Int /\ Closer \in All
    BY PayoutsAssumption DEF All
  <1>5. <<[op |-> "onCancelled", refunded |-> n]>> \in Seq(LaterSteps(status', transfer'))
    BY <1>2, <1>4, CancelSteps, OneStep
  <1> QED BY <1>1, <1>2, <1>3, <1>4, <1>5, StartHolds

LEMMA CompleteHolds ==
  ASSUME PayoutsInv, Complete
  PROVE  PayoutsInv'
  <1>1. /\ status = "CONFIRMED" /\ status' = "COMPLETED" /\ Begin(Closer, Settlement)
        /\ UNCHANGED <<transfer, razorpay, books, faults>>
    BY DEF Complete
  <1>2. RowsStand /\ SameSums /\ SameFaults
    BY <1>1, BookingMoves DEF BookingStatuses
  <1>3. Settlement \in Seq(LaterSteps(status', transfer')) /\ Closer \in All
    BY <1>1, SettlementSteps, PayoutsAssumption DEF All
  <1> QED BY <1>1, <1>2, <1>3, StartHolds

(* What Razorpay does later, and crashes *)

LEMMA FailsLaterHolds ==
  ASSUME PayoutsInv, NEW t \in Rows, NEW place \in {"held", "lender"}, FailsLater(t, place)
  PROVE  PayoutsInv'
  <1>1. /\ razorpay[t][place] > 0 /\ Refused /\ UNCHANGED <<status, transfer, books, todo>>
        /\ t \in TransferIds /\ razorpay[t] \in AtRazorpay
        /\ razorpay \in [TransferIds -> AtRazorpay]
    BY DEF FailsLater, Rows, PayoutsInv, Types
  <1>2. PICK r : r = [razorpay[t] EXCEPT ![place] = @ - 1, !.failed = @ + 1, !.event = TRUE]
    OBVIOUS
  <1>3. razorpay' = [razorpay EXCEPT ![t] = r]
    BY <1>1, <1>2 DEF FailsLater, AtRazorpay
  <1>4. PICK n, m, k : n = razorpay[t].held /\ m = razorpay[t].lender /\ k = razorpay[t].failed
    OBVIOUS
  <1>5. n \in Nat /\ m \in Nat /\ k \in Nat /\ k + 1 \in Nat
    BY <1>1, <1>4 DEF AtRazorpay
  <1>6. /\ r \in AtRazorpay /\ r.held + r.lender + r.failed = n + m + k
        /\ r.lender = m \/ m > 0
    <2>1. CASE place = "held"
      <3>1. n > 0 /\ n - 1 \in Nat
        BY <1>1, <1>4, <1>5, <2>1
      <3>2. r \in AtRazorpay /\ r.held = n - 1 /\ r.lender = m /\ r.failed = k + 1
        BY <1>1, <1>2, <1>4, <1>5, <2>1, <3>1 DEF AtRazorpay
      <3> QED BY <1>5, <3>2
    <2>2. CASE place = "lender"
      <3>1. m > 0 /\ m - 1 \in Nat
        BY <1>1, <1>4, <1>5, <2>2
      <3>2. r \in AtRazorpay /\ r.held = n /\ r.lender = m - 1 /\ r.failed = k + 1
        BY <1>1, <1>2, <1>4, <1>5, <2>2, <3>1 DEF AtRazorpay
      <3> QED BY <1>5, <3>1, <3>2
    <2> QED BY <2>1, <2>2
  <1>7. status # "COMPLETED" /\ transfer[t].onHold => r.lender = 0
    <2>1. status # "COMPLETED" /\ transfer[t].onHold => m = 0
      BY <1>4 DEF PayoutsInv, HeldUntilReturn
    <2> QED BY <1>6, <2>1
  <1>8. SameFaults
    BY <1>1, FaultsStay DEF PayoutsInv
  <1>9. RowsStand /\ SameSums
    BY <1>1, <1>3, <1>4, <1>6, <1>7, <1>8, SameAmount DEF PayoutsInv
  <1> QED BY <1>1, <1>8, <1>9, RestHolds

LEMMA TransferFailedHolds ==
  ASSUME PayoutsInv, NEW t \in Rows, TransferFailed(t)
  PROVE  PayoutsInv'
  <1>1. /\ t \in TransferIds /\ transfer[t] # NoTransfer
        /\ transfer[t] \in TransferRows /\ razorpay[t] \in AtRazorpay
        /\ transfer \in [TransferIds -> TransferRows] /\ razorpay \in [TransferIds -> AtRazorpay]
    BY DEF Rows, PayoutsInv, Types
  <1>2. PICK r : r = [razorpay[t] EXCEPT !.event = FALSE]
    OBVIOUS
  <1>3. PICK failed : failed = [transfer[t] EXCEPT !.status = "FAILED"]
    OBVIOUS
  <1>4. /\ r \in AtRazorpay /\ r.held = razorpay[t].held /\ r.lender = razorpay[t].lender
        /\ r.failed = razorpay[t].failed
    BY <1>1, <1>2 DEF AtRazorpay
  <1>5. /\ failed \in TransferRows /\ failed.status = "FAILED" /\ failed # NoTransfer
        /\ failed.amount = transfer[t].amount /\ failed.onHold = transfer[t].onHold
    <2>1. "FAILED" \in RowStatuses
      BY DEF RowStatuses
    <2>2. /\ failed \in TransferRows /\ failed.status = "FAILED"
          /\ failed.amount = transfer[t].amount /\ failed.onHold = transfer[t].onHold
      BY <1>1, <1>3, <2>1, StatusSet
    <2> QED BY <2>2 DEF NoTransfer
  <1>6. PICK row : row \in {transfer[t], failed} /\ transfer' = [transfer EXCEPT ![t] = row]
    <2>1. CASE transfer' = transfer
      <3>1. transfer' = [transfer EXCEPT ![t] = transfer[t]]
        BY <1>1, <2>1
      <3> QED BY <3>1
    <2>2. CASE transfer' = [transfer EXCEPT ![t].status = "FAILED"]
      BY <1>3, <2>2
    <2> QED BY <2>1, <2>2 DEF TransferFailed
  <1>7. /\ razorpay' = [razorpay EXCEPT ![t] = r]
        /\ UNCHANGED <<status, books, todo, faults>>
    BY <1>2 DEF TransferFailed
  <1>8. /\ transfer' \in [TransferIds -> TransferRows] /\ transfer'[t] = row
        /\ razorpay' \in [TransferIds -> AtRazorpay] /\ razorpay'[t] = r
        /\ row # NoTransfer /\ row.amount = transfer[t].amount /\ row.onHold = transfer[t].onHold
        /\ row.status # "NONE"
        /\ \A u \in TransferIds : u # t => transfer'[u] = transfer[u] /\ razorpay'[u] = razorpay[u]
    BY <1>1, <1>4, <1>5, <1>6, <1>7 DEF PayoutsInv, Types
  <1>9. SameFaults
    BY <1>7, FaultsStay DEF PayoutsInv
  <1>10. Types'
    BY <1>1, <1>7, <1>8 DEF PayoutsInv, Types
  <1>11. RowsKept /\ Forward /\ Rows' = Rows
    BY <1>1, <1>7, <1>8 DEF RowsKept, Forward, Rows
  <1>12. HeldUntilReturn'
    BY <1>1, <1>4, <1>7, <1>8, <1>11 DEF PayoutsInv, HeldUntilReturn, Rows
  <1>13. SameSums
    BY <1>1, <1>4, <1>8 DEF SameSums, TransferredOf
  <1> QED BY <1>7, <1>9, <1>10, <1>11, <1>12, <1>13, RestHolds DEF RowsStand

LEMMA RemoveHolds ==
  ASSUME PayoutsInv, RemoveAccount
  PROVE  PayoutsInv'
  BY Unmoved, RestHolds DEF RemoveAccount

LEMMA CrashHolds ==
  ASSUME PayoutsInv, PayoutsCrash
  PROVE  PayoutsInv'
  <1>1. /\ UNCHANGED <<status, payment, account, transfer, books, razorpay>>
        /\ faults' = [faults EXCEPT !.crashes = @ + 1] /\ todo' = [h \in All |-> <<>>]
    BY DEF PayoutsCrash, Restart
  <1>2. faults' \in [crashes : Nat, failures : Nat] /\ faults'.crashes # 0
    BY <1>1 DEF PayoutsInv, Types
  <1>3. Types' /\ HeldUntilReturn' /\ BookTypes' /\ InBalance'
    BY <1>1, <1>2 DEF PayoutsInv, Types, HeldUntilReturn, BookTypes, InBalance, Rows
  <1>4. TodoFits'
    <2>1. \A F, L : <<>> \in ListsOf(F, L)
      BY DEF ListsOf
    <2> QED BY <1>1, <2>1 DEF TodoFits
  <1> QED BY <1>3, <1>4 DEF PayoutsInv

----------------------------------------------------------------------------
(* The invariant, and what follows from it *)

LEMMA PayoutsStart == PayoutsInit => PayoutsInv
  <1> SUFFICES ASSUME PayoutsInit PROVE PayoutsInv
    OBVIOUS
  <1>1. /\ NoTransfer \in TransferRows /\ Nothing \in AtRazorpay
    BY DEF NoTransfer, TransferRows, RowStatuses, Nothing, AtRazorpay
  <1>2. Types /\ BookTypes
    BY <1>1 DEF PayoutsInit, HandlersInit, Types, BookingStatuses, BookTypes, Zero, Accounts
  <1>3. TodoFits
    <2>1. \A F, L : <<>> \in ListsOf(F, L)
      BY DEF ListsOf
    <2> QED BY <2>1 DEF PayoutsInit, HandlersInit, TodoFits
  <1>4. HeldUntilReturn
    BY DEF PayoutsInit, HeldUntilReturn, Rows
  <1>5. Transferred = 0
    <2>1. \A t \in TransferIds : TransferredOf(t) = 0
      <3>1. 0 * (0 + 0 + 0) = 0
        OBVIOUS
      <3> QED BY <3>1 DEF PayoutsInit, TransferredOf, NoTransfer, Nothing
    <2>2. [t \in TransferIds |-> TransferredOf(t)] = [t \in TransferIds |-> 0]
      BY <2>1
    <2> QED BY <2>2, IdsAreFinite, SumOfZeros DEF Transferred
  <1>6. NotPosted = 0
    <2>1. \A h \in All : PendingOf(todo[h], transfer) = 0
      BY NothingPending DEF PayoutsInit, HandlersInit
    <2>2. [h \in All |-> PendingOf(todo[h], transfer)] = [h \in All |-> 0]
      BY <2>1
    <2> QED BY <2>2, IdsAreFinite, SumOfZeros DEF NotPosted
  <1>7. InBalance
    BY <1>5, <1>6 DEF InBalance, PayoutsInit, Zero
  <1> QED BY <1>2, <1>3, <1>4, <1>7 DEF PayoutsInv

LEMMA PayoutsKept == PayoutsInv /\ [PayoutsNext]_payoutVars => PayoutsInv'
  <1> SUFFICES ASSUME PayoutsInv, [PayoutsNext]_payoutVars PROVE PayoutsInv'
    OBVIOUS
  <1>1. CASE UNCHANGED payoutVars
    <2>1. UNCHANGED <<status, transfer, razorpay, books, todo, faults>>
      BY <1>1 DEF payoutVars
    <2> QED BY <2>1, Unmoved, RestHolds
  <1>2. ASSUME NEW h \in All,
               \/ PayoutStep(h) \/ SendWaiting(h) \/ RetryFailed(h) \/ ResetAttempts(h)
               \/ Confirm(h) \/ Sweep(h)
        PROVE  PayoutsInv'
    BY <1>2, PayoutStepHolds, WaitingHolds, RetryHolds, ResetHolds, ConfirmHolds, SweepHolds
  <1>3. ASSUME NEW h \in All, NEW to \in AccountMoves, AccountChanged(h, to) PROVE PayoutsInv'
    BY <1>3, AccountHolds
  <1>4. ASSUME NEW h \in All, NEW t \in Rows, Retry(h, t) PROVE PayoutsInv'
    BY <1>4, RetriedHolds
  <1>5. ASSUME NEW t \in Rows, NEW place \in {"held", "lender"}, FailsLater(t, place) PROVE PayoutsInv'
    BY <1>5, FailsLaterHolds
  <1>6. ASSUME NEW t \in Rows, TransferFailed(t) PROVE PayoutsInv'
    BY <1>6, TransferFailedHolds
  <1> QED BY <1>1, <1>2, <1>3, <1>4, <1>5, <1>6, RemoveHolds, CancelHolds, CompleteHolds,
             CrashHolds DEF PayoutsNext

LEMMA PayoutsHold == PayoutsSpec => []PayoutsInv
  BY PayoutsStart, PayoutsKept, PTL DEF PayoutsSpec

(* The lender has no money of a booking that is not over, and none of the  *)
(* rent that was held for a cancelled one (onConfirmed, onCancelled, send, *)
(* release), whatever calls, retries, sweeps and webhooks overlap.         *)
THEOREM MoneyWaitsForReturn == PayoutsSpec => []HeldUntilOver
  <1>1. PayoutsInv => HeldUntilOver
    <2> SUFFICES ASSUME PayoutsInv PROVE HeldUntilOver
      OBVIOUS
    <2> QED BY DEF PayoutsInv, HeldUntilReturn, HeldUntilOver
  <1> QED BY <1>1, PayoutsHold, PTL

(* As long as no process was cut off, the ledger says exactly what left    *)
(* Razorpay's balance for the lender (save, reverse), for any number of    *)
(* transfers, retries and reversals, and any commission.                   *)
THEOREM LedgerFollowsTransfers == PayoutsSpec => []BooksFollowRazorpay
  <1>1. PayoutsInv => BooksFollowRazorpay
    <2> SUFFICES ASSUME PayoutsInv, Undisturbed
                 PROVE  books.GATEWAY = SumFunction([t \in TransferIds |-> TransferredOf(t)])
      BY DEF BooksFollowRazorpay
    <2>1. \A h \in All : PendingOf(todo[h], transfer) = 0
      BY NothingPending DEF Undisturbed, AtRest, Free
    <2>2. [h \in All |-> PendingOf(todo[h], transfer)] = [h \in All |-> 0]
      BY <2>1
    <2>3. NotPosted = 0
      BY <2>2, IdsAreFinite, SumOfZeros DEF NotPosted
    <2>4. Transferred \in Int
      <3>1. [t \in TransferIds |-> TransferredOf(t)] \in [TransferIds -> Int]
        BY TransferredType DEF PayoutsInv
      <3> QED BY <3>1, IdsAreFinite, SumType DEF Transferred
    <2>5. books.GATEWAY = Transferred - NotPosted
      BY DEF PayoutsInv, InBalance, Undisturbed
    <2> QED BY <2>3, <2>4, <2>5 DEF Transferred
  <1> QED BY <1>1, PayoutsHold, PTL

=============================================================================

------------------------------- MODULE Rentals -------------------------------
(***************************************************************************)
(* One booking from the documents it asks for to the reviews after it:     *)
(* handover.service.ts, rental-photos.ts, disputes.service.ts,             *)
(* booking-documents.service.ts, documents.service.ts (the borrower's      *)
(* vault, for one type of document) and reviews.service.ts.  A call reads  *)
(* the booking, puts its files into the private bucket, and only then      *)
(* commits what refers to them; what it finds changed by then makes it     *)
(* take the files away again.  Files and rows cannot be changed together,  *)
(* so a crash may come between any two steps.                              *)
(***************************************************************************)
EXTENDS BookingRules, FiniteSets

CONSTANTS
  Calls,          \* bound: requests of the two people in progress at once
  Mixes,          \* bound: a behaviour has the requests of one of these sets
  MaxFiles,       \* bound: files of one kind in the bucket or referred to
  MaxTries,       \* CODE_MAX_TRIES
  MaxPhotos,      \* MAX_PHOTOS
  Retention,      \* SHARE_RETENTION_DAYS, in ticks
  PublishAfter,   \* REVIEW_PUBLISH_DAYS, in ticks
  ReviewWindow,   \* REVIEW_WINDOW_DAYS, in ticks
  StartsOn, EndsOn,
  MaxTime,        \* bound: the clock stops here
  MaxCrashes      \* bound: restarts of the API

ASSUME RentalsAssumption ==
  /\ IsFiniteSet(Calls)
  /\ {MaxFiles, MaxTries, MaxPhotos} \subseteq Nat \ {0}
  /\ {Retention, PublishAfter, ReviewWindow, StartsOn, EndsOn, MaxTime, MaxCrashes} \subseteq Nat
  /\ StartsOn <= EndsOn

VARIABLES
  mix,            \* the requests of this behaviour
  clock,
  booking,        \* the row: what nextStatus reads, and closedAt
  call,           \* call -> what it has read and stored
  tries,          \* Redis: wrong codes per step
  stored,         \* files in the bucket
  report,         \* condition reports: stage and person -> files
  dispute,        \* [status, evidence, response]
  vault,          \* the borrower's documents of the type asked for: status -> files
  shares,         \* [files, purged]: the documents shared with the lender
  purge,          \* the purge that runs: it has deleted these files
  review,         \* person -> "NONE", "WRITTEN" or "PUBLISHED"
  unclean,        \* a crash, or a failure no code cleans up after, has happened
  crashes

files == <<stored, report, dispute, vault, shares, purge>>
vars == <<mix, clock, booking, call, tries, files, review, unclean, crashes>>

Parties == {"BORROWER", "LENDER"}
CodeSteps == {"handOver", "markReturned"}
Stage(op) == IF op \in {"handOver", "moreHandover"} THEN "HANDOVER" ELSE "RETURN"

NoFile == <<"none", "none", 0>>
NoCall == [op |-> "NONE", step |-> "IDLE", by |-> "NONE", right |-> FALSE, file |-> NoFile]
NoDispute == [status |-> "NONE", evidence |-> {}, response |-> {}]

Live == vault["PENDING"] \cup vault["APPROVED"]

Reported == UNION {report[s] : s \in DOMAIN report}

Referred == Reported \cup dispute.evidence \cup dispute.response \cup shares.files
              \cup Live \cup vault["REJECTED"]

InHand == {call[c].file : c \in {d \in Calls : call[d].step \in {"COMMIT", "REMOVE"}}}

Begin(c, op, by, step, right) ==
  /\ op \in mix
  /\ call[c] = NoCall
  /\ UNCHANGED mix
  /\ call' = [call EXCEPT ![c] =
       [op |-> op, step |-> step, by |-> by, right |-> right, file |-> NoFile]]

Goes(c, step) == call' = [call EXCEPT ![c].step = step] /\ UNCHANGED mix

Ends(c) == call' = [call EXCEPT ![c] = NoCall] /\ UNCHANGED mix

(* BookingStateMachine.transition, for the fields that matter here. *)
Moved(action) ==
  LET to == Target(action, TRUE)
  IN  [booking EXCEPT !.status = to,
                      !.docsSubmitted = @ \/ action = "submitDocs",
                      !.returnedAt = IF action = "markReturned" THEN clock ELSE @,
                      !.closedAt = IF to \in Closed THEN clock ELSE @]

----------------------------------------------------------------------------
(* What a call reads before it stores anything.                            *)

NotLocked(op) == tries[op] < MaxTries

(* handOver and markReturned up to the comparison: get of the wrong codes  *)
(* is one call to Redis, the comparison and incr or del come later.        *)
EnterCode(c, op, by, right) ==
  /\ op \in CodeSteps
  /\ Permits(op, by, booking, clock)
  /\ NotLocked(op)
  /\ Begin(c, op, by, "CODE", right)
  /\ UNCHANGED <<clock, booking, tries, files, review, unclean, crashes>>

CompareCode(c) ==
  /\ call[c].step = "CODE"
  /\ IF call[c].right
     THEN tries' = [tries EXCEPT ![call[c].op] = 0] /\ Goes(c, "STORE")
     ELSE tries' = [tries EXCEPT ![call[c].op] = @ + 1] /\ Ends(c)
  /\ UNCHANGED <<clock, booking, files, review, unclean, crashes>>

LockEnds(op) ==
  /\ tries[op] > 0
  /\ tries' = [tries EXCEPT ![op] = 0]
  /\ UNCHANGED <<mix, clock, booking, call, files, review, unclean, crashes>>

(* addPhotos: the number of photos is not read again when they are saved.  *)
PhotosOpen(op) ==
  \/ op = "moreHandover" /\ booking.status = "ACTIVE"
  \/ /\ op = "moreReturn" /\ booking.status = "RETURNED"
     /\ clock < ClaimUntil(booking.returnedAt)

AddPhotos(c, op, by) ==
  /\ PhotosOpen(op)
  /\ Cardinality(report[<<Stage(op), by>>]) < MaxPhotos
  /\ Begin(c, op, by, "STORE", FALSE)
  /\ UNCHANGED <<clock, booking, tries, files, review, unclean, crashes>>

(* open: that a missing item is overdue is checked as it commits.          *)
OpenDispute(c) ==
  /\ \/ booking.status = "ACTIVE"
     \/ booking.status = "RETURNED" /\ clock < ClaimUntil(booking.returnedAt)
  /\ Begin(c, "openDispute", "LENDER", "STORE", FALSE)
  /\ UNCHANGED <<clock, booking, tries, files, review, unclean, crashes>>

Unanswered == dispute.status = "OPEN" /\ dispute.response = {}

Respond(c) ==
  /\ Unanswered
  /\ Begin(c, "respond", "BORROWER", "STORE", FALSE)
  /\ UNCHANGED <<clock, booking, tries, files, review, unclean, crashes>>

(* submit: which document to share; the status is checked as it commits.   *)
SubmitDocs(c, d) ==
  /\ "submitDocs" \in mix
  /\ call[c] = NoCall
  /\ d \in Live
  /\ call' = [call EXCEPT ![c] = [op |-> "submitDocs", step |-> "STORE", by |-> "BORROWER",
                                 right |-> FALSE, file |-> d]]
  /\ UNCHANGED <<mix, clock, booking, tries, files, review, unclean, crashes>>

(* create, of the vault: one document of a type that is not rejected.      *)
UploadDoc(c) ==
  /\ Live = {}
  /\ Begin(c, "upload", "BORROWER", "STORE", FALSE)
  /\ UNCHANGED <<clock, booking, tries, files, review, unclean, crashes>>

----------------------------------------------------------------------------
(* RentalPhotos.store, the vault's own, and the copy of a vault document,  *)
(* which the borrower may have deleted by now.                             *)

(* A file is named for what it shows, whose it is and a number (its UUID). *)
Named(c, n) == <<call[c].op, call[c].by, n>>

Free(f) == f \notin stored \cup Referred /\ \A c \in Calls : call[c].file # f

Store(c, n) ==
  /\ call[c].step = "STORE"
  /\ call[c].op = "submitDocs" => call[c].file \in stored
  /\ Free(Named(c, n)) /\ \A k \in 1..(n - 1) : ~Free(Named(c, k))
  /\ stored' = stored \cup {Named(c, n)}
  /\ call' = [call EXCEPT ![c].step = "COMMIT", ![c].file = Named(c, n)]
  /\ UNCHANGED <<mix, clock, booking, tries, report, dispute, vault, shares, purge, review, unclean, crashes>>

(* An upload that is missing or unreadable: what was stored is removed. *)
StoreFails(c) ==
  /\ call[c].step = "STORE"
  /\ Ends(c)
  /\ UNCHANGED <<clock, booking, tries, files, review, unclean, crashes>>

SavedPhotos(c) ==
  LET at == <<Stage(call[c].op), call[c].by>>
  IN  [report EXCEPT ![at] = @ \cup {call[c].file}]

(* The transaction of each call, with what it refuses. *)
Confirmed(c) ==
  /\ call[c].op \in CodeSteps
  /\ Permits(call[c].op, call[c].by, booking, clock)
  /\ booking' = Moved(call[c].op)
  /\ report' = SavedPhotos(c)
  /\ UNCHANGED <<dispute, vault, shares>>

Added(c) ==
  /\ call[c].op \in {"moreHandover", "moreReturn"}
  /\ report' = SavedPhotos(c)
  /\ UNCHANGED <<booking, dispute, vault, shares>>

Claimed(c) ==
  /\ call[c].op = "openDispute"
  /\ Permits("openDispute", "LENDER", booking, clock)
  /\ booking' = Moved("openDispute")
  /\ dispute' = [status |-> "OPEN", evidence |-> {call[c].file}, response |-> {}]
  /\ UNCHANGED <<report, vault, shares>>

StillOpen == dispute.status = "OPEN"      \* mutant: no `respondedAt: null`

Answerable == Unanswered

Responded(c) ==
  /\ call[c].op = "respond"
  /\ Answerable
  /\ dispute' = [dispute EXCEPT !.response = {call[c].file}]
  /\ UNCHANGED <<booking, report, vault, shares>>

Shared(c) ==
  /\ call[c].op = "submitDocs"
  /\ Permits("submitDocs", "BORROWER", booking, clock)
  /\ booking' = Moved("submitDocs")
  /\ shares' = [files |-> {call[c].file}, purged |-> FALSE]
  /\ UNCHANGED <<report, dispute, vault>>

Uploaded(c) ==
  /\ call[c].op = "upload"
  /\ Live = {}                     \* a unique index of user_documents
  /\ vault' = [vault EXCEPT !["PENDING"] = {call[c].file}]
  /\ UNCHANGED <<booking, report, dispute, shares>>

Commit(c) ==
  /\ call[c].step = "COMMIT"
  /\ \/ Confirmed(c) \/ Added(c) \/ Claimed(c) \/ Responded(c) \/ Shared(c)
     \/ Uploaded(c)
  /\ Ends(c)
  /\ UNCHANGED <<clock, tries, stored, purge, review, unclean, crashes>>

(* Whether the transaction would be refused for what the call finds now.   *)
Refused(c) ==
  \/ /\ call[c].op \in CodeSteps \cup {"openDispute", "submitDocs"}
     /\ ~Permits(call[c].op, call[c].by, booking, clock)
  \/ call[c].op = "respond" /\ ~Answerable
  \/ call[c].op = "upload" /\ Live # {}

LeavesFiles(c) == Ends(c)         \* mutant: no `photos.remove(keys)`

CleansUp(c) == Goes(c, "REMOVE")

CommitRefused(c) ==
  /\ call[c].step = "COMMIT"
  /\ Refused(c)
  /\ CleansUp(c)
  /\ UNCHANGED <<clock, booking, tries, files, review, unclean, crashes>>

(* The database is away.  respond has no catch for this. *)
CommitFails(c) ==
  /\ call[c].step = "COMMIT"
  /\ IF call[c].op = "respond"
     THEN Ends(c) /\ unclean' = TRUE
     ELSE CleansUp(c) /\ UNCHANGED unclean
  /\ UNCHANGED <<clock, booking, tries, files, review, crashes>>

(* create's catch also covers the audit entry after the row: if that fails *)
(* the files of a document that is there are removed.                      *)
AuditFails(c) ==
  /\ call[c].step = "COMMIT"
  /\ Uploaded(c)
  /\ CleansUp(c)
  /\ unclean' = TRUE
  /\ UNCHANGED <<clock, tries, stored, purge, review, crashes>>

(* delete, of the vault: the row, and then (Remove) the file. *)
DeleteDoc(c, d) ==
  /\ "deleteDoc" \in mix
  /\ call[c] = NoCall
  /\ d \in Live \cup vault["REJECTED"]
  /\ vault' = [s \in DOMAIN vault |-> vault[s] \ {d}]
  /\ call' = [call EXCEPT ![c] = [op |-> "deleteDoc", step |-> "REMOVE", by |-> "BORROWER",
                                 right |-> FALSE, file |-> d]]
  /\ UNCHANGED <<mix, clock, booking, tries, stored, report, dispute, shares, purge, review,
                 unclean, crashes>>

(* review, of the vault. *)
ReviewDoc(d, outcome) ==
  /\ d \in vault["PENDING"]
  /\ vault' = [vault EXCEPT !["PENDING"] = @ \ {d}, ![outcome] = @ \cup {d}]
  /\ UNCHANGED <<mix, clock, booking, call, tries, stored, report, dispute, shares, purge, review,
                 unclean, crashes>>

Remove(c) ==
  /\ call[c].step = "REMOVE"
  /\ stored' = stored \ {call[c].file}
  /\ Ends(c)
  /\ UNCHANGED <<clock, booking, tries, report, dispute, vault, shares, purge, review, unclean, crashes>>

----------------------------------------------------------------------------
(* Steps that are one transaction.                                         *)

(* The lender's review of the documents, payment, cancelling, the no-show, *)
(* the timers.  (The deadlines themselves are in Bookings.)                *)
Steps ==
  {<<"approveDocs", "LENDER">>, <<"rejectDocs", "LENDER">>, <<"confirmPayment", "SYSTEM">>,
   <<"expire", "SYSTEM">>, <<"complete", "SYSTEM">>, <<"noShow", "LENDER">>}
    \cup {<<"cancel", party>> : party \in {"BORROWER", "LENDER", "ADMIN"}}

Step(s) ==
  /\ Permits(s[1], s[2], booking, clock)
  /\ s[1] = "complete" => clock >= ClaimUntil(booking.returnedAt)
  /\ booking' = Moved(s[1])
  /\ UNCHANGED <<mix, clock, call, tries, files, review, unclean, crashes>>

Resolve ==
  /\ dispute.status = "OPEN"
  /\ Permits("resolveDispute", "ADMIN", booking, clock)
  /\ booking' = Moved("resolveDispute")
  /\ dispute' = [dispute EXCEPT !.status = "RESOLVED"]
  /\ UNCHANGED <<mix, clock, call, tries, stored, report, vault, shares, purge, review, unclean, crashes>>

----------------------------------------------------------------------------
(* purgeClosed: the files first, then the rows.                            *)

PurgeDueCompleted ==              \* mutant: only after a completed rental
  /\ shares.files # {} /\ ~shares.purged
  /\ booking.status = "COMPLETED" /\ booking.closedAt + Retention <= clock

PurgeDue ==
  /\ shares.files # {} /\ ~shares.purged
  /\ booking.closedAt # NoTime /\ booking.closedAt + Retention <= clock

StartPurge ==
  /\ purge = {} /\ PurgeDue
  /\ stored' = stored \ shares.files
  /\ purge' = shares.files
  /\ UNCHANGED <<mix, clock, booking, call, tries, report, dispute, vault, shares, review, unclean, crashes>>

EndPurge ==
  /\ purge # {}
  /\ shares' = [files |-> {}, purged |-> TRUE]
  /\ purge' = {}
  /\ UNCHANGED <<mix, clock, booking, call, tries, stored, report, dispute, vault, review, unclean, crashes>>

----------------------------------------------------------------------------
(* Reviews: hidden until both have written one, or the sweep publishes.    *)

Other(p) == IF p = "LENDER" THEN "BORROWER" ELSE "LENDER"

ReviewsOpen ==
  booking.status = "COMPLETED" /\ clock < booking.closedAt + ReviewWindow

(* write reads both reviews; the other may be written before it commits. *)
WriteReview(c, p) ==
  /\ ReviewsOpen
  /\ review[p] = "NONE"
  /\ Begin(c, "review", p, "WRITE", review[Other(p)] # "NONE")
  /\ UNCHANGED <<clock, booking, tries, files, review, unclean, crashes>>

SaveReview(c) ==
  LET p == call[c].by
  IN  /\ call[c].step = "WRITE"
      /\ review' = IF review[p] # "NONE" THEN review      \* P2002
                   ELSE IF call[c].right THEN [q \in Parties |-> "PUBLISHED"]
                   ELSE [review EXCEPT ![p] = "WRITTEN"]
      /\ Ends(c)
      /\ UNCHANGED <<clock, booking, tries, files, unclean, crashes>>

OneSidedDue ==                    \* mutant: the sweep takes one-sided reviews only
  IF \A p \in Parties : review[p] = "WRITTEN" THEN {}
  ELSE {p \in Parties : review[p] = "WRITTEN" /\ booking.closedAt + PublishAfter <= clock}

ReviewsDue ==
  {p \in Parties : review[p] = "WRITTEN" /\ booking.closedAt + PublishAfter <= clock}

PublishDue ==
  /\ ReviewsDue # {}
  /\ review' = [p \in Parties |-> IF p \in ReviewsDue THEN "PUBLISHED" ELSE review[p]]
  /\ UNCHANGED <<mix, clock, booking, call, tries, files, unclean, crashes>>

----------------------------------------------------------------------------
Tick ==
  /\ clock < MaxTime
  /\ clock' = clock + 1
  /\ UNCHANGED <<mix, booking, call, tries, files, review, unclean, crashes>>

Crash ==
  /\ crashes < MaxCrashes
  /\ crashes' = crashes + 1
  /\ call' = [c \in Calls |-> NoCall]
  /\ purge' = {}
  /\ unclean' = TRUE
  /\ UNCHANGED <<mix, clock, booking, tries, stored, report, dispute, vault, shares, review>>

----------------------------------------------------------------------------
(* A behaviour begins where its requests do: when the documents are asked  *)
(* for, when the booking is paid, or when the item has been handed over.   *)
Begins ==
  CASE "submitDocs" \in mix -> "AWAITING_DOCS"
    [] "handOver" \in mix   -> "CONFIRMED"
    [] OTHER                -> "ACTIVE"

FirstPhotos ==
  IF Begins = "ACTIVE" THEN {<<"handOver", "LENDER", 1>>} ELSE {}

FirstDocs ==
  IF Begins = "AWAITING_DOCS" THEN {<<"upload", "BORROWER", 1>>} ELSE {}

Init ==
  /\ mix \in Mixes
  /\ clock = 0
  /\ booking = [status |-> Begins, startsOn |-> StartsOn, endsOn |-> EndsOn,
                docsSubmitted |-> FALSE, returnedAt |-> NoTime, closedAt |-> NoTime]
  /\ call = [c \in Calls |-> NoCall]
  /\ tries = [op \in CodeSteps |-> 0]
  /\ stored = FirstPhotos \cup FirstDocs
  /\ report = [at \in {"HANDOVER", "RETURN"} \X Parties |->
       IF at = <<"HANDOVER", "LENDER">> THEN FirstPhotos ELSE {}]
  /\ dispute = NoDispute
  /\ vault = [s \in {"PENDING", "APPROVED", "REJECTED"} |->
       IF s = "APPROVED" THEN FirstDocs ELSE {}]
  /\ shares = [files |-> {}, purged |-> FALSE]
  /\ purge = {}
  /\ review = [p \in Parties |-> "NONE"]
  /\ unclean = FALSE
  /\ crashes = 0

Calling(c) ==
  \/ \E op \in CodeSteps, by \in Parties, right \in BOOLEAN : EnterCode(c, op, by, right)
  \/ CompareCode(c)
  \/ \E op \in {"moreHandover", "moreReturn"}, by \in Parties : AddPhotos(c, op, by)
  \/ OpenDispute(c)
  \/ Respond(c)
  \/ \E d \in Live : SubmitDocs(c, d)
  \/ UploadDoc(c)
  \/ AuditFails(c)
  \/ \E d \in Live \cup vault["REJECTED"] : DeleteDoc(c, d)
  \/ \E n \in 1..MaxFiles : Store(c, n)
  \/ StoreFails(c)
  \/ Commit(c)
  \/ CommitRefused(c)
  \/ CommitFails(c)
  \/ Remove(c)
  \/ \E p \in Parties : WriteReview(c, p)
  \/ SaveReview(c)

Next ==
  \/ \E c \in Calls : Calling(c)
  \/ \E op \in CodeSteps : LockEnds(op)
  \/ \E s \in Steps : Step(s)
  \/ \E d \in vault["PENDING"], outcome \in {"APPROVED", "REJECTED"} : ReviewDoc(d, outcome)
  \/ Resolve
  \/ StartPurge
  \/ EndPurge
  \/ PublishDue
  \/ Tick
  \/ Crash

(* The purge and the sweep are repeating jobs; nobody has to call. *)
Fairness == WF_vars(StartPurge) /\ WF_vars(EndPurge) /\ WF_vars(PublishDue)

Spec == Init /\ [][Next]_vars /\ Fairness

----------------------------------------------------------------------------
(* Properties *)

(* What a report, a claim or its answer refers to is in the bucket: no     *)
(* call takes away a file that a committed row points to.  And unless a    *)
(* crash came in between, every file is one that a row refers to or a call *)
(* still holds, so refused calls leave no photo of the item or copy of a   *)
(* document behind.                                                        *)
BucketMatchesRows ==
  /\ Reported \cup dispute.evidence \cup dispute.response \subseteq stored
  /\ ~unclean => /\ stored \subseteq Referred \cup InHand
                 /\ Live \subseteq stored

(* The borrower's side is given once and stands: of two answers sent at    *)
(* once one is kept, and none is taken after the decision.                 *)
OneAnswer ==
  [][dispute.response # {} \/ dispute.status = "RESOLVED" =>
       dispute'.response = dispute.response]_vars

(* A while after the booking closed the lender's copies of the documents   *)
(* are gone, however it closed, also when a purge stopped half-way.        *)
ClosedSince(t) == booking.closedAt # NoTime /\ booking.closedAt + t <= clock

CopiesGo ==
  \A n \in 1..MaxFiles :
    LET copy == <<"submitDocs", "BORROWER", n>>
    IN  copy \in shares.files /\ ClosedSince(Retention) ~> copy \notin stored

(* Every review is shown in the end: also when both people wrote theirs at *)
(* once, so that neither call saw the other's and published the two.       *)
ReviewsAppear ==
  \A p \in Parties :
    review[p] = "WRITTEN" /\ ClosedSince(PublishAfter) ~> review[p] = "PUBLISHED"

=============================================================================

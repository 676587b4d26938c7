--------------------------- MODULE RentalsProofs ---------------------------
(***************************************************************************)
(* Proofs about Rentals: what happens to a file between the bucket and the *)
(* row that refers to it, and that the answer to a claim stands.           *)
(***************************************************************************)
EXTENDS Rentals, FiniteSetTheorems, TLAPS

Ops == CodeSteps \cup {"moreHandover", "moreReturn", "openDispute", "respond", "submitDocs",
                       "upload", "deleteDoc", "review"}

CallSteps == {"IDLE", "CODE", "STORE", "COMMIT", "REMOVE", "WRITE"}

IsCall(row) ==
  /\ DOMAIN row = {"op", "step", "by", "right", "file"}
  /\ row.step \in CallSteps
  /\ row.step # "IDLE" => row.by \in Parties /\ row.op \in Ops
  /\ row.step = "CODE" => row.op \in CodeSteps
  /\ row.step \in {"STORE", "COMMIT"} => row.op \notin {"deleteDoc", "review"}

IsRow(b) ==
  /\ DOMAIN b = {"status", "startsOn", "endsOn", "docsSubmitted", "returnedAt", "closedAt"}
  /\ b.docsSubmitted \in BOOLEAN
  /\ b.closedAt # NoTime => b.status \in Closed

TypeInv ==
  /\ IsRow(booking)
  /\ DOMAIN call = Calls /\ \A c \in Calls : IsCall(call[c])
  /\ tries \in [CodeSteps -> Nat]
  /\ DOMAIN report = {"HANDOVER", "RETURN"} \X Parties
  /\ DOMAIN dispute = {"status", "evidence", "response"}
  /\ DOMAIN shares = {"files", "purged"}
  /\ DOMAIN vault = {"PENDING", "APPROVED", "REJECTED"}

----------------------------------------------------------------------------
(* One step: the booking moves as nextStatus permits, and one call goes on.*)

Actions ==
  {"handOver", "markReturned", "openDispute", "submitDocs", "resolveDispute", "approveDocs",
   "rejectDocs", "confirmPayment", "expire", "complete", "noShow", "cancel"}

LEMMA MovedFacts ==
  ASSUME IsRow(booking), NEW action \in Actions, NEW party, Permits(action, party, booking, clock)
  PROVE  /\ IsRow(Moved(action))
         /\ booking.docsSubmitted \/ action = "submitDocs" => Moved(action).docsSubmitted
         /\ action = "submitDocs" => ~booking.docsSubmitted
         /\ booking.closedAt = NoTime
         /\ booking.status # "COMPLETED"
         /\ booking.status = "DISPUTED" => action = "resolveDispute"
         /\ action = "resolveDispute" => Moved(action).status = "COMPLETED"
         /\ action = "openDispute" => Moved(action).status = "DISPUTED"
  <1>1. booking.status \notin Closed
    BY DEF Permits, MayCancel, MayDispute, Closed, Open, Rental, Expirable
  <1>2. booking.status = "DISPUTED" => action = "resolveDispute"
    BY DEF Permits, MayCancel, MayDispute, Open, Rental, Expirable
  <1>3. action = "submitDocs" => ~booking.docsSubmitted
    BY DEF Permits
  <1>4. PICK to : to = Target(action, TRUE)
    OBVIOUS
  <1>5. /\ action = "resolveDispute" => to = "COMPLETED"
        /\ action = "openDispute" => to = "DISPUTED"
    BY <1>4 DEF Target
  <1>6. /\ DOMAIN Moved(action) = DOMAIN booking
        /\ Moved(action).status = to
        /\ Moved(action).docsSubmitted = (booking.docsSubmitted \/ action = "submitDocs")
        /\ Moved(action).closedAt = IF to \in Closed THEN clock ELSE booking.closedAt
    BY <1>4 DEF Moved, IsRow
  <1> QED BY <1>1, <1>2, <1>3, <1>5, <1>6 DEF IsRow, Closed

(* A call's row is replaced; the others stay. *)
Becomes(c, row) ==
  /\ DOMAIN call' = Calls
  /\ call'[c] = row
  /\ \A d \in Calls \ {c} : call'[d] = call[d]

LEMMA CallSet ==
  ASSUME TypeInv, NEW c \in Calls, NEW row, call' = [call EXCEPT ![c] = row]
  PROVE  Becomes(c, row)
  BY DEF TypeInv, Becomes

LEMMA CallEnds ==
  ASSUME TypeInv, NEW c \in Calls, Ends(c)
  PROVE  Becomes(c, NoCall)
  BY DEF TypeInv, Becomes, Ends

LEMMA CallBegins ==
  ASSUME TypeInv, NEW c \in Calls, NEW op, NEW by, NEW step, NEW right, Begin(c, op, by, step, right)
  PROVE  /\ call[c] = NoCall
         /\ Becomes(c, [op |-> op, step |-> step, by |-> by, right |-> right, file |-> NoFile])
  BY CallSet DEF Begin

Advanced(c, step) == [call[c] EXCEPT !.step = step]

LEMMA CallGoes ==
  ASSUME TypeInv, NEW c \in Calls, NEW step, Goes(c, step)
  PROVE  Becomes(c, Advanced(c, step))
  <1>1. \A d \in Calls : call'[d] = IF d = c THEN [call[c] EXCEPT !.step = step] ELSE call[d]
    BY DEF TypeInv, Goes
  <1>2. DOMAIN call' = Calls
    BY DEF TypeInv, Goes
  <1> QED BY <1>1, <1>2 DEF Becomes, Advanced

LEMMA AdvancedFields ==
  ASSUME TypeInv, NEW c \in Calls, NEW step
  PROVE  /\ DOMAIN Advanced(c, step) = {"op", "step", "by", "right", "file"}
         /\ Advanced(c, step).step = step
         /\ Advanced(c, step).op = call[c].op
         /\ Advanced(c, step).by = call[c].by
         /\ Advanced(c, step).file = call[c].file
  BY DEF TypeInv, IsCall, Advanced

(* What the call c becomes in a step of it, whatever the step. *)
LEMMA CallNext ==
  ASSUME TypeInv, NEW c \in Calls, Calling(c)
  PROVE  \E row : IsCall(row) /\ Becomes(c, row)
  <1> DEFINE Done == \E row : IsCall(row) /\ Becomes(c, row)
  <1>0. IsCall(NoCall)
    BY DEF IsCall, NoCall, CallSteps
  <1>1. ASSUME Ends(c) PROVE Done
    BY <1>0, <1>1, CallEnds
  <1>2. ASSUME NEW op \in Ops, NEW by \in Parties, NEW step \in CallSteps, NEW right,
               Begin(c, op, by, step, right), step = "CODE" => op \in CodeSteps,
               step \in {"STORE", "COMMIT"} => op \notin {"deleteDoc", "review"}
        PROVE  Done
    <2> DEFINE row == [op |-> op, step |-> step, by |-> by, right |-> right, file |-> NoFile]
    <2>1. IsCall(row)
      BY <1>2 DEF IsCall
    <2>2. Becomes(c, row)
      BY <1>2, CallBegins
    <2> QED BY <2>1, <2>2
  <1>3. ASSUME NEW step \in CallSteps, Goes(c, step), call[c].step # "IDLE", step # "CODE",
               step \in {"STORE", "COMMIT"} => call[c].op \notin {"deleteDoc", "review"}
        PROVE  Done
    <2>1. IsCall(Advanced(c, step))
      BY <1>3, AdvancedFields DEF IsCall, TypeInv
    <2> QED BY <2>1, <1>3, CallGoes
  <1>4. CASE \E op \in CodeSteps, by \in Parties, right \in BOOLEAN : EnterCode(c, op, by, right)
    <2>1. PICK op \in CodeSteps, by \in Parties, right \in BOOLEAN : EnterCode(c, op, by, right)
      BY <1>4
    <2>2. Begin(c, op, by, "CODE", right)
      BY <2>1 DEF EnterCode
    <2> QED BY <2>2, <1>2 DEF Ops, CallSteps
  <1>5. CASE CompareCode(c)
    <2>1. call[c].step = "CODE" /\ (Goes(c, "STORE") \/ Ends(c))
      BY <1>5 DEF CompareCode
    <2>2. call[c].op \notin {"deleteDoc", "review"}
      BY <2>1 DEF TypeInv, IsCall, CodeSteps
    <2> QED BY <2>1, <2>2, <1>1, <1>3 DEF CallSteps
  <1>6. CASE \E op \in {"moreHandover", "moreReturn"}, by \in Parties : AddPhotos(c, op, by)
    <2>1. PICK op \in {"moreHandover", "moreReturn"}, by \in Parties : Begin(c, op, by, "STORE", FALSE)
      BY <1>6 DEF AddPhotos
    <2> QED BY <2>1, <1>2 DEF Ops, CallSteps
  <1>7. CASE OpenDispute(c)
    <2>1. Begin(c, "openDispute", "LENDER", "STORE", FALSE)
      BY <1>7 DEF OpenDispute
    <2> QED BY <2>1, <1>2 DEF Ops, CallSteps, Parties
  <1>8. CASE Respond(c)
    <2>1. Begin(c, "respond", "BORROWER", "STORE", FALSE)
      BY <1>8 DEF Respond
    <2> QED BY <2>1, <1>2 DEF Ops, CallSteps, Parties
  <1>9. CASE \E d \in Live : SubmitDocs(c, d)
    <2>1. PICK d \in Live : SubmitDocs(c, d)
      BY <1>9
    <2> DEFINE row == [op |-> "submitDocs", step |-> "STORE", by |-> "BORROWER", right |-> FALSE,
                       file |-> d]
    <2>2. IsCall(row)
      BY DEF IsCall, CallSteps, Ops, Parties
    <2>3. Becomes(c, row)
      BY <2>1, CallSet DEF SubmitDocs
    <2> QED BY <2>2, <2>3
  <1>10. CASE UploadDoc(c)
    <2>1. Begin(c, "upload", "BORROWER", "STORE", FALSE)
      BY <1>10 DEF UploadDoc
    <2> QED BY <2>1, <1>2 DEF Ops, CallSteps, Parties
  <1>11. CASE AuditFails(c) \/ CommitRefused(c) \/ CommitFails(c)
    <2>1. call[c].step = "COMMIT" /\ (Goes(c, "REMOVE") \/ Ends(c))
      BY <1>11 DEF AuditFails, CommitRefused, CommitFails, CleansUp
    <2> QED BY <2>1, <1>1, <1>3 DEF CallSteps
  <1>12. CASE \E d \in Live \cup vault["REJECTED"] : DeleteDoc(c, d)
    <2>1. PICK d : DeleteDoc(c, d)
      BY <1>12
    <2> DEFINE row == [op |-> "deleteDoc", step |-> "REMOVE", by |-> "BORROWER", right |-> FALSE,
                       file |-> d]
    <2>2. IsCall(row)
      BY DEF IsCall, CallSteps, Ops, Parties
    <2>3. Becomes(c, row)
      BY <2>1, CallSet DEF DeleteDoc
    <2> QED BY <2>2, <2>3
  <1>13. CASE \E n \in 1..MaxFiles : Store(c, n)
    <2>1. PICK n : Store(c, n)
      BY <1>13
    <2>2. PICK f : f = Named(c, n)
      OBVIOUS
    <2>3. PICK row : row = [call[c] EXCEPT !.step = "COMMIT", !.file = f]
      OBVIOUS
    <2>4. \A d \in Calls : call'[d] = IF d = c THEN row ELSE call[d]
      BY <2>1, <2>2, <2>3 DEF Store, TypeInv
    <2>5. DOMAIN call' = Calls
      BY <2>1 DEF Store, TypeInv
    <2>6. IsCall(row)
      BY <2>1, <2>3 DEF Store, TypeInv, IsCall, CallSteps
    <2> QED BY <2>4, <2>5, <2>6 DEF Becomes
  <1>14. CASE StoreFails(c) \/ Commit(c) \/ Remove(c) \/ SaveReview(c)
    <2>1. Ends(c)
      BY <1>14 DEF StoreFails, Commit, Remove, SaveReview
    <2> QED BY <2>1, <1>1
  <1>15. CASE \E p \in Parties : WriteReview(c, p)
    <2>1. PICK p \in Parties : Begin(c, "review", p, "WRITE", review[Other(p)] # "NONE")
      BY <1>15 DEF WriteReview
    <2> QED BY <2>1, <1>2 DEF Ops, CallSteps
  <1> QED BY <1>4, <1>5, <1>6, <1>7, <1>8, <1>9, <1>10, <1>11, <1>12, <1>13, <1>14, <1>15 DEF Calling

(* What a step makes of the rows, as far as TypeInv is about them. *)
LEMMA BookingKept ==
  ASSUME TypeInv, [Next]_vars
  PROVE  IsRow(booking')
  <1> USE DEF TypeInv
  <1>1. CASE booking' = booking
    BY <1>1
  <1>2. ASSUME NEW action \in Actions, NEW party, Permits(action, party, booking, clock),
               booking' = Moved(action)
        PROVE  IsRow(booking')
    BY <1>2, MovedFacts
  <1>3. ASSUME NEW c \in Calls, Calling(c), booking' # booking PROVE IsRow(booking')
    <2>1. Commit(c) \/ AuditFails(c)
      BY <1>3 DEF Calling, EnterCode, CompareCode, AddPhotos, OpenDispute, Respond, SubmitDocs,
        UploadDoc, DeleteDoc, Store, StoreFails, CommitRefused, CommitFails, Remove, WriteReview,
        SaveReview
    <2>2. Confirmed(c) \/ Claimed(c) \/ Shared(c)
      BY <2>1, <1>3 DEF Commit, AuditFails, Added, Responded, Uploaded
    <2> QED BY <2>2, <1>2 DEF Confirmed, Claimed, Shared, Actions, CodeSteps
  <1>4. ASSUME NEW s \in Steps, Step(s) PROVE IsRow(booking')
    <2>1. s[1] \in Actions
      BY DEF Steps, Actions
    <2> QED BY <2>1, <1>4, <1>2 DEF Step
  <1>5. CASE Resolve
    BY <1>5, <1>2 DEF Resolve, Actions
  <1>6. CASE UNCHANGED vars
    BY <1>6, <1>1 DEF vars
  <1> QED BY <1>1, <1>3, <1>4, <1>5, <1>6
        DEF Next, LockEnds, ReviewDoc, StartPurge, EndPurge, PublishDue, Tick, Crash

LEMMA TriesKept ==
  ASSUME TypeInv, [Next]_vars
  PROVE  tries' \in [CodeSteps -> Nat]
  <1> USE DEF TypeInv
  <1>1. CASE tries' = tries
    BY <1>1
  <1>2. ASSUME NEW c \in Calls, Calling(c), tries' # tries PROVE tries' \in [CodeSteps -> Nat]
    <2>1. CompareCode(c)
      BY <1>2 DEF Calling, EnterCode, AddPhotos, OpenDispute, Respond, SubmitDocs, UploadDoc,
        DeleteDoc, Store, StoreFails, Commit, AuditFails, CommitRefused, CommitFails, Remove,
        WriteReview, SaveReview
    <2> QED BY <2>1 DEF CompareCode, IsCall
  <1>3. ASSUME NEW op \in CodeSteps, LockEnds(op) PROVE tries' \in [CodeSteps -> Nat]
    BY <1>3 DEF LockEnds
  <1> QED BY <1>1, <1>2, <1>3
        DEF Next, vars, Step, ReviewDoc, Resolve, StartPurge, EndPurge, PublishDue, Tick, Crash

LEMMA RowsKept ==
  ASSUME TypeInv, [Next]_vars
  PROVE  /\ DOMAIN report' = DOMAIN report /\ DOMAIN dispute' = DOMAIN dispute
         /\ DOMAIN shares' = DOMAIN shares /\ DOMAIN vault' = DOMAIN vault
  <1> DEFINE Same == /\ DOMAIN report' = DOMAIN report /\ DOMAIN dispute' = DOMAIN dispute
                     /\ DOMAIN shares' = DOMAIN shares /\ DOMAIN vault' = DOMAIN vault
  <1>1. CASE UNCHANGED files
    BY <1>1 DEF files
  <1>2. ASSUME NEW c \in Calls, Calling(c), ~ UNCHANGED files PROVE Same
    <2>1. CASE Commit(c) \/ AuditFails(c)
      <3>1. \/ Confirmed(c) \/ Added(c) \/ Claimed(c) \/ Responded(c) \/ Shared(c)
            \/ Uploaded(c)
        BY <2>1 DEF Commit, AuditFails
      <3>2. CASE Confirmed(c) \/ Added(c)
        BY <3>2 DEF Confirmed, Added, SavedPhotos, TypeInv
      <3>3. CASE Claimed(c)
        BY <3>3 DEF Claimed, TypeInv
      <3>4. CASE Responded(c)
        BY <3>4 DEF Responded, TypeInv
      <3>5. CASE Shared(c)
        BY <3>5 DEF Shared, TypeInv
      <3>6. CASE Uploaded(c)
        BY <3>6 DEF Uploaded, TypeInv
      <3> QED BY <3>1, <3>2, <3>3, <3>4, <3>5, <3>6
    <2>2. CASE \E d \in Live \cup vault["REJECTED"] : DeleteDoc(c, d)
      BY <2>2 DEF DeleteDoc
    <2>3. CASE (\E n \in 1..MaxFiles : Store(c, n)) \/ Remove(c)
      BY <2>3 DEF Store, Remove
    <2> QED BY <2>1, <2>2, <2>3, <1>2
          DEF Calling, EnterCode, CompareCode, AddPhotos, OpenDispute, Respond, SubmitDocs, UploadDoc,
            StoreFails, CommitRefused, CommitFails, WriteReview, SaveReview
  <1>3. ASSUME NEW d, NEW outcome, ReviewDoc(d, outcome) PROVE Same
    BY <1>3 DEF ReviewDoc
  <1>4. CASE Resolve
    BY <1>4 DEF Resolve
  <1>5. CASE StartPurge \/ EndPurge
    BY <1>5 DEF StartPurge, EndPurge, TypeInv
  <1>6. CASE Crash
    BY <1>6 DEF Crash
  <1> QED BY <1>1, <1>2, <1>3, <1>4, <1>5, <1>6
        DEF Next, vars, LockEnds, Step, PublishDue, Tick

LEMMA CallsKept ==
  ASSUME TypeInv, [Next]_vars
  PROVE  DOMAIN call' = Calls /\ \A c \in Calls : IsCall(call'[c])
  <1> DEFINE Good == DOMAIN call' = Calls /\ \A c \in Calls : IsCall(call'[c])
  <1>1. CASE call' = call
    BY <1>1 DEF TypeInv
  <1>2. ASSUME NEW c \in Calls, Calling(c) PROVE Good
    <2>1. PICK row : IsCall(row) /\ Becomes(c, row)
      BY <1>2, CallNext
    <2>2. \A d \in Calls : IsCall(call'[d])
      BY <2>1 DEF TypeInv, Becomes
    <2> QED BY <2>1, <2>2 DEF Becomes
  <1>3. CASE Crash
    <2>1. IsCall(NoCall)
      BY DEF IsCall, NoCall, CallSteps
    <2> QED BY <2>1, <1>3 DEF Crash
  <1> QED BY <1>1, <1>2, <1>3
        DEF Next, vars, LockEnds, Step, ReviewDoc, Resolve, StartPurge, EndPurge, PublishDue, Tick

LEMMA InitTypes == Init => TypeInv
  <1> SUFFICES ASSUME Init PROVE TypeInv
    OBVIOUS
  <1>1. IsRow(booking)
    BY DEF Init, IsRow
  <1>2. IsCall(NoCall)
    BY DEF IsCall, NoCall, CallSteps
  <1>3. DOMAIN call = Calls /\ \A c \in Calls : IsCall(call[c])
    BY <1>2 DEF Init
  <1>4. tries \in [CodeSteps -> Nat]
    BY DEF Init
  <1>5. /\ DOMAIN report = {"HANDOVER", "RETURN"} \X Parties
        /\ DOMAIN dispute = {"status", "evidence", "response"}
        /\ DOMAIN shares = {"files", "purged"}
        /\ DOMAIN vault = {"PENDING", "APPROVED", "REJECTED"}
    BY DEF Init, NoDispute
  <1> QED BY <1>1, <1>3, <1>4, <1>5 DEF TypeInv

LEMMA TypesKept == TypeInv /\ [Next]_vars => TypeInv'
  BY BookingKept, TriesKept, RowsKept, CallsKept DEF TypeInv

----------------------------------------------------------------------------
(* Files.  A call that is about to commit holds a file nobody else has; a  *)
(* call that cleans up may hold one that a share or the vault still has.   *)
Kept == Reported \cup dispute.evidence \cup dispute.response

InVault == Live \cup vault["REJECTED"]

Holds(c) == call[c].step \in {"COMMIT", "REMOVE"}

StatusInv ==
  /\ dispute.status = "NONE" => dispute.evidence = {} /\ dispute.response = {}
  /\ dispute.status # "NONE" => booking.status \in {"DISPUTED", "COMPLETED"}
  /\ dispute.status = "RESOLVED" => booking.status = "COMPLETED"
  /\ shares.files # {} => booking.docsSubmitted
  /\ purge # {} => purge = shares.files /\ purge \cap stored = {} /\ booking.closedAt # NoTime

NewFiles ==
  \A c \in Calls :
    /\ call[c].step = "COMMIT" =>
         /\ call[c].file \in stored /\ call[c].file \notin Referred
         /\ \A d \in Calls \ {c} : Holds(d) => call[d].file # call[c].file
    /\ call[c].step = "REMOVE" => call[c].file \notin Kept

OldFiles ==
  /\ Kept \subseteq stored
  /\ Kept \cap (shares.files \cup InVault) = {}
  /\ shares.files \cap InVault = {}

CleanFiles ==
  ~unclean =>
    /\ stored \subseteq Referred \cup InHand
    /\ Live \subseteq stored
    /\ \A c \in Calls : call[c].step = "REMOVE" => call[c].file \notin Referred

LEMMA StatusMoves ==
  ASSUME TypeInv, StatusInv, NEW action \in Actions, NEW party, Permits(action, party, booking, clock),
         booking' = Moved(action), UNCHANGED <<dispute, purge>>,
         action \notin {"openDispute", "resolveDispute"},
         shares'.files # {} => shares.files # {} \/ action = "submitDocs"
  PROVE  StatusInv'
  <1>1. IsRow(booking)
    BY DEF TypeInv
  <1>2. purge = {} /\ dispute.status = "NONE"
    BY <1>1, MovedFacts DEF StatusInv
  <1>3. booking.docsSubmitted \/ action = "submitDocs" => booking'.docsSubmitted
    BY <1>1, MovedFacts
  <1> QED BY <1>2, <1>3 DEF StatusInv

LEMMA StatusCommits ==
  ASSUME TypeInv, StatusInv, NEW c \in Calls, UNCHANGED <<stored, purge>>,
         Confirmed(c) \/ Added(c) \/ Claimed(c) \/ Responded(c) \/ Shared(c) \/ Uploaded(c)
  PROVE  StatusInv'
  <1>1. IsRow(booking)
    BY DEF TypeInv
  <1>2. CASE Confirmed(c)
    BY <1>2, StatusMoves DEF Confirmed, Actions, CodeSteps
  <1>3. CASE Added(c) \/ Uploaded(c)
    BY <1>3 DEF Added, Uploaded, StatusInv
  <1>4. CASE Claimed(c)
    <2>1. /\ booking.closedAt = NoTime
          /\ booking.docsSubmitted => booking'.docsSubmitted
          /\ booking'.status = "DISPUTED"
      BY <1>1, <1>4, MovedFacts DEF Claimed, Actions
    <2>2. dispute'.status = "OPEN" /\ shares' = shares
      BY <1>4 DEF Claimed
    <2> QED BY <2>1, <2>2 DEF StatusInv
  <1>5. CASE Responded(c)
    <2>1. /\ dispute'.status = "OPEN" /\ dispute.status = "OPEN"
          /\ UNCHANGED <<booking, shares>>
      BY <1>5 DEF Responded, Answerable, Unanswered, TypeInv
    <2> QED BY <2>1 DEF StatusInv
  <1>6. CASE Shared(c)
    BY <1>6, StatusMoves DEF Shared, Actions
  <1> QED BY <1>2, <1>3, <1>4, <1>5, <1>6

LEMMA StatusKept == TypeInv /\ StatusInv /\ [Next]_vars => StatusInv'
  <1> SUFFICES ASSUME TypeInv, StatusInv, [Next]_vars PROVE StatusInv'
    OBVIOUS
  <1>1. CASE UNCHANGED <<booking, files>>
    BY <1>1 DEF files, StatusInv
  <1>2. ASSUME NEW c \in Calls, Calling(c), ~ UNCHANGED <<booking, files>> PROVE StatusInv'
    <2>1. CASE Commit(c) \/ AuditFails(c)
      BY <2>1, StatusCommits DEF Commit, AuditFails
    <2>2. CASE \E d \in Live \cup vault["REJECTED"] : DeleteDoc(c, d)
      BY <2>2 DEF DeleteDoc, StatusInv
    <2>3. CASE \E n \in 1..MaxFiles : Store(c, n)
      <3>1. PICK n : Store(c, n)
        BY <2>3
      <3>2. PICK f : f = Named(c, n)
        OBVIOUS
      <3>3. stored' = stored \cup {f} /\ f \notin Referred
        BY <3>1, <3>2 DEF Store, Free
      <3>4. UNCHANGED <<booking, dispute, shares, purge>>
        BY <3>1 DEF Store
      <3> QED BY <3>3, <3>4 DEF StatusInv, Referred
    <2>4. CASE Remove(c)
      BY <2>4 DEF Remove, StatusInv
    <2> QED BY <2>1, <2>2, <2>3, <2>4, <1>2
          DEF Calling, EnterCode, CompareCode, AddPhotos, OpenDispute, Respond, SubmitDocs, UploadDoc,
            StoreFails, CommitRefused, CommitFails, WriteReview, SaveReview
  <1>3. ASSUME NEW s \in Steps, Step(s) PROVE StatusInv'
    <2>1. s[1] \in Actions /\ s[1] \notin {"openDispute", "resolveDispute"}
      BY DEF Steps, Actions
    <2> QED BY <2>1, <1>3, StatusMoves DEF Step, files
  <1>4. ASSUME NEW d, NEW outcome, ReviewDoc(d, outcome) PROVE StatusInv'
    BY <1>4 DEF ReviewDoc, StatusInv
  <1>5. CASE Resolve
    <2>1. /\ booking.closedAt = NoTime
          /\ booking.docsSubmitted => booking'.docsSubmitted
          /\ booking'.status = "COMPLETED"
      BY <1>5, MovedFacts DEF Resolve, Actions, TypeInv
    <2>2. dispute'.status = "RESOLVED" /\ UNCHANGED <<shares, purge, stored>>
      BY <1>5 DEF Resolve, TypeInv
    <2> QED BY <2>1, <2>2 DEF StatusInv
  <1>6. CASE StartPurge
    BY <1>6 DEF StartPurge, PurgeDue, StatusInv
  <1>7. CASE EndPurge
    BY <1>7 DEF EndPurge, StatusInv
  <1>8. CASE Crash
    BY <1>8 DEF Crash, StatusInv
  <1> QED BY <1>1, <1>2, <1>3, <1>4, <1>5, <1>6, <1>7, <1>8
        DEF Next, vars, LockEnds, PublishDue, Tick

(* disputes.service.ts: the borrower's answer to a claim is given once and *)
(* stays as it is, also of two answers that were sent at once, and none is *)
(* taken after the decision.                                               *)
THEOREM AnswerStands == Spec => OneAnswer
  <1> DEFINE Stands == dispute.response # {} \/ dispute.status = "RESOLVED" =>
                         dispute'.response = dispute.response
  <1>1. TypeInv /\ StatusInv /\ [Next]_vars => [Stands]_vars
    <2> SUFFICES ASSUME TypeInv, StatusInv, [Next]_vars PROVE Stands \/ UNCHANGED vars
      OBVIOUS
    <2>1. CASE dispute' = dispute
      BY <2>1
    <2>2. ASSUME NEW c \in Calls, Calling(c), dispute' # dispute PROVE Stands
      <3>1. Commit(c) \/ AuditFails(c)
        BY <2>2 DEF Calling, EnterCode, CompareCode, AddPhotos, OpenDispute, Respond, SubmitDocs,
          UploadDoc, DeleteDoc, Store, StoreFails, CommitRefused, CommitFails, Remove, WriteReview,
          SaveReview, files
      <3>2. Claimed(c) \/ Responded(c)
        BY <3>1, <2>2 DEF Commit, AuditFails, Confirmed, Added, Shared, Uploaded
      <3>3. CASE Claimed(c)
        <4>1. booking.status # "COMPLETED" /\ booking.status # "DISPUTED"
          BY <3>3, MovedFacts DEF Claimed, Actions, TypeInv
        <4> QED BY <4>1 DEF StatusInv
      <3>4. CASE Responded(c)
        BY <3>4 DEF Responded, Answerable, Unanswered
      <3> QED BY <3>2, <3>3, <3>4
    <2>3. CASE Resolve
      BY <2>3 DEF Resolve, TypeInv
    <2> QED BY <2>1, <2>2, <2>3
          DEF Next, vars, files, LockEnds, Step, ReviewDoc, StartPurge, EndPurge, PublishDue, Tick, Crash
  <1>2. Init => TypeInv /\ StatusInv
    BY InitTypes DEF Init, StatusInv, NoDispute
  <1>3. TypeInv /\ StatusInv /\ [Next]_vars => (TypeInv /\ StatusInv)'
    BY TypesKept, StatusKept
  <1> QED BY <1>1, <1>2, <1>3, PTL DEF Spec, OneAnswer

----------------------------------------------------------------------------
(* Steps that touch no file and no call that has one. *)
HoldersStay ==
  \A c \in Calls : Holds(c) \/ call'[c].step \in {"COMMIT", "REMOVE"} => call'[c] = call[c]

RefersTo == <<Kept, Live, InVault, shares.files>>

LEMMA ReferredIs ==
  /\ Referred = Kept \cup shares.files \cup InVault
  /\ Referred' = Kept' \cup shares'.files \cup InVault'
  BY DEF Referred, Kept, InVault

LEMMA InHandIs == \A f : f \in InHand <=> \E c \in Calls : Holds(c) /\ call[c].file = f
  BY DEF InHand, Holds

LEMMA RefersSame ==
  ASSUME UNCHANGED <<report, dispute, vault, shares>>
  PROVE  UNCHANGED RefersTo
  BY DEF RefersTo, Kept, Reported, Live, InVault

FileInv == NewFiles /\ OldFiles /\ CleanFiles

LEMMA FilesRest ==
  ASSUME FileInv, HoldersStay, UNCHANGED <<stored, unclean>>, UNCHANGED RefersTo
  PROVE  FileInv'
  <1>1. UNCHANGED <<Kept, Live, InVault, Referred>>
    BY ReferredIs DEF RefersTo
  <1>2. OldFiles'
    BY <1>1 DEF FileInv, OldFiles, RefersTo
  <1>3. InHand' = InHand
    BY DEF InHand, HoldersStay, Holds
  <1>4. NewFiles'
    BY <1>1 DEF FileInv, NewFiles, HoldersStay, Holds
  <1>5. CleanFiles'
    BY <1>1, <1>3 DEF FileInv, CleanFiles, HoldersStay, Holds
  <1> QED BY <1>2, <1>4, <1>5 DEF FileInv

(* The call c with the file f commits: one place refers to it now.         *)
CommitsTo(f) ==
  \/ Kept' = Kept \cup {f} /\ UNCHANGED <<Live, InVault, shares>>
  \/ shares.files = {} /\ shares'.files = {f} /\ UNCHANGED <<Kept, Live, InVault>>
  \/ Live' = {f} /\ InVault' = InVault \cup {f} /\ UNCHANGED <<Kept, shares>>

LEMMA FilesCommit ==
  ASSUME FileInv, NEW c \in Calls, call[c].step = "COMMIT", NEW row, Becomes(c, row),
         \/ row.step = "IDLE" /\ unclean' = unclean
         \/ row.step = "REMOVE" /\ row.file = call[c].file /\ unclean' = TRUE /\ Kept' = Kept,
         CommitsTo(call[c].file), stored' = stored
  PROVE  FileInv'
  <1>1. PICK f : f = call[c].file
    OBVIOUS
  <1>2. /\ f \in stored /\ f \notin Referred
        /\ \A d \in Calls \ {c} : Holds(d) => call[d].file # f
    BY <1>1 DEF FileInv, NewFiles
  <1>3. Referred' = Referred \cup {f}
    <2>1. CASE Kept' = Kept \cup {f} /\ UNCHANGED <<Live, InVault, shares>>
      BY <2>1, ReferredIs
    <2>2. CASE shares.files = {} /\ shares'.files = {f} /\ UNCHANGED <<Kept, Live, InVault>>
      BY <2>2, ReferredIs
    <2>3. CASE Live' = {f} /\ InVault' = InVault \cup {f} /\ UNCHANGED <<Kept, shares>>
      BY <2>3, ReferredIs
    <2> QED BY <2>1, <2>2, <2>3, <1>1 DEF CommitsTo
  <1>4. \A d \in Calls \ {c} : call'[d] = call[d]
    BY DEF Becomes
  <1>5. call'[c] = row
    BY DEF Becomes
  <1>6. Kept' = Kept \/ Kept' = Kept \cup {f}
    BY <1>1 DEF CommitsTo
  <1>7. NewFiles'
    <2>1. \A d \in Calls \ {c} : call[d].step = "REMOVE" => call[d].file \notin Kept'
      BY <1>2, <1>6 DEF FileInv, NewFiles, Holds
    <2>2. row.step = "REMOVE" => row.file \notin Kept'
      BY <1>1, <1>2, ReferredIs
    <2>3. ASSUME NEW d \in Calls, call'[d].step = "COMMIT"
          PROVE  /\ call'[d].file \in stored' /\ call'[d].file \notin Referred'
                 /\ \A e \in Calls \ {d} : Holds(e)' => call'[e].file # call'[d].file
      <3>1. d # c /\ call'[d] = call[d]
        BY <2>3, <1>4, <1>5
      <3>2. call[d].file # f
        BY <3>1, <2>3, <1>2 DEF Holds
      <3>3. \A e \in Calls \ {d} : Holds(e) => call[e].file # call[d].file
        BY <3>1, <2>3 DEF FileInv, NewFiles
      <3>4. \A e \in Calls \ {d} : Holds(e)' => call'[e].file # call'[d].file
        BY <3>1, <3>2, <3>3, <1>1, <1>4, <1>5 DEF Holds
      <3> QED BY <3>1, <3>2, <3>4, <2>3, <1>3 DEF FileInv, NewFiles
    <2>4. \A d \in Calls : call'[d].step = "REMOVE" => call'[d].file \notin Kept'
      BY <2>1, <2>2, <1>4, <1>5
    <2> QED BY <2>3, <2>4 DEF NewFiles
  <1>8. OldFiles'
    <2>1. Kept \subseteq stored /\ Kept \cap (shares.files \cup InVault) = {}
          /\ shares.files \cap InVault = {}
      BY DEF FileInv, OldFiles
    <2>2. f \notin Kept /\ f \notin shares.files /\ f \notin InVault
      BY <1>2, ReferredIs
    <2> QED BY <2>1, <2>2, <1>1, <1>2 DEF CommitsTo, OldFiles
  <1>9. CleanFiles'
    <2> SUFFICES ASSUME ~unclean' PROVE CleanFiles'
      BY DEF CleanFiles
    <2>0. row.step = "IDLE" /\ ~unclean
      OBVIOUS
    <2>1. /\ stored \subseteq Referred \cup InHand
          /\ Live \subseteq stored
          /\ \A d \in Calls : call[d].step = "REMOVE" => call[d].file \notin Referred
      BY <2>0 DEF FileInv, CleanFiles
    <2>2. Live' \subseteq stored'
      BY <2>1, <1>1, <1>2 DEF CommitsTo
    <2>3. \A g \in InHand : g = f \/ g \in InHand'
      BY <1>1, <1>4, InHandIs DEF InHand, Holds
    <2>4. stored' \subseteq Referred' \cup InHand'
      BY <2>1, <2>3, <1>3
    <2>5. \A d \in Calls : call'[d].step = "REMOVE" => call'[d].file \notin Referred'
      BY <2>0, <2>1, <1>2, <1>3, <1>4, <1>5 DEF Holds
    <2> QED BY <2>2, <2>4, <2>5 DEF CleanFiles
  <1> QED BY <1>7, <1>8, <1>9 DEF FileInv

(* A call that does not get to commit cleans up, or gives up. *)
LEMMA FilesLeft ==
  ASSUME FileInv, NEW c \in Calls, call[c].step = "COMMIT", NEW row, Becomes(c, row),
         \/ row.step = "IDLE" /\ unclean' = TRUE
         \/ row.step = "REMOVE" /\ row.file = call[c].file /\ unclean' = unclean,
         UNCHANGED <<stored, shares>>, UNCHANGED RefersTo
  PROVE  FileInv'
  <1>1. UNCHANGED <<Kept, Live, InVault, Referred>>
    BY ReferredIs DEF RefersTo
  <1>2. PICK f : f = call[c].file
    OBVIOUS
  <1>3. /\ f \in stored /\ f \notin Referred
        /\ \A d \in Calls \ {c} : Holds(d) => call[d].file # f
    BY <1>2 DEF FileInv, NewFiles
  <1>4. call'[c] = row /\ \A d \in Calls \ {c} : call'[d] = call[d]
    BY DEF Becomes
  <1>5. NewFiles'
    <2>1. ASSUME NEW d \in Calls, call'[d].step = "COMMIT"
          PROVE  /\ call'[d].file \in stored' /\ call'[d].file \notin Referred'
                 /\ \A e \in Calls \ {d} : Holds(e)' => call'[e].file # call'[d].file
      <3>1. d # c /\ call'[d] = call[d]
        BY <2>1, <1>4
      <3>2. \A e \in Calls \ {d} : Holds(e) => call[e].file # call[d].file
        BY <3>1, <2>1 DEF FileInv, NewFiles
      <3>3. \A e \in Calls \ {d} : Holds(e)' => call'[e].file # call'[d].file
        BY <3>1, <3>2, <1>2, <1>4 DEF Holds
      <3> QED BY <3>1, <3>3, <2>1, <1>1 DEF FileInv, NewFiles
    <2>2. \A d \in Calls : call'[d].step = "REMOVE" => call'[d].file \notin Kept'
      BY <1>1, <1>2, <1>3, <1>4, ReferredIs DEF FileInv, NewFiles
    <2> QED BY <2>1, <2>2 DEF NewFiles
  <1>6. OldFiles'
    BY <1>1 DEF FileInv, OldFiles
  <1>7. CleanFiles'
    <2> SUFFICES ASSUME ~unclean' PROVE CleanFiles'
      BY DEF CleanFiles
    <2>0. row.step = "REMOVE" /\ row.file = f /\ ~unclean
      BY <1>2
    <2>1. InHand \subseteq InHand'
      BY <2>0, <1>2, <1>4 DEF InHand
    <2>2. \A d \in Calls : call'[d].step = "REMOVE" => call'[d].file \notin Referred'
      BY <2>0, <1>1, <1>3, <1>4 DEF FileInv, CleanFiles
    <2> QED BY <2>0, <2>1, <2>2, <1>1 DEF FileInv, CleanFiles
  <1> QED BY <1>5, <1>6, <1>7 DEF FileInv

LEMMA FilesStore ==
  ASSUME TypeInv, FileInv, NEW c \in Calls, NEW n, Store(c, n)
  PROVE  FileInv'
  <1>1. UNCHANGED <<Kept, Live, InVault, Referred>>
    BY RefersSame, ReferredIs DEF Store, RefersTo
  <1>2. PICK f : f = Named(c, n)
    OBVIOUS
  <1>3. /\ f \notin stored /\ f \notin Referred /\ \A d \in Calls : call[d].file # f
        /\ stored' = stored \cup {f} /\ UNCHANGED <<shares, unclean>>
        /\ call[c].step = "STORE"
    BY <1>2 DEF Store, Free
  <1>4. PICK row : row = [call[c] EXCEPT !.step = "COMMIT", !.file = f]
    OBVIOUS
  <1>5. row.step = "COMMIT" /\ row.file = f
    BY <1>4 DEF TypeInv, IsCall
  <1>6. \A d \in Calls : call'[d] = IF d = c THEN row ELSE call[d]
    BY <1>2, <1>4 DEF Store, TypeInv
  <1>7. NewFiles'
    <2>1. ASSUME NEW d \in Calls, call'[d].step = "COMMIT"
          PROVE  /\ call'[d].file \in stored' /\ call'[d].file \notin Referred'
                 /\ \A e \in Calls \ {d} : Holds(e)' => call'[e].file # call'[d].file
      <3>1. CASE d = c
        BY <3>1, <1>1, <1>3, <1>5, <1>6
      <3>2. CASE d # c
        <4>1. /\ call[d].file \in stored /\ call[d].file \notin Referred
              /\ \A e \in Calls \ {d} : Holds(e) => call[e].file # call[d].file
          BY <3>2, <2>1, <1>6 DEF FileInv, NewFiles
        <4> QED BY <4>1, <3>2, <1>1, <1>3, <1>5, <1>6 DEF Holds
      <3> QED BY <3>1, <3>2
    <2>2. \A d \in Calls : call'[d].step = "REMOVE" => call'[d].file \notin Kept'
      BY <1>1, <1>5, <1>6 DEF FileInv, NewFiles
    <2> QED BY <2>1, <2>2 DEF NewFiles
  <1>8. OldFiles'
    BY <1>1, <1>3 DEF FileInv, OldFiles
  <1>9. CleanFiles'
    <2> SUFFICES ASSUME ~unclean' PROVE CleanFiles'
      BY DEF CleanFiles
    <2>1. ~unclean
      BY <1>3
    <2>2. InHand \subseteq InHand' /\ f \in InHand'
      BY <1>3, <1>5, <1>6 DEF InHand
    <2>3. \A d \in Calls : call'[d].step = "REMOVE" => call'[d].file \notin Referred'
      BY <2>1, <1>1, <1>5, <1>6 DEF FileInv, CleanFiles
    <2> QED BY <2>1, <2>2, <2>3, <1>1, <1>3 DEF FileInv, CleanFiles
  <1> QED BY <1>7, <1>8, <1>9 DEF FileInv

LEMMA FilesRemove ==
  ASSUME TypeInv, FileInv, NEW c \in Calls, Remove(c)
  PROVE  FileInv'
  <1>1. UNCHANGED <<Kept, Live, InVault, Referred>>
    BY RefersSame, ReferredIs DEF Remove, RefersTo
  <1>2. PICK f : f = call[c].file
    OBVIOUS
  <1>3. /\ stored' = stored \ {f} /\ UNCHANGED <<shares, unclean>>
        /\ call[c].step = "REMOVE" /\ f \notin Kept
    BY <1>2 DEF Remove, FileInv, NewFiles
  <1>4. call'[c] = NoCall /\ \A d \in Calls \ {c} : call'[d] = call[d]
    BY CallEnds DEF Becomes, Remove
  <1>5. \A d \in Calls : call'[d].step # "IDLE" => d # c /\ call'[d] = call[d]
    BY <1>4 DEF NoCall
  <1>6. NewFiles'
    <2>1. ASSUME NEW d \in Calls, call'[d].step = "COMMIT"
          PROVE  /\ call'[d].file \in stored' /\ call'[d].file \notin Referred'
                 /\ \A e \in Calls \ {d} : Holds(e)' => call'[e].file # call'[d].file
      <3>1. d # c /\ call'[d] = call[d]
        BY <2>1, <1>5
      <3>2. /\ call[d].file \in stored /\ call[d].file \notin Referred
            /\ \A e \in Calls \ {d} : Holds(e) => call[e].file # call[d].file
        BY <3>1, <2>1 DEF FileInv, NewFiles
      <3>3. f # call[d].file
        BY <3>1, <3>2, <1>2, <1>3 DEF Holds
      <3> QED BY <3>1, <3>2, <3>3, <1>1, <1>3, <1>5 DEF Holds
    <2>2. \A d \in Calls : call'[d].step = "REMOVE" => call'[d].file \notin Kept'
      BY <1>1, <1>5 DEF FileInv, NewFiles
    <2> QED BY <2>1, <2>2 DEF NewFiles
  <1>7. OldFiles'
    BY <1>1, <1>3 DEF FileInv, OldFiles
  <1>8. CleanFiles'
    <2> SUFFICES ASSUME ~unclean PROVE CleanFiles'
      BY <1>3 DEF CleanFiles
    <2>1. f \notin Referred
      BY <1>2, <1>3 DEF FileInv, CleanFiles
    <2>2. \A g \in InHand : g = f \/ g \in InHand'
      BY <1>2, <1>4 DEF InHand
    <2>3. stored' \subseteq Referred' \cup InHand'
      BY <2>2, <1>1, <1>3 DEF FileInv, CleanFiles
    <2>4. Live \subseteq stored /\ Live \subseteq Referred
      BY DEF FileInv, CleanFiles, Referred
    <2>5. \A d \in Calls : call'[d].step = "REMOVE" => call'[d].file \notin Referred'
      BY <1>1, <1>5 DEF FileInv, CleanFiles
    <2> QED BY <2>1, <2>3, <2>4, <2>5, <1>1, <1>3 DEF CleanFiles
  <1> QED BY <1>6, <1>7, <1>8 DEF FileInv

LEMMA FilesDelete ==
  ASSUME TypeInv, FileInv, NEW c \in Calls, NEW d \in Live \cup vault["REJECTED"], DeleteDoc(c, d)
  PROVE  FileInv'
  <1>1. d \in InVault /\ UNCHANGED <<stored, shares, unclean>>
    BY DEF InVault, DeleteDoc
  <1>2. Kept' = Kept
    BY DEF DeleteDoc, Kept, Reported
  <1>3. Live' = Live \ {d} /\ InVault' = InVault \ {d}
    BY DEF DeleteDoc, TypeInv, Live, InVault
  <1>4. d \notin Kept /\ d \notin shares.files
    BY <1>1 DEF FileInv, OldFiles
  <1>5. Referred' = Referred \ {d} /\ d \in Referred
    BY <1>1, <1>2, <1>3, <1>4, ReferredIs
  <1>6. PICK row : row.step = "REMOVE" /\ row.file = d /\ Becomes(c, row)
    <2>1. Becomes(c, [op |-> "deleteDoc", step |-> "REMOVE", by |-> "BORROWER",
                      right |-> FALSE, file |-> d])
      BY CallSet DEF DeleteDoc
    <2> QED BY <2>1
  <1>7. call'[c] = row /\ (\A e \in Calls \ {c} : call'[e] = call[e]) /\ call[c] = NoCall
    BY <1>6 DEF Becomes, DeleteDoc
  <1>8. NewFiles'
    <2>1. ASSUME NEW e \in Calls, call'[e].step = "COMMIT"
          PROVE  /\ call'[e].file \in stored' /\ call'[e].file \notin Referred'
                 /\ \A g \in Calls \ {e} : Holds(g)' => call'[g].file # call'[e].file
      <3>1. e # c /\ call'[e] = call[e]
        BY <2>1, <1>6, <1>7
      <3>2. /\ call[e].file \in stored /\ call[e].file \notin Referred
            /\ \A g \in Calls \ {e} : Holds(g) => call[g].file # call[e].file
        BY <3>1, <2>1 DEF FileInv, NewFiles
      <3> QED BY <3>1, <3>2, <1>1, <1>5, <1>6, <1>7 DEF Holds
    <2>2. \A e \in Calls : call'[e].step = "REMOVE" => call'[e].file \notin Kept'
      BY <1>2, <1>4, <1>6, <1>7 DEF FileInv, NewFiles
    <2> QED BY <2>1, <2>2 DEF NewFiles
  <1>9. OldFiles'
    BY <1>1, <1>2, <1>3 DEF FileInv, OldFiles
  <1>10. CleanFiles'
    <2> SUFFICES ASSUME ~unclean PROVE CleanFiles'
      BY <1>1 DEF CleanFiles
    <2>1. InHand \subseteq InHand'
      BY <1>7 DEF InHand, NoCall
    <2>2. d \in InHand'
      BY <1>6, <1>7 DEF InHand
    <2>3. stored' \subseteq Referred' \cup InHand'
      BY <2>1, <2>2, <1>1, <1>5 DEF FileInv, CleanFiles
    <2>4. \A e \in Calls : call'[e].step = "REMOVE" => call'[e].file \notin Referred'
      BY <1>5, <1>6, <1>7 DEF FileInv, CleanFiles
    <2> QED BY <2>3, <2>4, <1>1, <1>3 DEF FileInv, CleanFiles
  <1> QED BY <1>8, <1>9, <1>10 DEF FileInv

(* A decision on a document only moves it within the vault. *)
LEMMA FilesReview ==
  ASSUME TypeInv, FileInv, NEW d \in vault["PENDING"], NEW outcome \in {"APPROVED", "REJECTED"},
         ReviewDoc(d, outcome)
  PROVE  FileInv'
  <1>1. UNCHANGED <<stored, shares, unclean, call>>
    BY DEF ReviewDoc
  <1>2. Kept' = Kept
    BY DEF ReviewDoc, Kept, Reported
  <1>3. Live' \subseteq Live /\ InVault' = InVault
    BY DEF ReviewDoc, TypeInv, Live, InVault
  <1>4. Referred' = Referred
    BY <1>1, <1>2, <1>3, ReferredIs
  <1>5. InHand' = InHand
    BY <1>1 DEF InHand
  <1>6. NewFiles'
    BY <1>1, <1>2, <1>4 DEF FileInv, NewFiles, Holds
  <1>7. OldFiles'
    BY <1>1, <1>2, <1>3 DEF FileInv, OldFiles
  <1>8. CleanFiles'
    BY <1>1, <1>3, <1>4, <1>5 DEF FileInv, CleanFiles
  <1> QED BY <1>6, <1>7, <1>8 DEF FileInv

(* The purge takes the lender's copies from the bucket, then from the row. *)
LEMMA FilesPurge ==
  ASSUME FileInv, StatusInv, StartPurge \/ EndPurge
  PROVE  FileInv'
  <1>1. UNCHANGED <<call, unclean, report, dispute, vault>>
    BY DEF StartPurge, EndPurge
  <1>2. UNCHANGED <<Kept, Live, InVault, InHand>>
    BY <1>1 DEF Kept, Reported, Live, InVault, InHand
  <1>3. CASE StartPurge
    <2>1. stored' = stored \ shares.files /\ shares' = shares
      BY <1>3 DEF StartPurge
    <2>2. Referred' = Referred /\ shares.files \subseteq Referred
      BY <2>1, <1>2, ReferredIs
    <2>3. NewFiles'
      BY <2>1, <2>2, <1>1, <1>2 DEF FileInv, NewFiles, Holds
    <2>4. OldFiles'
      BY <2>1, <1>2 DEF FileInv, OldFiles
    <2>5. Live \cap shares.files = {}
      BY DEF FileInv, OldFiles, InVault
    <2>6. CleanFiles'
      BY <2>1, <2>2, <2>5, <1>1, <1>2 DEF FileInv, CleanFiles
    <2> QED BY <2>3, <2>4, <2>6 DEF FileInv
  <1>4. CASE EndPurge
    <2>1. stored' = stored /\ shares'.files = {}
      BY <1>4 DEF EndPurge
    <2>2. shares.files \cap stored = {}
      BY <1>4 DEF EndPurge, StatusInv
    <2>3. Referred' \subseteq Referred /\ Referred \subseteq Referred' \cup shares.files
      BY <2>1, <1>2, ReferredIs
    <2>4. NewFiles'
      BY <2>1, <2>3, <1>1, <1>2 DEF FileInv, NewFiles, Holds
    <2>5. OldFiles'
      BY <2>1, <1>2 DEF FileInv, OldFiles
    <2>6. CleanFiles'
      BY <2>1, <2>2, <2>3, <1>1, <1>2 DEF FileInv, CleanFiles
    <2> QED BY <2>4, <2>5, <2>6 DEF FileInv
  <1> QED BY <1>3, <1>4

LEMMA FilesCrash == ASSUME FileInv, Crash PROVE FileInv'
  <1>1. UNCHANGED <<Kept, Live, InVault, Referred, stored, shares>>
    BY RefersSame, ReferredIs DEF Crash, RefersTo
  <1>2. unclean' /\ \A c \in Calls : call'[c].step = "IDLE"
    BY DEF Crash, NoCall
  <1> QED BY <1>1, <1>2 DEF FileInv, NewFiles, OldFiles, CleanFiles

(* Which place a transaction makes refer to the file of its call. *)
LEMMA SavedTo ==
  ASSUME TypeInv, NEW c \in Calls, call[c].step = "COMMIT", report' = SavedPhotos(c),
         UNCHANGED <<dispute, vault, shares>>
  PROVE  CommitsTo(call[c].file)
  <1>1. <<Stage(call[c].op), call[c].by>> \in DOMAIN report
    BY DEF TypeInv, IsCall, Stage, Parties
  <1>2. PICK at \in DOMAIN report : report' = [report EXCEPT ![at] = @ \cup {call[c].file}]
    BY <1>1 DEF SavedPhotos
  <1>3. Reported' = Reported \cup {call[c].file}
    BY <1>2 DEF Reported
  <1>4. UNCHANGED <<Live, InVault>>
    BY DEF Live, InVault
  <1> QED BY <1>3, <1>4 DEF CommitsTo, Kept

LEMMA CommitRefers ==
  ASSUME TypeInv, StatusInv, NEW c \in Calls, call[c].step = "COMMIT",
         \/ Confirmed(c) \/ Added(c) \/ Claimed(c) \/ Responded(c) \/ Shared(c) \/ Uploaded(c)
  PROVE  CommitsTo(call[c].file)
  <1>1. CASE Confirmed(c) \/ Added(c)
    BY <1>1, SavedTo DEF Confirmed, Added
  <1>2. CASE Claimed(c)
    <2>1. dispute.evidence = {} /\ dispute.response = {}
      BY <1>2, MovedFacts DEF Claimed, StatusInv, TypeInv, Actions
    <2>2. Kept' = Kept \cup {call[c].file} /\ UNCHANGED <<Live, InVault, shares>>
      BY <1>2, <2>1 DEF Claimed, Kept, Reported, Live, InVault
    <2> QED BY <2>2 DEF CommitsTo
  <1>3. CASE Responded(c)
    <2>1. Kept' = Kept \cup {call[c].file} /\ UNCHANGED <<Live, InVault, shares>>
      BY <1>3 DEF Responded, Answerable, Unanswered, Kept, Reported, Live, InVault, TypeInv
    <2> QED BY <2>1 DEF CommitsTo
  <1>4. CASE Shared(c)
    <2>1. shares.files = {}
      BY <1>4, MovedFacts DEF Shared, StatusInv, TypeInv, Actions
    <2>2. UNCHANGED <<Kept, Live, InVault>>
      BY <1>4 DEF Shared, Kept, Reported, Live, InVault
    <2> QED BY <1>4, <2>1, <2>2 DEF CommitsTo, Shared
  <1>5. CASE Uploaded(c)
    <2>1. PICK f : f = call[c].file
      OBVIOUS
    <2>2. Live' = {f} /\ InVault' = InVault \cup {f}
      BY <1>5, <2>1 DEF Uploaded, Live, InVault, TypeInv
    <2>3. UNCHANGED <<Kept, shares>>
      BY <1>5 DEF Uploaded, Kept, Reported
    <2> QED BY <2>1, <2>2, <2>3 DEF CommitsTo
  <1> QED BY <1>1, <1>2, <1>3, <1>4, <1>5

(* The steps of a call that has no file yet, or has none any more. *)
LEMMA FilesBefore ==
  ASSUME TypeInv, FileInv, NEW c \in Calls, ~Holds(c), NEW row, Becomes(c, row),
         row.step \notin {"COMMIT", "REMOVE"}, UNCHANGED <<stored, unclean>>,
         UNCHANGED <<report, dispute, vault, shares>>
  PROVE  FileInv'
  <1>1. HoldersStay
    BY DEF HoldersStay, Becomes, Holds
  <1> QED BY <1>1, RefersSame, FilesRest

LEMMA FilesCalling ==
  ASSUME TypeInv, StatusInv, FileInv, NEW c \in Calls, Calling(c)
  PROVE  FileInv'
  <1> DEFINE Same == UNCHANGED <<stored, unclean>> /\ UNCHANGED <<report, dispute, vault, shares>>
  <1>1. ASSUME NEW op, NEW by, NEW step, NEW right, step \notin {"COMMIT", "REMOVE"},
               Begin(c, op, by, step, right), Same
        PROVE  FileInv'
    <2>1. /\ Becomes(c, [op |-> op, step |-> step, by |-> by, right |-> right, file |-> NoFile])
          /\ ~Holds(c)
      BY <1>1, CallBegins DEF NoCall, Holds
    <2> QED BY <2>1, <1>1, FilesBefore
  <1>2. ASSUME Ends(c), ~Holds(c), Same PROVE FileInv'
    <2>1. Becomes(c, NoCall) /\ NoCall.step \notin {"COMMIT", "REMOVE"}
      BY <1>2, CallEnds DEF NoCall
    <2> QED BY <2>1, <1>2, FilesBefore
  <1>3. CASE \E op \in CodeSteps, by \in Parties, right \in BOOLEAN : EnterCode(c, op, by, right)
    BY <1>3, <1>1 DEF EnterCode, files
  <1>4. CASE CompareCode(c)
    <2>1. ~Holds(c) /\ Same /\ (Goes(c, "STORE") \/ Ends(c))
      BY <1>4 DEF CompareCode, files, Holds
    <2>2. ASSUME Goes(c, "STORE") PROVE FileInv'
      <3>1. Becomes(c, Advanced(c, "STORE")) /\ Advanced(c, "STORE").step = "STORE"
        BY <2>2, CallGoes, AdvancedFields
      <3> QED BY <3>1, <2>1, FilesBefore
    <2> QED BY <2>1, <2>2, <1>2
  <1>5. CASE \/ \E op \in {"moreHandover", "moreReturn"}, by \in Parties : AddPhotos(c, op, by)
             \/ OpenDispute(c) \/ Respond(c) \/ UploadDoc(c)
             \/ \E p \in Parties : WriteReview(c, p)
    <2>1. ASSUME NEW op \in {"moreHandover", "moreReturn"}, NEW by \in Parties, AddPhotos(c, op, by)
          PROVE  FileInv'
      <3>1. Begin(c, op, by, "STORE", FALSE) /\ Same
        BY <2>1 DEF AddPhotos, files
      <3> QED BY <3>1, <1>1
    <2>2. ASSUME OpenDispute(c) \/ Respond(c) \/ UploadDoc(c) PROVE FileInv'
      <3>1. (\E op, by : Begin(c, op, by, "STORE", FALSE)) /\ Same
        BY <2>2 DEF OpenDispute, Respond, UploadDoc, files
      <3> QED BY <3>1, <1>1
    <2>3. ASSUME NEW p \in Parties, WriteReview(c, p) PROVE FileInv'
      <3>1. (\E right : Begin(c, "review", p, "WRITE", right)) /\ Same
        BY <2>3 DEF WriteReview, files
      <3> QED BY <3>1, <1>1
    <2> QED BY <1>5, <2>1, <2>2, <2>3
  <1>6. CASE \E d \in Live : SubmitDocs(c, d)
    <2>1. PICK d : SubmitDocs(c, d)
      BY <1>6
    <2>2. /\ Becomes(c, [op |-> "submitDocs", step |-> "STORE", by |-> "BORROWER",
                         right |-> FALSE, file |-> d])
          /\ Same /\ ~Holds(c)
      <3>1. call[c] = NoCall /\ Same
        BY <2>1 DEF SubmitDocs, files
      <3>2. ~Holds(c)
        BY <3>1 DEF NoCall, Holds
      <3>3. call' = [call EXCEPT ![c] = [op |-> "submitDocs", step |-> "STORE", by |-> "BORROWER",
                                         right |-> FALSE, file |-> d]]
        BY <2>1 DEF SubmitDocs
      <3> QED BY <3>1, <3>2, <3>3, CallSet
    <2> QED BY <2>2, FilesBefore
  <1>7. CASE StoreFails(c) \/ SaveReview(c)
    BY <1>7, <1>2 DEF StoreFails, SaveReview, files, Holds
  <1>8. CASE \E d \in Live \cup vault["REJECTED"] : DeleteDoc(c, d)
    BY <1>8, FilesDelete
  <1>9. CASE \E n \in 1..MaxFiles : Store(c, n)
    BY <1>9, FilesStore
  <1>10. CASE Remove(c)
    BY <1>10, FilesRemove
  <1>11. CASE Commit(c)
    <2>1. CommitsTo(call[c].file) /\ call[c].step = "COMMIT" /\ UNCHANGED <<stored, unclean>>
      BY <1>11, CommitRefers DEF Commit
    <2>2. Becomes(c, NoCall) /\ NoCall.step = "IDLE"
      BY <1>11, CallEnds DEF Commit, NoCall
    <2> QED BY <2>1, <2>2, FilesCommit
  <1>12. CASE AuditFails(c)
    <2>1. CommitsTo(call[c].file) /\ call[c].step = "COMMIT" /\ stored' = stored /\ unclean' = TRUE
      BY <1>12, CommitRefers DEF AuditFails
    <2>2. Kept' = Kept
      BY <1>12 DEF AuditFails, Uploaded, Kept, Reported
    <2>3. PICK row : row = Advanced(c, "REMOVE")
      OBVIOUS
    <2>4. Becomes(c, row) /\ row.step = "REMOVE" /\ row.file = call[c].file
      BY <1>12, <2>3, CallGoes, AdvancedFields DEF AuditFails, CleansUp
    <2> QED BY <2>1, <2>2, <2>4, FilesCommit
  <1>13. CASE CommitRefused(c) \/ CommitFails(c)
    <2>1. /\ call[c].step = "COMMIT" /\ UNCHANGED <<report, dispute, vault, shares>>
          /\ stored' = stored
      BY <1>13 DEF CommitRefused, CommitFails, files
    <2>2. UNCHANGED RefersTo
      BY <2>1, RefersSame
    <2>3. (Ends(c) /\ unclean' = TRUE) \/ (Goes(c, "REMOVE") /\ unclean' = unclean)
      BY <1>13 DEF CommitRefused, CommitFails, CleansUp
    <2>4. ASSUME Ends(c), unclean' = TRUE PROVE FileInv'
      <3>1. Becomes(c, NoCall) /\ NoCall.step = "IDLE"
        BY <2>4, CallEnds DEF NoCall
      <3> QED BY <3>1, <2>1, <2>2, <2>4, FilesLeft
    <2>5. ASSUME Goes(c, "REMOVE"), unclean' = unclean PROVE FileInv'
      <3>1. PICK row : row = Advanced(c, "REMOVE")
        OBVIOUS
      <3>2. Becomes(c, row) /\ row.step = "REMOVE" /\ row.file = call[c].file
        BY <2>5, <3>1, CallGoes, AdvancedFields
      <3> QED BY <3>2, <2>1, <2>2, <2>5, FilesLeft
    <2> QED BY <2>3, <2>4, <2>5
  <1> QED BY <1>3, <1>4, <1>5, <1>6, <1>7, <1>8, <1>9, <1>10, <1>11, <1>12, <1>13 DEF Calling

LEMMA FilesKept == TypeInv /\ StatusInv /\ FileInv /\ [Next]_vars => FileInv'
  <1> SUFFICES ASSUME TypeInv, StatusInv, FileInv, [Next]_vars PROVE FileInv'
    OBVIOUS
  <1>1. CASE UNCHANGED <<call, stored, report, dispute, vault, shares, unclean>>
    <2>1. HoldersStay
      BY <1>1 DEF HoldersStay
    <2> QED BY <2>1, <1>1, RefersSame, FilesRest
  <1>2. CASE \E c \in Calls : Calling(c)
    BY <1>2, FilesCalling
  <1>3. CASE \E d \in vault["PENDING"], outcome \in {"APPROVED", "REJECTED"} : ReviewDoc(d, outcome)
    BY <1>3, FilesReview
  <1>4. CASE Resolve
    <2>1. HoldersStay /\ UNCHANGED <<stored, unclean>>
      BY <1>4 DEF Resolve, HoldersStay
    <2>2. UNCHANGED RefersTo
      BY <1>4 DEF Resolve, RefersTo, Kept, Reported, Live, InVault, TypeInv
    <2> QED BY <2>1, <2>2, FilesRest
  <1>5. CASE StartPurge \/ EndPurge
    BY <1>5, FilesPurge
  <1>6. CASE Crash
    BY <1>6, FilesCrash
  <1> QED BY <1>1, <1>2, <1>3, <1>4, <1>5, <1>6
        DEF Next, vars, files, LockEnds, Step, PublishDue, Tick

LEMMA InitFiles == Init => StatusInv /\ FileInv
  <1> SUFFICES ASSUME Init PROVE StatusInv /\ FileInv
    OBVIOUS
  <1>1. StatusInv
    BY DEF Init, StatusInv, NoDispute
  <1>2. \A c \in Calls : call[c].step = "IDLE"
    BY DEF Init, NoCall
  <1>3. Kept = FirstPhotos
    <2>1. dispute.evidence = {} /\ dispute.response = {}
      BY DEF Init, NoDispute
    <2>2. Reported = FirstPhotos
      <3> DEFINE first == <<"HANDOVER", "LENDER">>
      <3>1. DOMAIN report = {"HANDOVER", "RETURN"} \X Parties /\ first \in DOMAIN report
        BY DEF Init, Parties
      <3>2. \A at \in DOMAIN report : report[at] = IF at = first THEN FirstPhotos ELSE {}
        BY DEF Init
      <3> QED BY <3>1, <3>2 DEF Reported
    <2> QED BY <2>1, <2>2 DEF Kept
  <1>4. Live = FirstDocs /\ InVault = FirstDocs
    BY DEF Init, Live, InVault
  <1>5. stored = FirstPhotos \cup FirstDocs /\ shares.files = {}
    BY DEF Init
  <1>6. FirstPhotos \cap FirstDocs = {}
    BY DEF FirstPhotos, FirstDocs
  <1>7. NewFiles
    BY <1>2 DEF NewFiles
  <1>8. OldFiles
    BY <1>3, <1>4, <1>5, <1>6 DEF OldFiles
  <1>9. CleanFiles
    BY <1>2, <1>3, <1>4, <1>5, ReferredIs DEF CleanFiles
  <1> QED BY <1>1, <1>7, <1>8, <1>9 DEF FileInv

(* rental-photos.ts, documents.service.ts, booking-documents.service.ts:   *)
(* what a condition report, a claim or its answer refers to is in the      *)
(* bucket at all times, whatever the calls, the purge, the failures and    *)
(* the crashes; and while nothing has crashed or failed to clean up, the   *)
(* bucket has no file that no row refers to and no call still holds.       *)
THEOREM BucketAndRowsAgree == Spec => []BucketMatchesRows
  <1>1. Init => TypeInv /\ StatusInv /\ FileInv
    BY InitTypes, InitFiles
  <1>2. TypeInv /\ StatusInv /\ FileInv /\ [Next]_vars => (TypeInv /\ StatusInv /\ FileInv)'
    BY TypesKept, StatusKept, FilesKept
  <1>3. FileInv => BucketMatchesRows
    BY DEF FileInv, OldFiles, CleanFiles, Kept, BucketMatchesRows
  <1> QED BY <1>1, <1>2, <1>3, PTL DEF Spec

=============================================================================

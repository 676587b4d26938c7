------------------------------ MODULE Listings ------------------------------
(***************************************************************************)
(* The listings of one lender (listings/listings.service.ts): draft,       *)
(* review by an admin, photos, pause, removal.  The first listing is       *)
(* reviewed; once one is approved, the others go live at once, and a       *)
(* listing that goes live queues a job for the saved searches.             *)
(*                                                                         *)
(* A request reads the listing and writes later (edit); changes of the     *)
(* status are guarded by the status in the row, except those of update()   *)
(* and delete().                                                           *)
(***************************************************************************)
EXTENDS Naturals, FiniteSets

CONSTANTS
  Listings,  \* bound: listings of the lender
  Photos,    \* bound: photos, each with a key of its own
  Edits,     \* bound: requests in progress at once
  Jobs,      \* job ids of the discovery queue: those of listings, and others
  Searches,  \* saved searches (Discovery)
  Desks      \* bounds: [creates: listings made; drafts, rejected, live: those that are,
             \* with a photo, from the start; adds: photos added; edits: requests at once;
             \* searches: of Searches; crashes]

DeskRows ==
  [creates : SUBSET Listings, drafts : SUBSET Listings, rejected : SUBSET Listings,
   live : SUBSET Listings, adds : SUBSET Photos, edits : Nat,
   searches : SUBSET Searches, crashes : Nat]

ASSUME ListingsAssumption ==
  /\ Listings \subseteq Jobs
  /\ Listings \cap Photos = {}
  /\ Desks \subseteq DeskRows

VARIABLES
  desk,     \* the bounds of this behaviour: what is left of adds and crashes
  listing,  \* the rows: [status, approved: approvedAt is set, photos]
  files,    \* the photos in the public bucket
  edit,     \* request -> [step, listing, photos: those it adds or has read]
  jobs      \* job id -> its state in the queue

listingVars == <<desk, listing, files, edit, jobs>>

Statuses == {"NONE", "DRAFT", "PENDING", "LIVE", "PAUSED", "REJECTED", "REMOVED", "DELETED"}

Editable == {"DRAFT", "PENDING", "LIVE", "PAUSED", "REJECTED"}

Published == {"LIVE", "PAUSED", "PENDING"}

NoListing == [status |-> "NONE", approved |-> FALSE, photos |-> {}]

NoEdit == [step |-> "IDLE", listing |-> "", photos |-> {}]

Starts(e, l, step, photos) ==
  /\ edit[e] = NoEdit
  /\ Cardinality({f \in Edits : edit[f] # NoEdit}) < desk.edits       \* bound
  /\ edit' = [edit EXCEPT ![e] = [step |-> step, listing |-> l, photos |-> photos]]

Goes(e, step) == edit' = [edit EXCEPT ![e].step = step]

Ends(e) == edit' = [edit EXCEPT ![e] = NoEdit]

At(e, step) == edit[e].step = step

SetStatus(l, status) == listing' = [listing EXCEPT ![l].status = status]

(* transition(): the status is written only if it is still one of `from`. *)
Guarded(l, from, status) == listing[l].status \in from /\ SetStatus(l, status)

----------------------------------------------------------------------------
(* update(): a rejected listing becomes a draft again, by what was read    *)
(* before.  An edit in another status changes nothing that matters here.   *)
StartUpdate(e, l) ==
  /\ listing[l].status = "REJECTED"
  /\ Starts(e, l, "UPDATE", {})
  /\ UNCHANGED <<desk, listing, files, jobs>>

Update(e) ==
  /\ At(e, "UPDATE")
  /\ SetStatus(edit[e].listing, "DRAFT")
  /\ Ends(e)
  /\ UNCHANGED <<desk, files, jobs>>

----------------------------------------------------------------------------
(* publish(): the draft and its photos, ... *)
StartPublish(e, l) ==
  /\ listing[l].status = "DRAFT" /\ listing[l].photos # {}
  /\ Starts(e, l, "COUNT", {})
  /\ UNCHANGED <<desk, listing, files, jobs>>

Trusted == \E l \in Listings : listing[l].approved

(* ... whether the lender has an approved listing, ... *)
CountApproved(e) ==
  /\ At(e, "COUNT")
  /\ Goes(e, IF Trusted THEN "LIVE" ELSE "PENDING")
  /\ UNCHANGED <<desk, listing, files, jobs>>

(* ... and the guarded write, which fails if another request was faster.   *)
Publish(e) ==
  LET l == edit[e].listing
  IN  /\ edit[e].step \in {"LIVE", "PENDING"}
      /\ IF listing[l].status = "DRAFT"
         THEN /\ SetStatus(l, edit[e].step)
              /\ IF At(e, "LIVE") THEN Goes(e, "QUEUE") ELSE Ends(e)
         ELSE Ends(e) /\ UNCHANGED listing
      /\ UNCHANGED <<desk, files, jobs>>

QueuedAgain(j) == "WAITING"  \* mutant: the job id is not the listing's

(* A job whose id the queue knows is not added again. *)
Queued(j) == IF jobs[j] = "NONE" THEN "WAITING" ELSE jobs[j]

(* listingLive(): it never throws, whether Redis takes the job or not. *)
ListingLive(e) ==
  LET l == edit[e].listing
  IN  /\ At(e, "QUEUE")
      /\ jobs' \in {jobs, [jobs EXCEPT ![l] = Queued(l)]}
      /\ Ends(e)
      /\ UNCHANGED <<desk, listing, files>>

Pause(l) == Guarded(l, {"LIVE"}, "PAUSED") /\ UNCHANGED <<desk, files, edit, jobs>>

FromAny == Editable          \* mutant: whatever is not live can be resumed

Resumable == {"PAUSED"}

Unpause(l) == Guarded(l, Resumable, "LIVE") /\ UNCHANGED <<desk, files, edit, jobs>>

----------------------------------------------------------------------------
(* An admin's review. *)
Approve(e, l) ==
  /\ listing[l].status = "PENDING"
  /\ listing' = [listing EXCEPT ![l].status = "LIVE", ![l].approved = TRUE]
  /\ Starts(e, l, "QUEUE", {})
  /\ UNCHANGED <<desk, files, jobs>>

Reject(l) == Guarded(l, {"PENDING"}, "REJECTED") /\ UNCHANGED <<desk, files, edit, jobs>>

Unpublish(l) ==
  Guarded(l, {"PENDING", "LIVE", "PAUSED"}, "REMOVED") /\ UNCHANGED <<desk, files, edit, jobs>>

----------------------------------------------------------------------------
(* addPhoto(): the check, the file (and its thumbnail), then the row. *)
MayAdd(l, p) ==
  /\ listing[l].status \in Editable
  /\ p \in desk.adds                                            \* bound: a new key
  /\ desk' = [desk EXCEPT !.adds = @ \ {p}]

RowFirst(e, l, p) ==          \* mutant: the row before the file
  /\ MayAdd(l, p)
  /\ Starts(e, l, "PUT", {p})
  /\ listing' = [listing EXCEPT ![l].photos = @ \cup {p}]
  /\ UNCHANGED <<files, jobs>>

StartAdd(e, l, p) ==
  /\ MayAdd(l, p)
  /\ Starts(e, l, "PUT", {p})
  /\ UNCHANGED <<listing, files, jobs>>

Put(e) ==
  /\ At(e, "PUT")
  /\ files' = files \cup edit[e].photos
  /\ Goes(e, "ROW")
  /\ UNCHANGED <<desk, listing, jobs>>

AddRow(e) ==
  /\ At(e, "ROW")
  /\ listing' = [listing EXCEPT ![edit[e].listing].photos = @ \cup edit[e].photos]
  /\ Ends(e)
  /\ UNCHANGED <<desk, files, jobs>>

(* deletePhoto(): the last photo of a published listing stays, by what was *)
(* read; the row goes before its file.                                     *)
StartDeletePhoto(e, l, p) ==
  /\ listing[l].status \in Editable
  /\ p \in listing[l].photos
  /\ listing[l].photos = {p} => listing[l].status \notin Published
  /\ Starts(e, l, "UNROW", {p})
  /\ UNCHANGED <<desk, listing, files, jobs>>

DeleteRow(e) ==
  LET l == edit[e].listing
  IN  /\ At(e, "UNROW")
      /\ IF edit[e].photos \subseteq listing[l].photos
         THEN /\ listing' = [listing EXCEPT ![l].photos = @ \ edit[e].photos]
              /\ Goes(e, "FILES")
         ELSE Ends(e) /\ UNCHANGED listing
      /\ UNCHANGED <<desk, files, jobs>>

DeleteFiles(e) ==
  /\ At(e, "FILES")
  /\ files' = files \ edit[e].photos
  /\ Ends(e)
  /\ UNCHANGED <<desk, listing, jobs>>

(* delete(), which no booking in progress allows (Bookings), and           *)
(* removeListing(), also for each listing of a person who leaves: the      *)
(* photos are read, then all rows go, then the files that were read.       *)
StartDelete(e, l) ==
  /\ listing[l].status \notin {"NONE", "DELETED"}
  /\ Starts(e, l, "DELETE", listing[l].photos)
  /\ UNCHANGED <<desk, listing, files, jobs>>

Removed(l) == [listing[l] EXCEPT !.status = "DELETED", !.photos = {}]

Delete(e) ==
  LET l == edit[e].listing
  IN  /\ At(e, "DELETE")
      /\ listing' = [listing EXCEPT ![l] = Removed(l)]
      /\ Goes(e, "FILES")
      /\ UNCHANGED <<desk, files, jobs>>

----------------------------------------------------------------------------
(* A request that has begun may also fail, or its process stop.            *)
RequestStops(e) ==
  /\ edit[e] # NoEdit
  /\ desk.crashes > 0                                                  \* bound
  /\ desk' = [desk EXCEPT !.crashes = @ - 1]
  /\ Ends(e)
  /\ UNCHANGED <<listing, files, jobs>>

Create(l) ==
  /\ listing[l].status = "NONE" /\ l \in desk.creates
  /\ SetStatus(l, "DRAFT")
  /\ UNCHANGED <<desk, files, edit, jobs>>

(* The photo that a listing has from the start is called as the listing.   *)
FirstRow(l) ==
  IF l \in desk.live THEN [status |-> "LIVE", approved |-> TRUE, photos |-> {l}]
  ELSE IF l \in desk.drafts THEN [status |-> "DRAFT", approved |-> FALSE, photos |-> {l}]
  ELSE IF l \in desk.rejected THEN [status |-> "REJECTED", approved |-> FALSE, photos |-> {l}]
  ELSE NoListing

ListingsInit ==
  /\ desk \in Desks
  /\ listing = [l \in Listings |-> FirstRow(l)]
  /\ files = desk.drafts \cup desk.rejected \cup desk.live
  /\ edit = [e \in Edits |-> NoEdit]
  /\ jobs = [j \in Jobs |-> "NONE"]

Lender(l) ==
  \/ Create(l) \/ Pause(l) \/ Unpause(l)
  \/ \E e \in Edits : StartUpdate(e, l) \/ StartPublish(e, l) \/ StartDelete(e, l)
  \/ \E e \in Edits, p \in Photos : StartAdd(e, l, p)
  \/ \E e \in Edits, p \in Photos \cup {l} : StartDeletePhoto(e, l, p)

Admin(l) == Reject(l) \/ Unpublish(l) \/ \E e \in Edits : Approve(e, l)

GoesOn(e) ==
  \/ Update(e) \/ CountApproved(e) \/ Publish(e) \/ ListingLive(e)
  \/ Put(e) \/ AddRow(e) \/ DeleteRow(e) \/ DeleteFiles(e) \/ Delete(e)
  \/ RequestStops(e)

(* Bound: a desk without requests is at rest. *)
ListingsNext ==
  \/ desk.edits > 0 /\ \E l \in Listings : Lender(l) \/ Admin(l)
  \/ \E e \in Edits : GoesOn(e)

----------------------------------------------------------------------------
(* A photo that a page refers to can be loaded, whatever was added and     *)
(* deleted at once or stopped half-way.                                    *)
PhotosCanBeLoaded == \A l \in Listings : listing[l].photos \subseteq files

(* Nothing of a lender is on show before an admin has approved something   *)
(* of theirs, however edits, reviews and publications overlap.             *)
FirstIsReviewed == (\E l \in Listings : listing[l].status \in {"LIVE", "PAUSED"}) => Trusted

=============================================================================

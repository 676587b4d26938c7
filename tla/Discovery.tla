----------------------------- MODULE Discovery -----------------------------
(***************************************************************************)
(* The worker of the discovery queue (discovery/), composed with the       *)
(* listings of the lender (Listings) and with the chat and the request     *)
(* they may answer (Requests).  A listing that went live alerts the saved  *)
(* searches it matches; a request that was posted tells the lender, if     *)
(* they have something live nearby.  There is one worker, which takes one  *)
(* job at a time.  All this takes less than the six hours in which a       *)
(* search is pushed once.                                                  *)
(***************************************************************************)
EXTENDS Requests, Listings

CONSTANTS
  Item,      \* the listing the lender may offer for the request
  Asked,     \* the job id `notify-<request>`
  OwnerOf,   \* search -> the person who saved it
  Together   \* bounds: the talks and desks that one behaviour has together

ASSUME DiscoveryAssumption ==
  /\ Item \in Listings /\ Asked \in Jobs \ Listings
  /\ "lender" \notin {OwnerOf[s] : s \in Searches}

VARIABLES
  worker,      \* [job, step, left: who is still to be told and why, recent: as read, now]
  lastPushed,  \* the searches whose last_pushed_at is within six hours
  notices,     \* <<job, person>> -> notifications of it
  pushes,      \* search -> pushes for it
  restarts     \* how often the worker stopped with a job

workerVars == <<worker, lastPushed, notices, pushes, restarts>>

People == {OwnerOf[s] : s \in Searches} \cup {"lender"}

(* Who is told, for which of their searches ("" for none), and pushed.     *)
Nobody == [who |-> "", search |-> "", push |-> FALSE]

Idle == [job |-> "", step |-> "IDLE", left |-> {}, recent |-> {}, now |-> Nobody]

Works(step) == worker' = [worker EXCEPT !.step = step]

----------------------------------------------------------------------------
(* `matched` has the first of a person's searches that matches. *)
OnePerPerson(matched) == \A s, t \in matched : OwnerOf[s] = OwnerOf[t] => s = t

Takes(j, left) ==
  /\ worker = Idle /\ jobs[j] = "WAITING"
  /\ jobs' = [jobs EXCEPT ![j] = "ACTIVE"]
  /\ worker' = [job |-> j, step |-> "NEXT", left |-> left, recent |-> lastPushed,
                now |-> Nobody]

(* matchListing(): only a live listing matches, and any search may. *)
MatchListing(l) ==
  /\ \E matched \in SUBSET desk.searches :
       /\ OnePerPerson(matched)
       /\ listing[l].status # "LIVE" => matched = {}
       /\ Takes(l, {[who |-> OwnerOf[s], search |-> s] : s \in matched})
  /\ UNCHANGED <<desk, listing, files, edit, lastPushed, notices, pushes, restarts>>

(* notifyNearby(): lenders with something live, none of whom is blocked. *)
NotifyNearby ==
  /\ \E near \in BOOLEAN :
       /\ near => IsOpen /\ ~blocked /\ \E l \in Listings : listing[l].status = "LIVE"
       /\ Takes(Asked, IF near THEN {[who |-> "lender", search |-> ""]} ELSE {})
  /\ UNCHANGED <<desk, listing, files, edit, lastPushed, notices, pushes, restarts>>

(* The next person.  mayPush(): not if the search was pushed as far as the *)
(* job has read, nor beyond the person's limit for the day; a lender       *)
(* beyond theirs is not told at all.                                       *)
TellNext ==
  /\ worker.step = "NEXT"
  /\ \E m \in worker.left, within \in BOOLEAN :
       LET push == within /\ m.search \notin worker.recent
       IN  worker' = [worker EXCEPT
             !.left = @ \ {m},
             !.now = [who |-> m.who, search |-> m.search, push |-> push],
             !.step = IF m.search = "" THEN (IF within THEN "NOTICE" ELSE "NEXT")
                      ELSE IF push THEN "MARK" ELSE "NOTICE"]
  /\ UNCHANGED <<listingVars, lastPushed, notices, pushes, restarts>>

Mark ==
  /\ worker.step = "MARK"
  /\ lastPushed' = lastPushed \cup {worker.now.search}
  /\ Works("NOTICE")
  /\ UNCHANGED <<listingVars, notices, pushes, restarts>>

(* notify(): the row, and then the push if the person is away and wants it. *)
Notice ==
  /\ worker.step = "NOTICE"
  /\ notices' = [notices EXCEPT ![<<worker.job, worker.now.who>>] = @ + 1]
  /\ Works(IF worker.now.push THEN "PUSH" ELSE "NEXT")
  /\ UNCHANGED <<listingVars, lastPushed, pushes, restarts>>

Push ==
  /\ worker.step = "PUSH"
  /\ \E away \in BOOLEAN :
       pushes' = IF away /\ worker.now.search # ""
                 THEN [pushes EXCEPT ![worker.now.search] = @ + 1] ELSE pushes
  /\ Works("NEXT")
  /\ UNCHANGED <<listingVars, lastPushed, notices, restarts>>

Completed ==
  /\ worker.step = "NEXT" /\ worker.left = {}
  /\ jobs' = [jobs EXCEPT ![worker.job] = "DONE"]
  /\ worker' = Idle
  /\ UNCHANGED <<desk, listing, files, edit, lastPushed, notices, pushes, restarts>>

Worker ==
  \/ \E l \in Listings : MatchListing(l)
  \/ NotifyNearby \/ TellNext \/ Mark \/ Notice \/ Push \/ Completed

(* The worker, a process of its own, stops: the queue gives the job that   *)
(* was running to the next one, from its beginning.                        *)
WorkerStops ==
  /\ worker # Idle
  /\ desk.crashes > 0                                                  \* bound
  /\ desk' = [desk EXCEPT !.crashes = @ - 1]
  /\ restarts' = restarts + 1
  /\ jobs' = [jobs EXCEPT ![worker.job] = "WAITING"]
  /\ worker' = Idle
  /\ UNCHANGED <<listing, files, edit, lastPushed, notices, pushes>>

----------------------------------------------------------------------------
(* The lender offers the item only while it is live. *)
RespondWith(c) ==
  /\ listing[Item].status = "LIVE"
  /\ Respond(c)

DiscoveryInit ==
  /\ Init /\ ListingsInit
  /\ <<talk, desk>> \in Together
  /\ blocked => talk.asks \/ talk.notes # {}                    \* bound: or it is silent
  /\ worker = Idle /\ lastPushed = {}
  /\ notices = [n \in Jobs \X People |-> 0]
  /\ pushes = [s \in Searches |-> 0]
  /\ restarts = 0

(* create() of a request queues its job, or fails to. *)
RequestPosted ==
  /\ talk.asks /\ desk.edits > 0                                  \* bound: or the desk rests
  /\ jobs[Asked] = "NONE"
  /\ jobs' = [jobs EXCEPT ![Asked] = Queued(Asked)]
  /\ UNCHANGED <<desk, listing, files, edit, workerVars>>

Talking ==
  \/ ChatNext /\ UNCHANGED requestVars
  \/ Board /\ UNCHANGED chatVars
  \/ \E c \in Calls : RespondWith(c) \/ OpenForLender(c) \/ Record(c) \/ Notify(c)

DiscoveryNext ==
  \/ Talking /\ UNCHANGED <<listingVars, workerVars>>
  \/ ListingsNext /\ UNCHANGED <<vars, workerVars>>
  \/ (Worker \/ WorkerStops \/ RequestPosted) /\ UNCHANGED vars

DiscoverySpec == DiscoveryInit /\ [][DiscoveryNext]_<<vars, listingVars, workerVars>>

----------------------------------------------------------------------------
(* Nobody is told twice of a listing or a request, however often it went   *)
(* live and however many of their searches match, unless the worker had to *)
(* start over; and even then a search is pushed once in its six hours.     *)
ToldOnce ==
  /\ restarts = 0 => \A n \in Jobs \X People : notices[n] <= 1
  /\ \A s \in Searches : pushes[s] <= 1

=============================================================================

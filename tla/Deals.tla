------------------------------- MODULE Deals -------------------------------
(***************************************************************************)
(* Offers made in the chats about one listing, and the bookings they       *)
(* become (offers.service.ts, createFromOffer of bookings.service.ts).     *)
(* There is one chat per borrower; one side proposes and the other answers *)
(* (which of the two it is makes no difference here).  Every call reads    *)
(* first and writes later: what it has read may have changed by then, and  *)
(* a request to book from the listing's page (Bookings) may race an        *)
(* acceptance.                                                             *)
(***************************************************************************)
EXTENDS Bookings

CONSTANTS
  Offers,         \* offer ids (the bound on the offers ever made)
  NoOffer,
  Scenes          \* bounds: [people, chats, ranges, offers] that one behaviour may use

ASSUME DealsAssumption ==
  /\ NoOffer \notin Offers
  /\ Scenes \subseteq [people : SUBSET Borrowers, chats : SUBSET Borrowers,
                        ranges : SUBSET Ranges, offers : Nat]

VARIABLES
  scene,          \* the bounds of this behaviour
  offer,          \* the offers table: id -> row; over once its time has passed
  answering,      \* call -> what it has read: the offer it answers, or its proposal
  madeFrom        \* booking -> its offer_id

dealVars == <<scene, offer, answering, madeFrom>>

NotMade == [status |-> "NONE", chat |-> None, range |-> <<0, 0>>, over |-> FALSE]

NotAnswering == [step |-> "NONE"]

InChat(u, status) == {o \in Offers : offer[o].chat = u /\ offer[o].status = status}

Pending(o) == offer[o].status = "PENDING" /\ ~offer[o].over       \* effectiveStatus

Idling(c) == asking[c] = NotAsking /\ answering[c] = NotAnswering

Reads(c, call) ==
  /\ Idling(c)
  /\ answering' = [answering EXCEPT ![c] = call]

Done(c) == answering' = [answering EXCEPT ![c] = NotAnswering]

----------------------------------------------------------------------------
(* propose: every offer it has read as open is answered by the new one.    *)
Propose(c, u, r) ==
  /\ Reads(c, [step |-> "PROPOSE", chat |-> u, range |-> r, open |-> InChat(u, "PENDING")])
  /\ r[1] >= Today
  /\ \A i \in HeldRows : ~Overlap([startsOn |-> r[1], endsOn |-> r[2]], booking[i])
  /\ UNCHANGED <<vars, scene, offer, madeFrom>>

OnePending(u, rows) ==
  \A p, q \in Offers :
    rows[p].chat = u /\ rows[q].chat = u /\ rows[p].status = "PENDING"
      /\ rows[q].status = "PENDING" => p = q

Proposed(o, call) ==
  [p \in Offers |->
     IF p = o THEN [status |-> "PENDING", chat |-> call.chat, range |-> call.range, over |-> FALSE]
     ELSE IF p \in call.open
       THEN [offer[p] EXCEPT !.status = IF offer[p].over THEN "EXPIRED" ELSE "COUNTERED"]
     ELSE offer[p]]

MakeOffer(c, o) ==
  /\ answering[c].step = "PROPOSE"
  /\ offer[o] = NotMade
  /\ Cardinality({p \in Offers : offer[p] # NotMade}) < scene.offers
  /\ offer' = Proposed(o, answering[c])
  /\ OnePending(answering[c].chat, offer')
  /\ Done(c)
  /\ UNCHANGED <<vars, scene, madeFrom>>

(* respondable: an offer that is over is marked so, in a call of its own. *)
DeclineOffer(c, o) ==
  /\ Reads(c, [step |-> "ANSWER", offer |-> o,
               status |-> IF offer[o].over THEN "EXPIRED" ELSE "DECLINED"])
  /\ offer[o].status = "PENDING"
  /\ UNCHANGED <<vars, scene, offer, madeFrom>>

(* The update is by id: it does not ask whether the offer is still open. *)
WriteAnswer(c) ==
  /\ answering[c].step = "ANSWER"
  /\ offer' = [offer EXCEPT ![answering[c].offer].status = answering[c].status]
  /\ Done(c)
  /\ UNCHANGED <<vars, scene, madeFrom>>

(* accept, up to its transaction: the listing's days and the borrower's    *)
(* bookings are checked as for a request.                                  *)
AcceptOffer(c, o) ==
  /\ Pending(o)
  /\ Reads(c, [step |-> "ACCEPT", offer |-> o])
  /\ AskFrom("OFFER", c, offer[o].chat, offer[o].range)
  /\ UNCHANGED <<scene, offer, madeFrom>>

UsedAgain(o) == TRUE              \* mutant: no index bookings_offer_id_key

Unused(o) == \A i \in Ids : madeFrom[i] # o

(* One agreed deal per chat: the earlier one is superseded. *)
KeepsEarlier(o) ==                \* mutant: the earlier deal is left accepted
  [offer EXCEPT ![o].status = "ACCEPTED"]

Agreed(o) ==
  [p \in Offers |->
     IF p = o THEN [offer[p] EXCEPT !.status = "ACCEPTED"]
     ELSE IF p \in InChat(offer[o].chat, "ACCEPTED")
       THEN [offer[p] EXCEPT !.status = "SUPERSEDED"]
     ELSE offer[p]]

MakeDeal(c, i) ==
  LET o == answering[c].offer
  IN  /\ answering[c].step = "ACCEPT"
      /\ Unused(o)
      /\ Insert(c, i)
      /\ madeFrom' = [madeFrom EXCEPT ![i] = o]
      /\ offer' = Agreed(o)
      /\ Done(c)
      /\ UNCHANGED scene

FailDeal(c) ==
  /\ answering[c].step = "ACCEPT"
  /\ GiveUp(c)
  /\ Done(c)
  /\ UNCHANGED <<scene, offer, madeFrom>>

(* The offer's two days are over, or its first day has begun. *)
OfferEnds(o) ==
  /\ offer[o] # NotMade /\ ~offer[o].over
  /\ offer' = [offer EXCEPT ![o].over = TRUE]
  /\ UNCHANGED <<vars, scene, answering, madeFrom>>

----------------------------------------------------------------------------
DealsInit ==
  /\ Init
  /\ scene \in Scenes
  /\ offer = [o \in Offers |-> NotMade]
  /\ answering = [c \in Calls |-> NotAnswering]
  /\ madeFrom = [i \in Ids |-> NoOffer]

RequestToBook(c, u, r) ==
  /\ Idling(c)
  /\ AskFrom("REQUEST", c, u, r)
  /\ UNCHANGED dealVars

Requesting(c) ==
  /\ answering[c] = NotAnswering
  /\ GiveUp(c) \/ \E i \in Ids : Insert(c, i)
  /\ UNCHANGED dealVars

BookingGoesOn ==
  /\ (\E i \in Ids : People(i)) \/ SetRequiredDocs
  /\ UNCHANGED dealVars

DealsNext ==
  \/ \E c \in Calls, r \in scene.ranges :
       \/ \E u \in scene.people : RequestToBook(c, u, r)
       \/ \E u \in scene.chats : Propose(c, u, r)
  \/ \E c \in Calls, o \in Offers : MakeOffer(c, o) \/ DeclineOffer(c, o) \/ AcceptOffer(c, o)
  \/ \E c \in Calls, i \in Ids : MakeDeal(c, i)
  \/ \E c \in Calls : WriteAnswer(c) \/ FailDeal(c) \/ Requesting(c)
  \/ \E o \in Offers : OfferEnds(o)
  \/ BookingGoesOn

DealsSpec == DealsInit /\ [][DealsNext]_<<vars, dealVars>>

----------------------------------------------------------------------------
(* An offer becomes a booking once: a second answer that read it as open   *)
(* makes none, even after the first booking has been closed.               *)
OneBookingPerOffer ==
  \A i, j \in Ids : madeFrom[i] # NoOffer /\ madeFrom[i] = madeFrom[j] => i = j

(* The chat never shows a deal without its booking, and shows one deal at  *)
(* most (accept: "One agreed deal per chat").                              *)
DealsAreBooked ==
  \A o \in Offers : offer[o].status = "ACCEPTED" =>
    /\ \E i \in Ids : madeFrom[i] = o /\ booking[i].borrower = offer[o].chat
    /\ InChat(offer[o].chat, "ACCEPTED") = {o}

=============================================================================

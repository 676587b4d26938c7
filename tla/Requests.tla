------------------------------ MODULE Requests ------------------------------
(***************************************************************************)
(* The conversation with the request board (requests.service.ts): the      *)
(* person on the app asked for an item, and the lender in the browser      *)
(* answers with one of their listings, which posts a message in the chat   *)
(* about it, records the answer and tells the borrower.                    *)
(***************************************************************************)
EXTENDS Chat

CONSTANT Offered   \* the clientId `request-<id>-<listing>` of the answer's message

ASSUME RequestsAssumption == Offered \notin Texts \cup Replies

VARIABLES
  request,       \* [status: "NONE" if nothing was asked, due: its time is over]
  closing,       \* close() has read the request as OPEN
  recorded,      \* the row of request_responses
  told           \* the borrower has been notified of it

requestVars == <<request, closing, recorded, told>>

vars == <<talk, stored, preview, paid, blocked, send, waits, events, phone, room, breaks,
          request, closing, recorded, told>>

IsOpen == request.status = "OPEN" /\ ~request.due

(* respond(): its checks ... *)
Respond(c) ==
  /\ IsOpen /\ ~recorded
  /\ StartSend(c, Offered, "OPEN_CHAT")
  /\ UNCHANGED <<talk, stored, preview, paid, blocked, waits, events, phone, room, breaks,
                 requestVars>>

(* ... openForLender(), and sendText(), which masks, stores and tells ...  *)
OpenForLender(c) ==
  /\ send[c].step = "OPEN_CHAT"
  /\ send' = [send EXCEPT ![c] =
       IF blocked THEN NoSend ELSE [@ EXCEPT !.step = "STORE", !.plain = paid.now]]
  /\ UNCHANGED <<talk, stored, preview, paid, blocked, waits, events, phone, room, breaks,
                 requestVars>>

Unsent(c) == send[c].step \in {"STORE", "DONE"}  \* mutant: recorded before it is sent

Sent(c) == send[c].step = "DONE"

(* ... the row, which a double tap may have made already ... *)
Record(c) ==
  /\ send[c].note = Offered /\ Sent(c)
  /\ recorded' = TRUE
  /\ Step(c, "NOTIFY")
  /\ UNCHANGED <<talk, stored, preview, paid, blocked, waits, events, phone, room, breaks,
                 request, closing, told>>

(* ... and the notification. *)
Notify(c) ==
  /\ send[c].step = "NOTIFY"
  /\ told' = TRUE
  /\ send' = [send EXCEPT ![c] = NoSend]
  /\ UNCHANGED <<talk, stored, preview, paid, blocked, waits, events, phone, room, breaks,
                 request, closing, recorded>>

----------------------------------------------------------------------------
(* close() reads the request, and then writes without looking again. *)
StartClose ==
  /\ request.status = "OPEN" /\ ~closing
  /\ closing' = TRUE
  /\ UNCHANGED <<request, recorded, told>>

EndClose ==
  /\ closing
  /\ closing' = FALSE
  /\ request' = [request EXCEPT !.status = "CLOSED"]
  /\ UNCHANGED <<recorded, told>>

AdminRemove ==
  /\ request.status \notin {"NONE", "REMOVED"}
  /\ request' = [request EXCEPT !.status = "REMOVED"]
  /\ UNCHANGED <<closing, recorded, told>>

TimeIsOver ==
  /\ request.status # "NONE" /\ ~request.due
  /\ request' = [request EXCEPT !.due = TRUE]
  /\ UNCHANGED <<closing, recorded, told>>

(* expireDue(), hourly *)
ExpireDue ==
  /\ request.status = "OPEN" /\ request.due
  /\ request' = [request EXCEPT !.status = "EXPIRED"]
  /\ UNCHANGED <<closing, recorded, told>>

Board == StartClose \/ EndClose \/ AdminRemove \/ TimeIsOver \/ ExpireDue

----------------------------------------------------------------------------
Init ==
  /\ ChatInit
  /\ request = [status |-> IF talk.asks THEN "OPEN" ELSE "NONE", due |-> FALSE]
  /\ closing = FALSE /\ recorded = FALSE /\ told = FALSE

Next ==
  \/ ChatNext /\ UNCHANGED requestVars
  \/ Board /\ UNCHANGED chatVars
  \/ \E c \in Calls : Respond(c) \/ OpenForLender(c) \/ Record(c) \/ Notify(c)

Spec == Init /\ [][Next]_vars

----------------------------------------------------------------------------
(* An answer the board counts has its message in the chat, and a borrower  *)
(* who is told of one finds both, whatever restarted or raced in between.  *)
AnswersAreInChat ==
  /\ recorded => Has(Offered)
  /\ told => recorded

=============================================================================

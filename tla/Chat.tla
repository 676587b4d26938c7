-------------------------------- MODULE Chat --------------------------------
(***************************************************************************)
(* One conversation (messages.service.ts) between somebody on the app, who *)
(* writes the Texts (chat_controller.dart: a message shows at once, is     *)
(* retried with the same clientId, and is merged with the events of the    *)
(* socket), and somebody in the browser, who writes the Replies            *)
(* (chat-room.tsx: the newest page is polled).  Every body has a phone     *)
(* number in it, which is masked until a booking of the chat is paid for.  *)
(* Messages are numbered in the order they are stored; one page holds them *)
(* all.                                                                    *)
(***************************************************************************)
EXTENDS Integers, SequencesExt

CONSTANTS
  Texts, Replies,  \* the clientIds of what each of the two writes
  Calls,           \* bound: sends in progress at once
  Talks            \* bounds: [notes: written at most, breaks: times the app leaves the
                   \* chat or the API restarts, pays: whether a booking may be paid,
                   \* asks: whether the lender answers a request (Requests)]

None == "none"

ASSUME ChatAssumption ==
  /\ Texts \cap Replies = {} /\ None \notin Texts \cup Replies
  /\ Talks \subseteq [notes : SUBSET (Texts \cup Replies), breaks : Nat,
                       pays : BOOLEAN, asks : BOOLEAN]

VARIABLES
  talk,          \* the bounds of this behaviour
  stored,        \* the rows: [note, plain: maskedBody shows it all, read]
  preview,       \* the note of conversations.last_message_preview
  paid,          \* [now, ever]: a booking of this chat is in PAID_STATUSES
  blocked,       \* one of the two has blocked the other (bound: from the start)
  send,          \* call -> [step, note, plain]
  waits,         \* the calls the app still waits for
  events,        \* on their way to the app's socket
  phone,         \* [step, page: an answer on its way, list: newest first, pending]
  room,          \* [page: what it shows, last: marked last, mark: on its way]
  breaks         \* how often that was

chatVars == <<talk, stored, preview, paid, blocked, send, waits, events, phone, room, breaks>>

Notes == Texts \cup Replies

NoSend == [step |-> "IDLE", note |-> None, plain |-> FALSE]

Has(n) == \E i \in DOMAIN stored : stored[i].note = n

Number(n) == CHOOSE i \in DOMAIN stored : stored[i].note = n

AsTyped(r) == [note |-> r.note, plain |-> TRUE, read |-> r.read]  \* mutant: not masked

(* What the other one is sent of row r (chat-presenter: message()). *)
Presented(r) == [note |-> r.note, plain |-> r.plain \/ paid.now, read |-> r.read]

Page == [i \in DOMAIN stored |-> Presented(stored[i])]

Step(c, step) == send' = [send EXCEPT ![c].step = step]

----------------------------------------------------------------------------
(* The API.                                                                *)

StartSend(c, n, step) ==
  /\ send[c] = NoSend
  /\ send' = [send EXCEPT ![c] = [step |-> step, note |-> n, plain |-> FALSE]]

(* The call ends, and what nobody waits for is forgotten, unless the send  *)
(* is part of another flow.                                                *)
Answer(c, step) ==
  send' = IF c \in waits \/ send[c].note \notin Notes
          THEN [send EXCEPT ![c].step = step] ELSE [send EXCEPT ![c] = NoSend]

(* send() looks for the clientId, then for blocks and a paid booking; what *)
(* it finds may have changed by the time it stores the message.            *)
LookUp(c) ==
  /\ send[c].step = "SEND"
  /\ IF Has(send[c].note) THEN Answer(c, "DONE")
     ELSE IF blocked THEN Answer(c, "REFUSED")
     ELSE send' = [send EXCEPT ![c].step = "STORE", ![c].plain = paid.now]
  /\ UNCHANGED <<talk, stored, preview, paid, blocked, waits, events, phone, room, breaks>>

(* create(): the unique clientId gives back the row of a send that raced. *)
Store(c) ==
  /\ send[c].step = "STORE"
  /\ stored' = IF Has(send[c].note) THEN stored
               ELSE Append(stored, [note |-> send[c].note, plain |-> send[c].plain,
                                    read |-> FALSE])
  /\ Step(c, "TELL")
  /\ UNCHANGED <<talk, preview, paid, blocked, waits, events, phone, room, breaks>>

New(row) == [kind |-> "NEW", row |-> row]

ReadUpTo(n) == [kind |-> "READ", row |-> [note |-> n, plain |-> FALSE, read |-> TRUE]]

(* touch() and broadcast(), with the row as create() returned it: unread. *)
Tell(c) ==
  /\ send[c].step = "TELL"
  /\ preview' = send[c].note
  /\ events' = events \cup
       {New([Presented(stored[Number(send[c].note)]) EXCEPT !.read = FALSE])}
  /\ Answer(c, "DONE")
  /\ UNCHANGED <<talk, stored, paid, blocked, waits, phone, room, breaks>>

WholeChat(i) == TRUE          \* mutant: upTo is ignored

UpToReadMark(i) == i <= Number(room.mark)

(* markRead(): everything up to the message the reader names. *)
MarkRead ==
  LET marked == {i \in DOMAIN stored :
                   /\ stored[i].note \in Texts
                   /\ ~stored[i].read
                   /\ UpToReadMark(i)}
  IN  /\ room.mark # None
      /\ stored' = [i \in DOMAIN stored |->
                      [stored[i] EXCEPT !.read = @ \/ i \in marked]]
      /\ events' = IF marked = {} THEN events ELSE events \cup {ReadUpTo(room.mark)}
      /\ room' = [room EXCEPT !.mark = None]
      /\ UNCHANGED <<talk, preview, paid, blocked, send, waits, phone, breaks>>

(* A booking of the chat is paid for, or a paid one is called off. *)
BookingPaid ==
  /\ talk.pays /\ ~paid.ever
  /\ paid' = [now |-> TRUE, ever |-> TRUE]
  /\ UNCHANGED <<talk, stored, preview, blocked, send, waits, events, phone, room, breaks>>

BookingCancelled ==
  /\ paid.now
  /\ paid' = [paid EXCEPT !.now = FALSE]
  /\ UNCHANGED <<talk, stored, preview, blocked, send, waits, events, phone, room, breaks>>

----------------------------------------------------------------------------
(* The app.                                                                *)

Entry(row, state) == [note |-> row.note, plain |-> row.plain, read |-> row.read,
                      id |-> state = "SENT", state |-> state]

Local(n) == Entry([note |-> n, plain |-> TRUE, read |-> FALSE], "SENDING")

SameId(entry, n) == entry.id /\ entry.note = n   \* mutant: clientId not compared

(* _upsert: a message of one's own is the entry with its clientId, whether *)
(* or not that has an id yet; another's has only the id.                   *)
SameMessage(entry, n) == entry.note = n

Upsert(list, row) ==
  LET i == SelectInSeq(list, LAMBDA e : SameMessage(e, row.note))
      m == Entry(row, "SENT")
  IN  IF i = 0 THEN <<m>> \o list ELSE [list EXCEPT ![i] = m]

(* _setSendState *)
SetState(list, n, state) ==
  [i \in DOMAIN list |-> IF list[i].note = n THEN [list[i] EXCEPT !.state = state] ELSE list[i]]

Open == phone.step = "OPEN"

(* sendText: at the top of the list at once, and on its way. *)
Write(t, c) ==
  /\ Open
  /\ t \in talk.notes /\ ~Has(t)
  /\ \A d \in Calls : send[d].note # t
  /\ \A i \in DOMAIN phone.list : phone.list[i].note # t
  /\ phone' = [phone EXCEPT !.list = <<Local(t)>> \o @, !.pending = @ \cup {t}]
  /\ StartSend(c, t, "SEND")
  /\ waits' = waits \cup {c}
  /\ UNCHANGED <<talk, stored, preview, paid, blocked, events, room, breaks>>

(* retry: the same clientId again. *)
Retry(t, c) ==
  /\ Open /\ t \in phone.pending
  /\ \E i \in DOMAIN phone.list : phone.list[i].note = t /\ phone.list[i].state = "FAILED"
  /\ phone' = [phone EXCEPT !.list = SetState(@, t, "SENDING")]
  /\ StartSend(c, t, "SEND")
  /\ waits' = waits \cup {c}
  /\ UNCHANGED <<talk, stored, preview, paid, blocked, events, room, breaks>>

(* _deliver's answer ... *)
Delivered(c) ==
  LET t == send[c].note
  IN  /\ c \in waits /\ send[c].step = "DONE"
      /\ \E read \in {FALSE, stored[Number(t)].read} :
           phone' = [phone EXCEPT
             !.list = Upsert(@, [note |-> t, plain |-> TRUE, read |-> read]),
             !.pending = @ \ {t}]
      /\ waits' = waits \ {c}
      /\ send' = [send EXCEPT ![c] = NoSend]
      /\ UNCHANGED <<talk, stored, preview, paid, blocked, events, room, breaks>>

(* ... or its catch: a refusal, or an answer that does not come while the  *)
(* call goes on.                                                           *)
NotDelivered(c) ==
  /\ c \in waits
  /\ phone' = [phone EXCEPT !.list = SetState(@, send[c].note, "FAILED")]
  /\ waits' = waits \ {c}
  /\ send' = IF send[c].step \in {"REFUSED", "DONE"} THEN [send EXCEPT ![c] = NoSend] ELSE send
  /\ UNCHANGED <<talk, stored, preview, paid, blocked, events, room, breaks>>

(* A read receipt skips the messages that have no id yet. *)
Receipted(list, n) ==
  [i \in DOMAIN list |->
    IF list[i].note \in Texts /\ list[i].id /\ Number(list[i].note) <= Number(n)
    THEN [list[i] EXCEPT !.read = TRUE] ELSE list[i]]

(* _onEvent: ignored until the chat has loaded. *)
Hear(e) ==
  LET merged == IF e.kind = "NEW" THEN Upsert(phone.list, e.row)
                ELSE Receipted(phone.list, e.row.note)
  IN  /\ e \in events
      /\ events' = events \ {e}
      /\ phone' = IF Open THEN [phone EXCEPT !.list = merged] ELSE phone
      /\ UNCHANGED <<talk, stored, preview, paid, blocked, send, waits, room, breaks>>

(* The socket is down: what was on its way is gone. *)
SocketDrops ==
  /\ events # {}
  /\ events' = {}
  /\ UNCHANGED <<talk, stored, preview, paid, blocked, send, waits, phone, room, breaks>>

(* build(): listens, asks for the newest page and shows it when it comes.  *)
OpenChat ==
  /\ phone.step = "CLOSED"
  /\ phone' = [phone EXCEPT !.step = "LOADING", !.page = Page]
  /\ UNCHANGED <<talk, stored, preview, paid, blocked, send, waits, events, room, breaks>>

Loaded ==
  /\ phone.step = "LOADING"
  /\ phone' = [phone EXCEPT !.step = "OPEN", !.page = <<>>,
               !.list = Reverse([i \in DOMAIN phone.page |-> Entry(phone.page[i], "SENT")])]
  /\ UNCHANGED <<talk, stored, preview, paid, blocked, send, waits, events, room, breaks>>

Merged(list, page) ==
  LET upTo[i \in 0..Len(page)] ==
        IF i = 0 THEN list ELSE Upsert(upTo[i - 1], page[i])
  IN  upTo[Len(page)]

(* _refreshLatest, after an offer is answered: merged, oldest first. *)
RefreshLatest ==
  /\ Open
  /\ phone' = [phone EXCEPT !.list = Merged(@, Page)]
  /\ UNCHANGED <<talk, stored, preview, paid, blocked, send, waits, events, room, breaks>>

(* The screen closes: the controller goes with what it had not sent.       *)
CloseChat ==
  /\ Open /\ breaks < talk.breaks
  /\ phone' = [step |-> "CLOSED", page |-> <<>>, list |-> <<>>, pending |-> {}]
  /\ waits' = {}
  /\ send' = [c \in Calls |-> IF send[c].step = "DONE" THEN NoSend ELSE send[c]]
  /\ breaks' = breaks + 1
  /\ UNCHANGED <<talk, stored, preview, paid, blocked, events, room>>

----------------------------------------------------------------------------
(* The browser.                                                            *)

InRoom == {room.page[i].note : i \in DOMAIN room.page}

(* refresh(), every POLL_MS: what latestMessagesAction read is shown when   *)
(* it comes (the server actions of a tab run one at a time; one that fails *)
(* changes nothing), and its newest message marked if it is not one's own  *)
(* and this tab has not marked it yet.                                     *)
Poll ==
  LET newest == Last(stored).note
  IN  /\ stored # <<>>
      /\ room' = [room EXCEPT
           !.page = [i \in DOMAIN stored |->
                      [note |-> stored[i].note, plain |-> Presented(stored[i]).plain]],
           !.last = IF newest \in Texts THEN newest ELSE @,
           !.mark = IF newest \in Texts /\ newest # room.last THEN newest ELSE @]
      /\ UNCHANGED <<talk, stored, preview, paid, blocked, send, waits, events, phone, breaks>>

(* markReadAction swallows its errors; the message is not marked again. *)
MarkFails ==
  /\ room.mark # None
  /\ room' = [room EXCEPT !.mark = None]
  /\ UNCHANGED <<talk, stored, preview, paid, blocked, send, waits, events, phone, breaks>>

(* send: a new clientId each time, so that nothing is sent again. *)
Reply(r, c) ==
  /\ r \in talk.notes /\ ~Has(r)
  /\ \A d \in Calls : send[d].note # r
  /\ StartSend(c, r, "SEND")
  /\ UNCHANGED <<talk, stored, preview, paid, blocked, waits, events, phone, room, breaks>>

----------------------------------------------------------------------------
(* The API restarts: its calls end, and the app's fail. *)
Crash ==
  /\ breaks < talk.breaks
  /\ \E c \in Calls : send[c] # NoSend
  /\ breaks' = breaks + 1
  /\ send' = [c \in Calls |-> NoSend]
  /\ waits' = {}
  /\ phone' = [phone EXCEPT !.list = [i \in DOMAIN @ |->
       IF @[i].state = "SENDING" THEN [@[i] EXCEPT !.state = "FAILED"] ELSE @[i]]]
  /\ UNCHANGED <<talk, stored, preview, paid, blocked, events, room>>

ChatInit ==
  /\ talk \in Talks
  /\ stored = <<>> /\ preview = None
  /\ paid = [now |-> FALSE, ever |-> FALSE]
  /\ blocked \in BOOLEAN
  /\ send = [c \in Calls |-> NoSend]
  /\ waits = {} /\ events = {}
  /\ phone = [step |-> "OPEN", page |-> <<>>, list |-> <<>>, pending |-> {}]
  /\ room = [page |-> <<>>, last |-> None, mark |-> None]
  /\ breaks = 0

Sending(c) == LookUp(c) \/ Store(c) \/ Tell(c)

OnTheApp ==
  \/ \E c \in Calls, t \in Texts : Write(t, c) \/ Retry(t, c)
  \/ \E c \in Calls : Delivered(c) \/ NotDelivered(c)
  \/ \E e \in events : Hear(e)
  \/ SocketDrops
  \/ OpenChat \/ Loaded \/ RefreshLatest \/ CloseChat

InTheRoom ==
  \/ Poll \/ MarkRead \/ MarkFails
  \/ \E c \in Calls, r \in Replies : Reply(r, c)

ChatNext ==
  \/ \E c \in Calls : Sending(c)
  \/ OnTheApp
  \/ InTheRoom
  \/ BookingPaid \/ BookingCancelled
  \/ Crash

----------------------------------------------------------------------------
(* A message is stored once and shows once, whatever was retried, answered *)
(* late, told twice or loaded again.                                       *)
OnceEach ==
  /\ \A i, j \in DOMAIN stored : stored[i].note = stored[j].note => i = j
  /\ \A i, j \in DOMAIN phone.list : phone.list[i].note = phone.list[j].note => i = j

(* The tick "read" on the app means that the other one's browser showed    *)
(* the message: nothing stored between the poll and the mark counts.       *)
ReadMeansSeen ==
  \A i \in DOMAIN phone.list : phone.list[i].read => phone.list[i].note \in InRoom

(* What the other one wrote shows unmasked only once a booking was paid.   *)
MaskedUntilPaid ==
  \/ paid.ever
  \/ /\ \A i \in DOMAIN room.page : room.page[i].note \in Texts => ~room.page[i].plain
     /\ \A i \in DOMAIN phone.list : phone.list[i].note \notin Texts => ~phone.list[i].plain

=============================================================================

-------------------------- MODULE DiscoveryProofs --------------------------
(***************************************************************************)
(* Proofs about Discovery, which composes the chat, the request, the       *)
(* listings and the worker, for any numbers of them; one inductive         *)
(* invariant for each part:                                                *)
(*   ChatInv      what is stored, shown and paid for only grows, and what  *)
(*                the app was sent, is sent or shows says no more than     *)
(*                these bear out (GoodRows, GoodEntries);                  *)
(*   ListingsInv  who decides by which count, and who holds which key;     *)
(*   WorkerInv    who was told of a job, while it runs and afterwards.     *)
(***************************************************************************)
EXTENDS Discovery, SumsAndLists

AllNotes == Notes \cup {Offered}

Rows == [note : AllNotes, plain : BOOLEAN, read : BOOLEAN]

Entries == [note : AllNotes, plain : BOOLEAN, read : BOOLEAN, id : BOOLEAN,
            state : {"SENDING", "SENT", "FAILED"}]

SendSteps == {"IDLE", "OPEN_CHAT", "SEND", "STORE", "TELL", "DONE", "REFUSED", "NOTIFY"}

Sends == [step : SendSteps, note : AllNotes \cup {None}, plain : BOOLEAN]

(* Which messages are stored, which the browser has shown.  What the app   *)
(* is sent and what it shows may only say what these two bear out.         *)
InStore == {stored[i].note : i \in DOMAIN stored}

GoodRows ==
  {r \in Rows : /\ r.note \in InStore
                /\ r.read => r.note \in InRoom
                /\ r.plain => paid.ever}

GoodEntries ==
  {m \in Entries : /\ m.id => m.note \in InStore
                   /\ m.read => m.note \in InRoom
                   /\ m.plain => paid.ever \/ m.note \in Texts}

NewEvents == [kind : {"NEW"}, row : GoodRows]

ReadEvents == [kind : {"READ"}, row : {r \in Rows : r.note \in InRoom}]

Unique(s) == \A i, j \in DOMAIN s : s[i].note = s[j].note => i = j

IsList(s) == s \in Seq(Entries) /\ Unique(s)

(* stored *)
StoreInv ==
  /\ stored \in Seq(Rows) /\ Unique(stored)
  /\ \A i \in DOMAIN stored : (stored[i].read => stored[i].note \in InRoom)
                           /\ (stored[i].plain => paid.ever)
  /\ paid \in [now : BOOLEAN, ever : BOOLEAN] /\ (paid.now => paid.ever)

(* room *)
RoomInv ==
  /\ room.page \in Seq([note : AllNotes, plain : BOOLEAN])
  /\ DOMAIN room = {"page", "last", "mark"}
  /\ \A i \in DOMAIN room.page :
       /\ i \in DOMAIN stored /\ room.page[i].note = stored[i].note
       /\ room.page[i].plain => paid.ever
  /\ room.mark # None => room.mark \in InRoom

(* send, waits, and what an answer to the request leads to *)
SendInv ==
  /\ send \in [Calls -> Sends]
  /\ waits \subseteq Calls
  /\ \A c \in waits : send[c].note \in Texts
  /\ \A c \in Calls :
       /\ send[c].step # "IDLE" => send[c].note \in AllNotes
       /\ send[c].step \in {"TELL", "DONE", "NOTIFY"} => send[c].note \in InStore
       /\ send[c].step \in {"OPEN_CHAT", "NOTIFY"} => send[c].note = Offered
       /\ send[c].step = "NOTIFY" => recorded
       /\ send[c].plain => paid.ever
  /\ recorded => Offered \in InStore
  /\ told => recorded

(* events, phone *)
PhoneInv ==
  /\ events \subseteq NewEvents \cup ReadEvents
  /\ DOMAIN phone = {"step", "page", "list", "pending"}
  /\ phone.pending \subseteq Texts
  /\ phone.page \in Seq(Rows) /\ Unique(phone.page) /\ ToSet(phone.page) \subseteq GoodRows
  /\ IsList(phone.list) /\ ToSet(phone.list) \subseteq GoodEntries

ChatInv == StoreInv /\ RoomInv /\ SendInv /\ PhoneInv

----------------------------------------------------------------------------
(* Lists: what each change of the app's list makes of its entries.         *)
LEMMA Mapped ==
  ASSUME NEW S, NEW s \in Seq(S), NEW T, NEW t, DOMAIN t = DOMAIN s,
         t = [i \in DOMAIN t |-> t[i]], \A i \in DOMAIN s : t[i] \in T
  PROVE  t \in Seq(T) /\ Len(t) = Len(s)
  <1>1. Len(s) \in Nat /\ DOMAIN t = 1..Len(s)
    OBVIOUS
  <1> QED BY <1>1

LEMMA Prepended ==
  ASSUME NEW S, NEW s \in Seq(S), NEW m \in S
  PROVE  /\ <<m>> \o s \in Seq(S)
         /\ DOMAIN (<<m>> \o s) = 1..(Len(s) + 1)
         /\ (<<m>> \o s)[1] = m
         /\ \A i \in DOMAIN s : (<<m>> \o s)[i + 1] = s[i]
         /\ \A i \in 2..(Len(s) + 1) : i - 1 \in DOMAIN s /\ (<<m>> \o s)[i] = s[i - 1]
  OBVIOUS

LEMMA PrependedList ==
  ASSUME NEW s, IsList(s), NEW m \in Entries, \A i \in DOMAIN s : s[i].note # m.note
  PROVE  IsList(<<m>> \o s) /\ ToSet(<<m>> \o s) \subseteq ToSet(s) \cup {m}
  <1>1. PICK t : t = <<m>> \o s
    OBVIOUS
  <1>2. /\ t \in Seq(Entries) /\ DOMAIN t = 1..(Len(s) + 1) /\ Len(s) \in Nat
        /\ t[1] = m
        /\ \A i \in 2..(Len(s) + 1) : i - 1 \in DOMAIN s /\ t[i] = s[i - 1]
    BY <1>1, Prepended DEF IsList
  <1>3. Unique(t)
    <2> SUFFICES ASSUME NEW i \in DOMAIN t, NEW j \in DOMAIN t, t[i].note = t[j].note
                 PROVE  i = j
      BY DEF Unique
    <2>1. \A k \in 2..(Len(s) + 1) : k - 1 \in DOMAIN s /\ t[k] = s[k - 1] /\ t[k].note # m.note
      BY <1>2
    <2>2. \A k \in DOMAIN t : k = 1 \/ k \in 2..(Len(s) + 1)
      BY <1>2
    <2>3. CASE i = 1 \/ j = 1
      BY <2>1, <2>2, <2>3, <1>2
    <2>4. CASE i \in 2..(Len(s) + 1) /\ j \in 2..(Len(s) + 1)
      <3>1. i - 1 \in DOMAIN s /\ j - 1 \in DOMAIN s /\ s[i - 1].note = s[j - 1].note
        BY <2>1, <2>4
      <3>2. i - 1 = j - 1
        BY <3>1 DEF IsList, Unique
      <3> QED BY <3>2, <2>4, <1>2
    <2> QED BY <2>2, <2>3, <2>4
  <1>4. ToSet(t) \subseteq ToSet(s) \cup {m}
    <2> SUFFICES ASSUME NEW i \in DOMAIN t PROVE t[i] \in ToSet(s) \cup {m}
      BY DEF ToSet
    <2> QED BY <1>2 DEF ToSet
  <1> QED BY <1>1, <1>2, <1>3, <1>4 DEF IsList

(* An entry replaced by one of the same note. *)
LEMMA Replaced ==
  ASSUME NEW s, IsList(s), NEW i \in DOMAIN s, NEW m \in Entries, m.note = s[i].note
  PROVE  IsList([s EXCEPT ![i] = m]) /\ ToSet([s EXCEPT ![i] = m]) \subseteq ToSet(s) \cup {m}
  <1>1. PICK t : t = [s EXCEPT ![i] = m]
    OBVIOUS
  <1>2. /\ t \in Seq(Entries) /\ DOMAIN t = DOMAIN s
        /\ \A j \in DOMAIN s : t[j] = IF j = i THEN m ELSE s[j]
    BY <1>1 DEF IsList
  <1>3. \A j \in DOMAIN s : t[j].note = s[j].note
    BY <1>2
  <1> QED BY <1>1, <1>2, <1>3 DEF IsList, Unique, ToSet

LEMMA LeastIndex ==
  ASSUME NEW n \in Nat, NEW I \in SUBSET (1..n), I # {}
  PROVE  Min(I) \in I
  <1>1. I \in SUBSET Nat
    OBVIOUS
  <1>2. \E x \in I : \A y \in I : x =< y
    BY <1>1, LeastNumber, Zenon
  <1> QED BY <1>2 DEF Min

LEMMA EntryRow ==
  ASSUME NEW row \in Rows
  PROVE  /\ Entry(row, "SENT") \in Entries
         /\ Entry(row, "SENT").note = row.note /\ Entry(row, "SENT").plain = row.plain
         /\ Entry(row, "SENT").read = row.read /\ Entry(row, "SENT").id = TRUE
  BY DEF Entry, Rows, Entries

(* _upsert keeps one entry per message. *)
LEMMA Upserted ==
  ASSUME NEW s, IsList(s), NEW row \in Rows
  PROVE  /\ IsList(Upsert(s, row))
         /\ ToSet(Upsert(s, row)) \subseteq ToSet(s) \cup {Entry(row, "SENT")}
  <1> DEFINE I == {i \in 1..Len(s) : SameMessage(s[i], row.note)}
  <1>1. PICK m : m = Entry(row, "SENT")
    OBVIOUS
  <1>2. m \in Entries /\ m.note = row.note
    BY <1>1, EntryRow
  <1>3. Len(s) \in Nat /\ DOMAIN s = 1..Len(s) /\ I \subseteq 1..Len(s)
    BY DEF IsList
  <1>4. CASE I = {}
    <2>1. \A i \in DOMAIN s : s[i].note # m.note
      BY <1>2, <1>3, <1>4 DEF SameMessage
    <2>2. Upsert(s, row) = <<m>> \o s
      BY <1>1, <1>4 DEF Upsert, SelectInSeq
    <2> QED BY <2>1, <2>2, <1>1, <1>2, PrependedList
  <1>5. CASE I # {}
    <2>0. PICK J : J = I
      OBVIOUS
    <2>1. J \in SUBSET (1..Len(s)) /\ J # {}
      BY <2>0, <1>3, <1>5
    <2>2. PICK i : i = Min(J) /\ i \in J
      BY <2>1, <1>3, LeastIndex
    <2>3. i \in 1..Len(s) /\ s[i].note = row.note
      BY <2>0, <2>2 DEF SameMessage
    <2>4. i \in DOMAIN s /\ i # 0
      BY <2>3, <1>3
    <2>5. I # {} /\ Min(I) = i
      BY <2>0, <2>2, <1>5
    <2>6. Upsert(s, row) = [s EXCEPT ![i] = m]
      <3>1. Upsert(s, row) = LET k == IF I # {} THEN Min(I) ELSE 0
                             IN  IF k = 0 THEN <<m>> \o s ELSE [s EXCEPT ![k] = m]
        BY <1>1 DEF Upsert, SelectInSeq
      <3> HIDE DEF I
      <3> QED BY <3>1, <2>4, <2>5
    <2>7. /\ IsList([s EXCEPT ![i] = m])
          /\ ToSet([s EXCEPT ![i] = m]) \subseteq ToSet(s) \cup {m}
      BY <2>3, <2>4, <1>2, Replaced
    <2> QED BY <2>6, <2>7, <1>1
  <1> QED BY <1>4, <1>5

(* What _refreshLatest does, one message of the page after the other. *)
LEMMA MergedSteps ==
  ASSUME NEW s, NEW page \in Seq(Rows)
  PROVE  \E f : /\ f[0] = s
                /\ \A i \in 1..Len(page) : f[i] = Upsert(f[i - 1], page[i])
                /\ Merged(s, page) = f[Len(page)]
  <1> DEFINE Up(f, n) == f = [i \in 0..n |-> IF i = 0 THEN s ELSE Upsert(f[i - 1], page[i])]
             S == {n \in Nat : \E f : Up(f, n)}
  <1>1. Len(page) \in Nat
    OBVIOUS
  <1>2. 0 \in S
    <2>1. PICK f : f = [i \in 0..0 |-> s]
      OBVIOUS
    <2>2. Up(f, 0)
      BY <2>1
    <2> QED BY <2>2
  <1>3. ASSUME NEW n \in Nat, n < Len(page), n \in S PROVE n + 1 \in S
    <2>1. PICK f : Up(f, n)
      BY <1>3
    <2>2. PICK h : h = [i \in 0..(n + 1) |-> IF i = n + 1 THEN Upsert(f[n], page[n + 1]) ELSE f[i]]
      OBVIOUS
    <2>3. \A i \in 0..(n + 1) : h[i] = IF i = 0 THEN s ELSE Upsert(h[i - 1], page[i])
      <3> TAKE i \in 0..(n + 1)
      <3>1. CASE i = n + 1
        BY <3>1, <2>2
      <3>2. CASE i # n + 1
        <4>1. i \in 0..n /\ h[i] = f[i] /\ (i # 0 => i - 1 \in 0..(n + 1) /\ i - 1 # n + 1)
          BY <3>2, <2>2
        <4>2. f[i] = IF i = 0 THEN s ELSE Upsert(f[i - 1], page[i])
          BY <4>1, <2>1
        <4>3. i # 0 => h[i - 1] = f[i - 1]
          BY <4>1, <2>2
        <4> QED BY <4>1, <4>2, <4>3
      <3> QED BY <3>1, <3>2
    <2>4. Up(h, n + 1)
      BY <2>2, <2>3
    <2> HIDE DEF Up
    <2>5. n + 1 \in Nat
      OBVIOUS
    <2> QED BY <2>4, <2>5
  <1>4. Len(page) \in S
    <2>1. PICK I : I = S
      OBVIOUS
    <2>2. 0 \in I /\ \A i \in Nat : i < Len(page) /\ i \in I => i + 1 \in I
      BY <2>1, <1>2, <1>3
    <2>3. Len(page) \in I
      BY <2>2, <1>1, UpTo
    <2> QED BY <2>1, <2>3
  <1>5. PICK f : f = CHOOSE g : Up(g, Len(page))
    OBVIOUS
  <1>6. Up(f, Len(page))
    BY <1>4, <1>5
  <1>7. Merged(s, page) = f[Len(page)]
    BY <1>5 DEF Merged
  <1>8. f[0] = s /\ \A i \in 1..Len(page) : f[i] = Upsert(f[i - 1], page[i])
    BY <1>6, <1>1
  <1> QED BY <1>7, <1>8

LEMMA MergedList ==
  ASSUME NEW s, IsList(s), NEW page \in Seq(Rows)
  PROVE  /\ IsList(Merged(s, page))
         /\ ToSet(Merged(s, page))
              \subseteq ToSet(s) \cup {Entry(page[k], "SENT") : k \in DOMAIN page}
  <1> DEFINE Came == {Entry(page[k], "SENT") : k \in DOMAIN page}
             Fine(t) == IsList(t) /\ ToSet(t) \subseteq ToSet(s) \cup Came
  <1>1. PICK f : /\ f[0] = s
                 /\ \A i \in 1..Len(page) : f[i] = Upsert(f[i - 1], page[i])
                 /\ Merged(s, page) = f[Len(page)]
    BY MergedSteps
  <1>2. PICK I : I = {i \in Nat : Fine(f[i])}
    OBVIOUS
  <1>3. 0 \in I
    BY <1>1, <1>2
  <1>4. ASSUME NEW i \in Nat, i < Len(page), i \in I PROVE i + 1 \in I
    <2>1. i + 1 \in DOMAIN page /\ i + 1 \in Nat /\ i + 1 \in 1..Len(page)
      BY <1>4
    <2>2. PICK row \in Rows : row = page[i + 1]
      BY <2>1
    <2>3. f[i + 1] = Upsert(f[i], row)
      BY <2>1, <2>2, <1>1
    <2>4. IsList(f[i]) /\ ToSet(f[i]) \subseteq ToSet(s) \cup Came
      BY <1>4, <1>2
    <2>5. Entry(row, "SENT") \in Came
      BY <2>1, <2>2
    <2>6. IsList(f[i + 1]) /\ ToSet(f[i + 1]) \subseteq ToSet(f[i]) \cup {Entry(row, "SENT")}
      BY <2>3, <2>4, Upserted
    <2> HIDE DEF Came
    <2>7. Fine(f[i + 1])
      BY <2>4, <2>5, <2>6
    <2> QED BY <2>1, <2>7, <1>2
  <1>5. Len(page) \in I
    BY <1>3, <1>4, UpTo
  <1> QED BY <1>1, <1>2, <1>5

(* _setSendState and a read receipt change entries, not which there are. *)
LEMMA Remade ==
  ASSUME NEW s, IsList(s), NEW t, t = [i \in DOMAIN s |-> t[i]],
         \A i \in DOMAIN s : t[i] \in Entries /\ t[i].note = s[i].note
  PROVE  IsList(t)
  <1>1. DOMAIN t = DOMAIN s
    OBVIOUS
  <1>2. t \in Seq(Entries)
    BY <1>1, Mapped DEF IsList
  <1> QED BY <1>1, <1>2 DEF IsList, Unique

LEMMA StateSet ==
  ASSUME NEW s, IsList(s), NEW n, NEW state \in {"SENDING", "SENT", "FAILED"}
  PROVE  /\ IsList(SetState(s, n, state))
         /\ DOMAIN SetState(s, n, state) = DOMAIN s
         /\ \A i \in DOMAIN s : LET m == SetState(s, n, state)[i]
                                IN  /\ m.note = s[i].note /\ m.plain = s[i].plain
                                    /\ m.read = s[i].read /\ m.id = s[i].id
  <1>1. PICK t : t = SetState(s, n, state)
    OBVIOUS
  <1>2. t = [i \in DOMAIN s |-> IF s[i].note = n THEN [s[i] EXCEPT !.state = state] ELSE s[i]]
    BY <1>1 DEF SetState
  <1>3. \A i \in DOMAIN s : s[i] \in Entries
    BY DEF IsList
  <1>4. \A i \in DOMAIN s : /\ t[i] \in Entries
                            /\ t[i].note = s[i].note /\ t[i].plain = s[i].plain
                            /\ t[i].read = s[i].read /\ t[i].id = s[i].id
    BY <1>2, <1>3 DEF Entries
  <1>5. t = [i \in DOMAIN s |-> t[i]]
    BY <1>2
  <1>6. IsList(t)
    BY <1>4, <1>5, Remade
  <1> QED BY <1>1, <1>2, <1>4, <1>6

----------------------------------------------------------------------------
(* What is stored and what was shown stays so, and a payment is not        *)
(* forgotten; what the app was told before holds on.                       *)
Grows == InStore \subseteq InStore' /\ InRoom \subseteq InRoom' /\ (paid.ever => paid'.ever)

LEMMA GoodStays ==
  ASSUME Grows
  PROVE  /\ GoodRows \subseteq GoodRows' /\ GoodEntries \subseteq GoodEntries'
         /\ NewEvents \subseteq NewEvents' /\ ReadEvents \subseteq ReadEvents'
  <1>1. GoodRows \subseteq GoodRows'
    BY DEF Grows, GoodRows
  <1>2. GoodEntries \subseteq GoodEntries'
    BY DEF Grows, GoodEntries
  <1>3. ReadEvents \subseteq ReadEvents'
    BY DEF Grows, ReadEvents
  <1> QED BY <1>1, <1>2, <1>3 DEF NewEvents

LEMMA SameStore ==
  ASSUME StoreInv, RoomInv, UNCHANGED <<stored, paid, room>>
  PROVE  StoreInv' /\ RoomInv' /\ Grows /\ InStore' = InStore
  <1>1. InStore' = InStore /\ InRoom' = InRoom
    BY DEF InStore, InRoom
  <1> QED BY <1>1 DEF StoreInv, RoomInv, Grows, Unique

LEMMA SamePhone ==
  ASSUME PhoneInv, Grows, UNCHANGED <<events, phone>>
  PROVE  PhoneInv'
  BY GoodStays DEF PhoneInv

LEMMA SameSends ==
  ASSUME SendInv, Grows, UNCHANGED <<send, waits, recorded, told>>
  PROVE  SendInv'
  BY DEF SendInv, Grows

(* One call's row changes. *)
SendRow(row) ==
  /\ row \in Sends
  /\ row.step # "IDLE" => row.note \in AllNotes
  /\ row.step \in {"TELL", "DONE", "NOTIFY"} => row.note \in InStore
  /\ row.step \in {"OPEN_CHAT", "NOTIFY"} => row.note = Offered
  /\ row.step = "NOTIFY" => recorded
  /\ row.plain => paid.ever

LEMMA SendIs ==
  ASSUME SendInv, NEW c \in Calls
  PROVE  /\ send[c] \in Sends /\ SendRow(send[c])
         /\ SendRow(NoSend) /\ NoSend.note = None
  <1>1. NoSend \in Sends
    BY DEF NoSend, Sends, SendSteps, AllNotes
  <1> QED BY <1>1 DEF SendInv, SendRow, NoSend

LEMMA SendChanged ==
  ASSUME SendInv, Grows, NEW c \in Calls, NEW row, send' = [send EXCEPT ![c] = row], SendRow(row)',
         waits' \subseteq waits \cup {c}, c \in waits' => row.note \in Texts,
         recorded => recorded', recorded' => Offered \in InStore', told' => recorded'
  PROVE  SendInv'
  <1>1. row \in Sends
    BY DEF SendRow
  <1>2. send' \in [Calls -> Sends]
    BY <1>1 DEF SendInv
  <1>3. \A d \in Calls : send'[d] = IF d = c THEN row ELSE send[d]
    BY DEF SendInv
  <1>4. waits' \subseteq Calls /\ \A d \in waits' : send'[d].note \in Texts
    BY <1>3 DEF SendInv
  <1>5. ASSUME NEW d \in Calls
        PROVE  /\ send'[d].step # "IDLE" => send'[d].note \in AllNotes
               /\ send'[d].step \in {"TELL", "DONE", "NOTIFY"} => send'[d].note \in InStore'
               /\ send'[d].step \in {"OPEN_CHAT", "NOTIFY"} => send'[d].note = Offered
               /\ send'[d].step = "NOTIFY" => recorded'
               /\ send'[d].plain => paid'.ever
    <2>1. CASE d = c
      BY <2>1, <1>3 DEF SendRow
    <2>2. CASE d # c
      BY <2>2, <1>3 DEF SendInv, Grows
    <2> QED BY <2>1, <2>2
  <1> QED BY <1>2, <1>4, <1>5 DEF SendInv

(* A row of which only the step, the note or the mask changes.             *)
LEMMA Stepped ==
  ASSUME SendInv, NEW c \in Calls, NEW step \in SendSteps
  PROVE  \E row : /\ row = [send[c] EXCEPT !.step = step] /\ row \in Sends
                  /\ row.step = step /\ row.note = send[c].note /\ row.plain = send[c].plain
  <1>1. PICK row : row = [send[c] EXCEPT !.step = step]
    OBVIOUS
  <1>2. /\ row \in Sends
        /\ row.step = step /\ row.note = send[c].note /\ row.plain = send[c].plain
    BY <1>1, SendIs DEF Sends
  <1> QED BY <1>1, <1>2

LEMMA Started ==
  ASSUME SendInv, NEW c \in Calls, NEW n \in AllNotes, NEW step \in {"SEND", "OPEN_CHAT"},
         step = "OPEN_CHAT" => n = Offered, StartSend(c, n, step)
  PROVE  \E row : send' = [send EXCEPT ![c] = row] /\ SendRow(row)' /\ row.note = n
  <1>1. PICK row : row = [step |-> step, note |-> n, plain |-> FALSE]
    OBVIOUS
  <1>2. row \in Sends /\ row.step = step /\ row.note = n /\ row.plain = FALSE
    BY <1>1 DEF Sends, SendSteps
  <1>3. send' = [send EXCEPT ![c] = row]
    BY <1>1 DEF StartSend
  <1> QED BY <1>2, <1>3 DEF SendRow

(* Answer: the row goes on to the step, or it is forgotten.                *)
LEMMA Answered ==
  ASSUME SendInv, Grows, NEW c \in Calls, NEW step \in {"DONE", "REFUSED"}, Answer(c, step),
         send[c].step # "IDLE", step = "DONE" => send[c].note \in InStore'
  PROVE  \E row : send' = [send EXCEPT ![c] = row] /\ SendRow(row)' /\ (row.note = send[c].note \/ c \notin waits)
  <1>1. CASE c \in waits \/ send[c].note \notin Notes
    <2>1. PICK row : /\ row = [send[c] EXCEPT !.step = step] /\ row \in Sends
                     /\ row.step = step /\ row.note = send[c].note /\ row.plain = send[c].plain
      BY Stepped DEF SendSteps
    <2>2. send' = [send EXCEPT ![c] = row]
      BY <1>1, <2>1 DEF Answer, SendInv
    <2>3. SendRow(row)'
      BY <2>1, SendIs DEF SendRow, Grows
    <2> QED BY <2>1, <2>2, <2>3
  <1>2. CASE ~ (c \in waits \/ send[c].note \notin Notes)
    <2>1. send' = [send EXCEPT ![c] = NoSend]
      BY <1>2 DEF Answer
    <2>2. PICK row : row = NoSend
      OBVIOUS
    <2>3. row \in Sends /\ row.step = "IDLE" /\ row.plain = FALSE
      BY <2>2 DEF NoSend, Sends, SendSteps
    <2>4. SendRow(row)'
      BY <2>3 DEF SendRow
    <2> QED BY <2>1, <2>2, <2>4, <1>2
  <1> QED BY <1>1, <1>2

LEMMA LooksUp ==
  ASSUME ChatInv, NEW c \in Calls, LookUp(c), UNCHANGED requestVars
  PROVE  ChatInv'
  <1> USE DEF ChatInv
  <1>0. StoreInv' /\ RoomInv' /\ Grows /\ InStore' = InStore
    BY SameStore DEF LookUp
  <1>1. PhoneInv' /\ send[c].step = "SEND" /\ UNCHANGED <<waits, recorded, told>>
    BY <1>0, SamePhone DEF LookUp, requestVars
  <1>2. ASSUME NEW row, send' = [send EXCEPT ![c] = row], SendRow(row)',
               row.note = send[c].note \/ c \notin waits
        PROVE  SendInv'
    <2>1. c \in waits => row.note \in Texts
      BY <1>2 DEF SendInv
    <2> QED BY <2>1, <1>0, <1>1, <1>2, SendChanged DEF SendInv
  <1>3. CASE Has(send[c].note)
    <2>1. Answer(c, "DONE") /\ send[c].note \in InStore
      BY <1>3 DEF LookUp, Has, InStore
    <2> QED BY <2>1, <1>0, <1>1, <1>2, Answered
  <1>4. CASE ~Has(send[c].note) /\ blocked
    <2>1. Answer(c, "REFUSED")
      BY <1>4 DEF LookUp
    <2> QED BY <2>1, <1>0, <1>1, <1>2, Answered
  <1>5. CASE ~Has(send[c].note) /\ ~blocked
    <2>1. PICK row : row = [send[c] EXCEPT !.step = "STORE", !.plain = paid.now]
      OBVIOUS
    <2>2. /\ row \in Sends /\ row.step = "STORE" /\ row.note = send[c].note
          /\ row.plain => paid.ever
      BY <2>1, SendIs DEF Sends, SendSteps, StoreInv
    <2>3. send' = [send EXCEPT ![c] = row]
      BY <1>5, <2>1 DEF LookUp, SendInv
    <2>4. SendRow(row)'
      BY <2>2, <1>1, <1>0 DEF SendRow, SendInv, Grows
    <2> QED BY <2>2, <2>3, <2>4, <1>0, <1>1, <1>2
  <1> QED BY <1>3, <1>4, <1>5

LEMMA Stores ==
  ASSUME ChatInv, NEW c \in Calls, Store(c), UNCHANGED requestVars
  PROVE  ChatInv'
  <1> USE DEF ChatInv
  <1>1. /\ send[c].step = "STORE" /\ send[c].note \in AllNotes /\ send[c].plain \in BOOLEAN
        /\ send[c].plain => paid.ever
        /\ UNCHANGED <<room, paid, events, phone, waits, recorded, told>>
    BY SendIs DEF Store, SendInv, Sends, requestVars
  <1>2. PICK new : new = [note |-> send[c].note, plain |-> send[c].plain, read |-> FALSE]
    OBVIOUS
  <1>3. new \in Rows /\ new.note = send[c].note /\ new.read = FALSE /\ (new.plain => paid.ever)
    BY <1>1, <1>2 DEF Rows
  <1>4. stored \in Seq(Rows) /\ Len(stored) \in Nat /\ DOMAIN stored = 1..Len(stored)
    BY DEF StoreInv
  <1>5. /\ stored' \in Seq(Rows)
        /\ \A i \in DOMAIN stored : i \in DOMAIN stored' /\ stored'[i] = stored[i]
        /\ \A i \in DOMAIN stored' : i \in DOMAIN stored \/ (i = Len(stored) + 1 /\ stored'[i] = new /\ ~Has(new.note))
        /\ Has(new.note) => stored' = stored
        /\ ~Has(new.note) => Len(stored) + 1 \in DOMAIN stored' /\ stored'[Len(stored) + 1] = new
    <2>1. CASE Has(new.note)
      BY <2>1, <1>2, <1>3, <1>4 DEF Store
    <2>2. CASE ~Has(new.note)
      <3>1. stored' = Append(stored, new)
        BY <2>2, <1>2, <1>3 DEF Store
      <3>2. stored' \in Seq(Rows) /\ DOMAIN stored' = 1..(Len(stored) + 1)
        BY <3>1, <1>3, <1>4
      <3>3. \A i \in 1..(Len(stored) + 1) :
              stored'[i] = IF i = Len(stored) + 1 THEN new ELSE stored[i]
        BY <3>1, <1>3, <1>4
      <3> QED BY <3>2, <3>3, <2>2, <1>4
    <2> QED BY <2>1, <2>2
  <1>6. InStore \subseteq InStore' /\ new.note \in InStore'
    BY <1>5 DEF InStore, Has
  <1>7. Grows /\ InRoom' = InRoom
    BY <1>1, <1>6 DEF Grows, InRoom
  <1>8. Unique(stored')
    <2> SUFFICES ASSUME NEW i \in DOMAIN stored', NEW j \in DOMAIN stored',
                        stored'[i].note = stored'[j].note
                 PROVE  i = j
      BY DEF Unique
    <2> QED BY <1>5 DEF StoreInv, Unique, Has
  <1>9. StoreInv'
    <2>1. \A i \in DOMAIN stored' : (stored'[i].read => stored'[i].note \in InRoom')
                                 /\ (stored'[i].plain => paid'.ever)
      BY <1>1, <1>3, <1>5, <1>7 DEF StoreInv
    <2> QED BY <2>1, <1>1, <1>5, <1>8 DEF StoreInv
  <1>10. RoomInv'
    BY <1>1, <1>5, <1>7 DEF RoomInv
  <1>11. PhoneInv'
    BY <1>1, <1>7, SamePhone
  <1>12. SendInv'
    <2>1. PICK row : /\ row = [send[c] EXCEPT !.step = "TELL"] /\ row \in Sends
                     /\ row.step = "TELL" /\ row.note = send[c].note /\ row.plain = send[c].plain
      BY Stepped DEF SendSteps
    <2>2. send' = [send EXCEPT ![c] = row]
      BY <2>1 DEF Store, Step, SendInv
    <2>3. SendRow(row)'
      BY <2>1, <1>1, <1>3, <1>6 DEF SendRow
    <2>4. c \in waits => row.note \in Texts
      BY <2>1 DEF SendInv
    <2>5. recorded => Offered \in InStore'
      BY <1>6 DEF SendInv
    <2> QED BY <2>2, <2>3, <2>4, <2>5, <1>1, <1>7, SendChanged DEF SendInv
  <1> QED BY <1>9, <1>10, <1>11, <1>12

LEMMA NumberIs ==
  ASSUME StoreInv, NEW n \in InStore
  PROVE  /\ Number(n) \in DOMAIN stored /\ stored[Number(n)].note = n
         /\ \A i \in DOMAIN stored : stored[i].note = n => Number(n) = i
  <1>1. \E i \in DOMAIN stored : stored[i].note = n
    BY DEF InStore
  <1>2. Number(n) \in DOMAIN stored /\ stored[Number(n)].note = n
    BY <1>1 DEF Number
  <1> QED BY <1>2 DEF StoreInv, Unique

LEMMA PresentedIs ==
  ASSUME StoreInv, NEW i \in DOMAIN stored
  PROVE  /\ Presented(stored[i]) \in GoodRows
         /\ Presented(stored[i]).note = stored[i].note
         /\ Presented(stored[i]).plain => paid.ever
  <1>1. PICK r \in Rows : r = stored[i]
    BY DEF StoreInv
  <1>2. PICK row : row = [note |-> r.note, plain |-> r.plain \/ paid.now, read |-> r.read]
    OBVIOUS
  <1>3. /\ row.note = r.note /\ row.read = r.read
        /\ row.plain <=> (r.plain \/ paid.now)
    BY <1>2
  <1>4. row \in Rows
    BY <1>2 DEF Rows, StoreInv
  <1>5. (r.read => r.note \in InRoom) /\ (r.plain => paid.ever) /\ (paid.now => paid.ever)
        /\ r.note \in InStore
    BY <1>1 DEF StoreInv, InStore
  <1>6. row \in GoodRows
    BY <1>3, <1>4, <1>5 DEF GoodRows
  <1>7. Presented(stored[i]) = row
    BY <1>1, <1>2 DEF Presented
  <1> QED BY <1>1, <1>3, <1>5, <1>6, <1>7

LEMMA PageIs ==
  ASSUME StoreInv
  PROVE  Page \in Seq(Rows) /\ Unique(Page) /\ ToSet(Page) \subseteq GoodRows
  <1>1. PICK p : p = Page
    OBVIOUS
  <1>2. DOMAIN p = DOMAIN stored /\ p = [i \in DOMAIN p |-> p[i]]
    BY <1>1 DEF Page
  <1>3. \A i \in DOMAIN stored : p[i] = Presented(stored[i])
    BY <1>1 DEF Page
  <1>4. \A i \in DOMAIN stored : p[i] \in GoodRows /\ p[i].note = stored[i].note
    BY <1>3, PresentedIs
  <1>5. \A i \in DOMAIN stored : p[i] \in Rows
    BY <1>4 DEF GoodRows
  <1>6. p \in Seq(Rows)
    BY <1>2, <1>5, Mapped DEF StoreInv
  <1>7. Unique(p)
    BY <1>2, <1>4 DEF StoreInv, Unique
  <1> QED BY <1>1, <1>2, <1>4, <1>6, <1>7 DEF ToSet

LEMMA Tells ==
  ASSUME ChatInv, NEW c \in Calls, Tell(c), UNCHANGED requestVars
  PROVE  ChatInv'
  <1> USE DEF ChatInv
  <1>0. StoreInv' /\ RoomInv' /\ Grows /\ InStore' = InStore
    BY SameStore DEF Tell
  <1>1. send[c].step = "TELL" /\ send[c].note \in InStore /\ UNCHANGED <<waits, recorded, told, phone>>
    BY DEF Tell, requestVars, SendInv
  <1>2. PhoneInv'
    <2>1. PICK i \in DOMAIN stored : i = Number(send[c].note)
      BY <1>1, NumberIs
    <2>2. PICK r \in GoodRows : r = Presented(stored[i])
      BY PresentedIs
    <2>3. PICK q : q = [r EXCEPT !.read = FALSE]
      OBVIOUS
    <2>4. q \in GoodRows
      BY <2>3 DEF GoodRows, Rows
    <2>5. events' = events \cup {New(q)}
      BY <2>1, <2>2, <2>3 DEF Tell
    <2>6. New(q) \in NewEvents
      BY <2>4 DEF New, NewEvents
    <2> QED BY <2>5, <2>6, <1>0, <1>1, GoodStays DEF PhoneInv
  <1>3. SendInv'
    <2>1. PICK row : send' = [send EXCEPT ![c] = row] /\ SendRow(row)'
                     /\ (row.note = send[c].note \/ c \notin waits)
      BY <1>0, <1>1, Answered DEF Tell
    <2>2. c \in waits => row.note \in Texts
      BY <2>1 DEF SendInv
    <2> QED BY <2>1, <2>2, <1>0, <1>1, SendChanged DEF SendInv
  <1> QED BY <1>0, <1>2, <1>3

(* The mark is a message the browser shows; what is stored up to it too.   *)
LEMMA UpToMark ==
  ASSUME StoreInv, RoomInv, NEW n \in InRoom, NEW i \in DOMAIN stored, i <= Number(n)
  PROVE  stored[i].note \in InRoom
  <1>1. PICK k \in DOMAIN room.page : room.page[k].note = n
    BY DEF InRoom
  <1>2. k \in DOMAIN stored /\ stored[k].note = n
    BY <1>1 DEF RoomInv
  <1>3. Number(n) = k
    BY <1>2, NumberIs DEF InStore
  <1>4. DOMAIN room.page = 1..Len(room.page) /\ Len(room.page) \in Nat
        /\ DOMAIN stored = 1..Len(stored) /\ Len(stored) \in Nat
    BY DEF RoomInv, StoreInv
  <1>5. i \in DOMAIN room.page
    BY <1>1, <1>3, <1>4
  <1>6. room.page[i].note = stored[i].note
    BY <1>5 DEF RoomInv
  <1> QED BY <1>5, <1>6 DEF InRoom

LEMMA InRoomStored ==
  ASSUME RoomInv, NEW n \in InRoom
  PROVE  n \in InStore /\ n \in AllNotes
  <1>1. PICK k \in DOMAIN room.page : room.page[k].note = n
    BY DEF InRoom
  <1>2. PICK S : S = [note : AllNotes, plain : BOOLEAN]
    OBVIOUS
  <1>3. PICK p : p = room.page /\ p \in Seq(S)
    BY <1>2 DEF RoomInv
  <1>4. p[k] \in S
    BY <1>1, <1>3
  <1> QED BY <1>1, <1>2, <1>3, <1>4 DEF RoomInv, InStore

LEMMA MarksRead ==
  ASSUME ChatInv, MarkRead, UNCHANGED requestVars
  PROVE  ChatInv'
  <1> USE DEF ChatInv
  <1>1. PICK marked : marked = {i \in DOMAIN stored : /\ stored[i].note \in Texts
                                                       /\ ~stored[i].read
                                                       /\ UpToReadMark(i)}
    OBVIOUS
  <1>2. /\ room.mark # None
        /\ stored' = [i \in DOMAIN stored |-> [stored[i] EXCEPT !.read = @ \/ i \in marked]]
        /\ events' = IF marked = {} THEN events ELSE events \cup {ReadUpTo(room.mark)}
        /\ room' = [room EXCEPT !.mark = None]
        /\ UNCHANGED <<paid, send, waits, phone, recorded, told>>
    BY <1>1 DEF MarkRead, requestVars
  <1>3. \A i \in marked : stored[i].note \in InRoom
    BY <1>1, <1>2, UpToMark DEF RoomInv, UpToReadMark
  <1>4. room'.page = room.page /\ room'.mark = None /\ DOMAIN room' = DOMAIN room
    BY <1>2 DEF RoomInv
  <1>5. InRoom' = InRoom
    BY <1>4 DEF InRoom
  <1>6. ASSUME NEW i \in DOMAIN stored
        PROVE  /\ stored'[i] \in Rows /\ stored'[i].note = stored[i].note
               /\ stored'[i].plain = stored[i].plain
               /\ stored'[i].read => stored[i].read \/ i \in marked
    <2>1. PICK r \in Rows : r = stored[i]
      BY DEF StoreInv
    <2>2. PICK q : q = [r EXCEPT !.read = @ \/ i \in marked]
      OBVIOUS
    <2>3. q \in Rows /\ q.note = r.note /\ q.plain = r.plain /\ (q.read <=> (r.read \/ i \in marked))
      BY <2>2 DEF Rows
    <2>4. stored'[i] = q
      BY <1>2, <2>1, <2>2
    <2> QED BY <2>1, <2>3, <2>4
  <1>7. DOMAIN stored' = DOMAIN stored /\ stored' = [i \in DOMAIN stored' |-> stored'[i]]
    BY <1>2
  <1>8. stored' \in Seq(Rows)
    BY <1>6, <1>7, Mapped DEF StoreInv
  <1>9. InStore' = InStore
    BY <1>6, <1>7 DEF InStore
  <1>10. Grows
    BY <1>2, <1>5, <1>9 DEF Grows
  <1>11. StoreInv'
    <2>1. Unique(stored')
      BY <1>6, <1>7 DEF StoreInv, Unique
    <2>2. \A i \in DOMAIN stored' : (stored'[i].read => stored'[i].note \in InRoom')
                                 /\ (stored'[i].plain => paid'.ever)
      BY <1>2, <1>3, <1>5, <1>6, <1>7 DEF StoreInv
    <2> QED BY <2>1, <2>2, <1>2, <1>8 DEF StoreInv
  <1>12. RoomInv'
    BY <1>2, <1>4, <1>6, <1>7 DEF RoomInv
  <1>13. SendInv'
    BY <1>2, <1>10, SameSends
  <1>14. PhoneInv'
    <2>1. ReadUpTo(room.mark) \in ReadEvents
      <3>1. room.mark \in InRoom /\ room.mark \in AllNotes
        BY <1>2, InRoomStored DEF RoomInv
      <3>2. [note |-> room.mark, plain |-> FALSE, read |-> TRUE] \in Rows
        BY <3>1 DEF Rows
      <3> QED BY <3>1, <3>2 DEF ReadUpTo, ReadEvents
    <2>2. events' \subseteq NewEvents' \cup ReadEvents'
      BY <2>1, <1>2, <1>10, GoodStays DEF PhoneInv
    <2> QED BY <2>2, <1>2, <1>10, GoodStays DEF PhoneInv
  <1> QED BY <1>11, <1>12, <1>13, <1>14

LEMMA Pays ==
  ASSUME ChatInv, BookingPaid \/ BookingCancelled, UNCHANGED requestVars
  PROVE  ChatInv'
  <1> USE DEF ChatInv
  <1>1. UNCHANGED <<stored, room, send, waits, events, phone, recorded, told>>
    BY DEF BookingPaid, BookingCancelled, requestVars
  <1>2. /\ paid' \in [now : BOOLEAN, ever : BOOLEAN]
        /\ paid'.now => paid'.ever
        /\ paid.ever => paid'.ever
    <2>1. CASE BookingPaid
      BY <2>1 DEF BookingPaid
    <2>2. CASE BookingCancelled
      <3>1. paid' = [paid EXCEPT !.now = FALSE] /\ paid \in [now : BOOLEAN, ever : BOOLEAN]
        BY <2>2 DEF BookingCancelled, StoreInv
      <3> QED BY <3>1
    <2> QED BY <2>1, <2>2
  <1>3. InStore' = InStore /\ InRoom' = InRoom /\ Grows
    BY <1>1, <1>2 DEF InStore, InRoom, Grows
  <1>4. StoreInv' /\ RoomInv'
    BY <1>1, <1>2, <1>3 DEF StoreInv, RoomInv, Unique
  <1> QED BY <1>1, <1>3, <1>4, SamePhone, SameSends

LEMMA Polls ==
  ASSUME ChatInv, Poll, UNCHANGED requestVars
  PROVE  ChatInv'
  <1> USE DEF ChatInv
  <1>1. /\ UNCHANGED <<stored, paid, send, waits, events, phone, recorded, told>>
        /\ stored # <<>>
    BY DEF Poll, requestVars
  <1>2. PICK shown : shown = [i \in DOMAIN stored |->
                                [note |-> stored[i].note, plain |-> Presented(stored[i]).plain]]
    OBVIOUS
  <1>3. /\ DOMAIN room' = {"page", "last", "mark"} /\ room'.page = shown
        /\ room'.mark = room.mark \/ room'.mark = Last(stored).note
    BY <1>2 DEF Poll, RoomInv
  <1>4. DOMAIN shown = DOMAIN stored /\ shown = [i \in DOMAIN shown |-> shown[i]]
        /\ \A i \in DOMAIN stored : /\ shown[i] \in [note : AllNotes, plain : BOOLEAN]
                                    /\ shown[i].note = stored[i].note
                                    /\ shown[i].plain => paid.ever
    <2>1. ASSUME NEW i \in DOMAIN stored
          PROVE  /\ shown[i] \in [note : AllNotes, plain : BOOLEAN]
                 /\ shown[i].note = stored[i].note
                 /\ shown[i].plain => paid.ever
      <3>1. PICK r \in Rows : r = Presented(stored[i]) /\ r.note = stored[i].note
                              /\ (r.plain => paid.ever)
        BY PresentedIs DEF GoodRows
      <3>2. shown[i] = [note |-> r.note, plain |-> r.plain]
        BY <1>2, <3>1
      <3> QED BY <3>1, <3>2 DEF Rows
    <2> QED BY <1>2, <2>1
  <1>5. shown \in Seq([note : AllNotes, plain : BOOLEAN])
    BY <1>4, Mapped DEF StoreInv
  <1>6. InRoom' = InStore /\ InStore' = InStore
    BY <1>1, <1>3, <1>4 DEF InRoom, InStore
  <1>7. InRoom \subseteq InStore
    BY InRoomStored
  <1>8. Grows
    BY <1>1, <1>6, <1>7 DEF Grows
  <1>9. Last(stored).note \in InStore
    <2>1. Len(stored) \in DOMAIN stored
      BY <1>1 DEF StoreInv
    <2> QED BY <2>1 DEF Last, InStore
  <1>10. StoreInv'
    BY <1>1, <1>6, <1>7 DEF StoreInv, Unique
  <1>11. RoomInv'
    <2>1. room'.mark # None => room'.mark \in InRoom'
      BY <1>3, <1>6, <1>7, <1>9 DEF RoomInv
    <2> QED BY <2>1, <1>1, <1>3, <1>4, <1>5 DEF RoomInv
  <1> QED BY <1>1, <1>8, <1>10, <1>11, SamePhone, SameSends

LEMMA MarkingFails ==
  ASSUME ChatInv, MarkFails, UNCHANGED requestVars
  PROVE  ChatInv'
  <1> USE DEF ChatInv
  <1>1. UNCHANGED <<stored, paid, send, waits, events, phone, recorded, told>>
    BY DEF MarkFails, requestVars
  <1>2. room'.page = room.page /\ room'.mark = None /\ DOMAIN room' = DOMAIN room
    BY DEF MarkFails, RoomInv
  <1>3. InRoom' = InRoom /\ InStore' = InStore
    BY <1>1, <1>2 DEF InRoom, InStore
  <1>4. Grows
    BY <1>1, <1>3 DEF Grows
  <1>5. StoreInv'
    BY <1>1, <1>3 DEF StoreInv, Unique
  <1>6. RoomInv'
    BY <1>1, <1>2 DEF RoomInv
  <1> QED BY <1>1, <1>4, <1>5, <1>6, SamePhone, SameSends

(* The list is all that changes on the phone, and its entries are good.    *)
LEMMA ListChanged ==
  ASSUME PhoneInv, Grows, NEW list, DOMAIN phone' = DOMAIN phone, phone'.list = list,
         phone'.page = phone.page \/ phone'.page = <<>>, phone'.pending \subseteq Texts,
         events' \subseteq events, IsList(list), ToSet(list) \subseteq GoodEntries'
  PROVE  PhoneInv'
  <1>1. phone'.page \in Seq(Rows) /\ Unique(phone'.page) /\ ToSet(phone'.page) \subseteq GoodRows'
    <2>1. CASE phone'.page = phone.page
      BY <2>1, GoodStays DEF PhoneInv
    <2>2. CASE phone'.page = <<>>
      <3>1. DOMAIN phone'.page = {}
        BY <2>2
      <3> QED BY <3>1, <2>2 DEF Unique, ToSet
    <2> QED BY <2>1, <2>2
  <1>2. events' \subseteq NewEvents' \cup ReadEvents'
    BY GoodStays DEF PhoneInv
  <1> QED BY <1>1, <1>2 DEF PhoneInv

LEMMA EntryGood ==
  ASSUME NEW row \in GoodRows
  PROVE  row \in Rows /\ Entry(row, "SENT") \in GoodEntries
  <1>1. row \in Rows
    BY DEF GoodRows
  <1>2. PICK m : m = Entry(row, "SENT")
    OBVIOUS
  <1>3. /\ m \in Entries /\ m.note = row.note /\ m.plain = row.plain /\ m.read = row.read
    BY <1>1, <1>2, EntryRow
  <1> QED BY <1>1, <1>2, <1>3 DEF GoodRows, GoodEntries

(* A read receipt: what is ticked was shown. *)
LEMMA ReceiptHeard ==
  ASSUME ChatInv, NEW n \in InRoom, NEW t, t = Receipted(phone.list, n)
  PROVE  IsList(t) /\ ToSet(t) \subseteq GoodEntries
  <1> USE DEF ChatInv
  <1>1. PICK s : s = phone.list /\ IsList(s) /\ \A i \in DOMAIN s : s[i] \in GoodEntries
    BY DEF PhoneInv, ToSet
  <1>2. ASSUME NEW i \in DOMAIN s PROVE t[i] \in GoodEntries /\ t[i].note = s[i].note
    <2>1. PICK m \in GoodEntries : m = s[i]
      BY <1>1
    <2>2. CASE m.note \in Texts /\ m.id /\ Number(m.note) <= Number(n)
      <3>1. PICK q : q = [m EXCEPT !.read = TRUE]
        OBVIOUS
      <3>2. t[i] = q
        BY <1>1, <2>1, <2>2, <3>1 DEF Receipted
      <3>3. m.note \in InStore
        BY <2>2 DEF GoodEntries
      <3>4. PICK k \in DOMAIN stored : k = Number(m.note) /\ stored[k].note = m.note
        BY <3>3, NumberIs
      <3>5. m.note \in InRoom
        BY <2>2, <3>4, UpToMark
      <3>6. q \in GoodEntries /\ q.note = m.note
        BY <3>1, <3>3, <3>5 DEF GoodEntries, Entries
      <3> QED BY <2>1, <3>2, <3>6
    <2>3. CASE ~ (m.note \in Texts /\ m.id /\ Number(m.note) <= Number(n))
      <3>1. t[i] = m
        BY <1>1, <2>1, <2>3 DEF Receipted
      <3> QED BY <2>1, <3>1
    <2> QED BY <2>2, <2>3
  <1>3. DOMAIN t = DOMAIN s /\ t = [i \in DOMAIN s |-> t[i]]
    BY <1>1 DEF Receipted
  <1>4. \A i \in DOMAIN s : t[i] \in Entries
    BY <1>2 DEF GoodEntries
  <1>5. IsList(t)
    BY <1>1, <1>2, <1>3, <1>4, Remade
  <1> QED BY <1>2, <1>3, <1>5 DEF ToSet

LEMMA Hears ==
  ASSUME ChatInv, NEW e \in events, Hear(e), UNCHANGED requestVars
  PROVE  ChatInv'
  <1> USE DEF ChatInv
  <1>0. StoreInv' /\ RoomInv' /\ Grows
    BY SameStore DEF Hear
  <1>1. /\ events' = events \ {e}
        /\ UNCHANGED <<send, waits, recorded, told>>
    BY DEF Hear, requestVars
  <1>2. SendInv'
    BY <1>0, <1>1, SameSends
  <1>3. /\ IsList(phone.list) /\ ToSet(phone.list) \subseteq GoodEntries
        /\ DOMAIN phone = {"step", "page", "list", "pending"}
        /\ phone.pending \subseteq Texts
    BY DEF PhoneInv
  <1>5. PICK merged : merged = IF e.kind = "NEW" THEN Upsert(phone.list, e.row)
                               ELSE Receipted(phone.list, e.row.note)
    OBVIOUS
  <1>6. phone' = IF Open THEN [phone EXCEPT !.list = merged] ELSE phone
    <2>1. phone' = IF Open THEN [phone EXCEPT !.list =
                     IF e.kind = "NEW" THEN Upsert(phone.list, e.row)
                     ELSE Receipted(phone.list, e.row.note)] ELSE phone
      BY Zenon DEF Hear
    <2> QED BY <2>1, <1>5, Zenon
  <1>4. ASSUME IsList(merged), ToSet(merged) \subseteq GoodEntries
        PROVE  PhoneInv'
    <2>1. phone'.page = phone.page /\ phone'.pending = phone.pending /\ DOMAIN phone' = DOMAIN phone
      BY <1>3, <1>6
    <2>2. PICK new : new = phone'.list
      OBVIOUS
    <2>3. IsList(new) /\ ToSet(new) \subseteq GoodEntries'
      BY <2>2, <1>0, <1>3, <1>4, <1>6, GoodStays
    <2> QED BY <2>1, <2>2, <2>3, <1>0, <1>1, <1>3, ListChanged
  <1>7. CASE e \in NewEvents
    <2>1. e.kind = "NEW" /\ e.row \in GoodRows
      BY <1>7 DEF NewEvents
    <2>2. merged = Upsert(phone.list, e.row)
      BY <2>1, <1>5
    <2>3. IsList(merged) /\ ToSet(merged) \subseteq GoodEntries
      BY <2>1, <2>2, <1>3, Upserted, EntryGood
    <2> QED BY <2>3, <1>0, <1>2, <1>4
  <1>8. CASE e \in ReadEvents
    <2>1. e.kind = "READ" /\ e.row.note \in InRoom
      BY <1>8 DEF ReadEvents
    <2>2. merged = Receipted(phone.list, e.row.note)
      BY <2>1, <1>5
    <2>3. IsList(merged) /\ ToSet(merged) \subseteq GoodEntries
      BY <2>1, <2>2, ReceiptHeard
    <2> QED BY <2>3, <1>0, <1>2, <1>4
  <1> QED BY <1>0, <1>2, <1>7, <1>8 DEF PhoneInv

LEMMA Drops ==
  ASSUME ChatInv, SocketDrops, UNCHANGED requestVars
  PROVE  ChatInv'
  <1> USE DEF ChatInv
  <1>0. StoreInv' /\ RoomInv' /\ Grows
    BY SameStore DEF SocketDrops
  <1>1. UNCHANGED <<send, waits, recorded, told, phone>> /\ events' = {}
    BY DEF SocketDrops, requestVars
  <1>2. PhoneInv'
    BY <1>0, <1>1, GoodStays DEF PhoneInv
  <1> QED BY <1>0, <1>1, <1>2, SameSends

LEMMA Opens ==
  ASSUME ChatInv, OpenChat, UNCHANGED requestVars
  PROVE  ChatInv'
  <1> USE DEF ChatInv
  <1>0. StoreInv' /\ RoomInv' /\ Grows
    BY SameStore DEF OpenChat
  <1>1. UNCHANGED <<send, waits, recorded, told, events>>
    BY DEF OpenChat, requestVars
  <1>2. PICK page : page = Page
    OBVIOUS
  <1>3. /\ DOMAIN phone' = DOMAIN phone /\ phone'.page = page
        /\ phone'.list = phone.list /\ phone'.pending = phone.pending
    BY <1>2 DEF OpenChat, PhoneInv
  <1>4. page \in Seq(Rows) /\ Unique(page) /\ ToSet(page) \subseteq GoodRows'
    BY <1>0, <1>2, PageIs, GoodStays
  <1>5. PhoneInv'
    BY <1>0, <1>1, <1>3, <1>4, GoodStays DEF PhoneInv
  <1> QED BY <1>0, <1>1, <1>5, SameSends

(* The page that came, newest first. *)
LEMMA PageShown ==
  ASSUME NEW page \in Seq(Rows), Unique(page), ToSet(page) \subseteq GoodRows,
         NEW t, t = Reverse([i \in DOMAIN page |-> Entry(page[i], "SENT")])
  PROVE  IsList(t) /\ ToSet(t) \subseteq GoodEntries
  <1>1. Len(page) \in Nat /\ DOMAIN page = 1..Len(page)
    OBVIOUS
  <1>2. PICK n \in Nat : n = Len(page)
    BY <1>1
  <1>3. PICK u : u = [i \in 1..n |-> Entry(page[i], "SENT")]
    OBVIOUS
  <1>4. \A i \in 1..n : u[i] \in GoodEntries /\ u[i].note = page[i].note
    <2> TAKE i \in 1..n
    <2>1. PICK row \in GoodRows : row = page[i]
      BY <1>1, <1>2 DEF ToSet
    <2>2. u[i] = Entry(row, "SENT")
      BY <1>3, <2>1
    <2> QED BY <2>1, <2>2, EntryGood, EntryRow
  <1>5. u \in Seq(GoodEntries) /\ Len(u) = n
    BY <1>3, <1>4
  <1>6. t = Reverse(u)
    BY <1>1, <1>2, <1>3
  <1>7. t = [i \in 1..n |-> u[(n - i) + 1]]
    BY <1>5, <1>6 DEF Reverse
  <1>8. \A i \in 1..n : (n - i) + 1 \in 1..n /\ t[i] = u[(n - i) + 1]
    BY <1>7
  <1>9. t \in Seq(GoodEntries) /\ DOMAIN t = 1..n
    BY <1>4, <1>7, <1>8
  <1>10. \A i, j \in 1..n : page[i].note = page[j].note => i = j
    BY <1>1, <1>2 DEF Unique
  <1>11. Unique(t)
    <2> SUFFICES ASSUME NEW i \in 1..n, NEW j \in 1..n, t[i].note = t[j].note PROVE i = j
      BY <1>9 DEF Unique
    <2>1. PICK k \in 1..n, l \in 1..n : k = (n - i) + 1 /\ l = (n - j) + 1
      BY <1>8
    <2>2. page[k].note = page[l].note
      BY <2>1, <1>4, <1>8
    <2>3. k = l
      BY <2>2, <1>10
    <2> QED BY <2>1, <2>3
  <1>12. t \in Seq(Entries)
    <2>1. \A i \in 1..n : t[i] \in Entries
      BY <1>9 DEF GoodEntries
    <2>2. t = [i \in 1..n |-> t[i]]
      BY <1>9
    <2> QED BY <2>1, <2>2
  <1> QED BY <1>9, <1>11, <1>12 DEF IsList, ToSet

LEMMA Loads ==
  ASSUME ChatInv, Loaded, UNCHANGED requestVars
  PROVE  ChatInv'
  <1> USE DEF ChatInv
  <1>0. StoreInv' /\ RoomInv' /\ Grows
    BY SameStore DEF Loaded
  <1>1. UNCHANGED <<send, waits, recorded, told, events>>
    BY DEF Loaded, requestVars
  <1>2. PICK list : list = Reverse([i \in DOMAIN phone.page |-> Entry(phone.page[i], "SENT")])
    OBVIOUS
  <1>3. /\ DOMAIN phone' = DOMAIN phone /\ phone'.page = <<>>
        /\ phone'.list = list /\ phone'.pending = phone.pending
    BY <1>2 DEF Loaded, PhoneInv
  <1>4. IsList(list) /\ ToSet(list) \subseteq GoodEntries'
    BY <1>0, <1>2, PageShown, GoodStays DEF PhoneInv
  <1>5. PhoneInv'
    BY <1>0, <1>1, <1>3, <1>4, ListChanged DEF PhoneInv
  <1> QED BY <1>0, <1>1, <1>5, SameSends

LEMMA Refreshes ==
  ASSUME ChatInv, RefreshLatest, UNCHANGED requestVars
  PROVE  ChatInv'
  <1> USE DEF ChatInv
  <1>0. StoreInv' /\ RoomInv' /\ Grows
    BY SameStore DEF RefreshLatest
  <1>1. UNCHANGED <<send, waits, recorded, told, events>>
    BY DEF RefreshLatest, requestVars
  <1>2. PICK page : page = Page
    OBVIOUS
  <1>3. page \in Seq(Rows) /\ ToSet(page) \subseteq GoodRows
    BY <1>2, PageIs
  <1>4. PICK list : list = Merged(phone.list, page)
    OBVIOUS
  <1>5. /\ DOMAIN phone' = DOMAIN phone /\ phone'.page = phone.page
        /\ phone'.list = list /\ phone'.pending = phone.pending
    BY <1>2, <1>4 DEF RefreshLatest, PhoneInv
  <1>6. {Entry(page[k], "SENT") : k \in DOMAIN page} \subseteq GoodEntries
    BY <1>3, EntryGood DEF ToSet
  <1>7. IsList(list) /\ ToSet(list) \subseteq GoodEntries'
    BY <1>0, <1>3, <1>4, <1>6, MergedList, GoodStays DEF PhoneInv
  <1>8. PhoneInv'
    BY <1>0, <1>1, <1>5, <1>7, ListChanged DEF PhoneInv
  <1> QED BY <1>0, <1>1, <1>8, SameSends

LEMMA Writes ==
  ASSUME ChatInv, NEW t \in Texts, NEW c \in Calls, Write(t, c), UNCHANGED requestVars
  PROVE  ChatInv'
  <1> USE DEF ChatInv
  <1>0. StoreInv' /\ RoomInv' /\ Grows
    BY SameStore DEF Write
  <1>1. /\ UNCHANGED <<events, recorded, told>> /\ waits' = waits \cup {c}
        /\ \A i \in DOMAIN phone.list : phone.list[i].note # t
        /\ StartSend(c, t, "SEND")
    BY DEF Write, requestVars
  <1>2. SendInv'
    <2>1. t \in AllNotes
      BY DEF AllNotes, Notes
    <2>2. PICK row : send' = [send EXCEPT ![c] = row] /\ SendRow(row)' /\ row.note = t
      BY <1>1, <2>1, Started
    <2> QED BY <2>2, <1>0, <1>1, SendChanged DEF SendInv, Grows
  <1>3. PICK m : m = Local(t)
    OBVIOUS
  <1>4. m \in Entries /\ m.note = t /\ ~m.id /\ ~m.read
    BY <1>3 DEF Local, Entry, Entries, AllNotes, Notes
  <1>5. m \in GoodEntries
    BY <1>4 DEF GoodEntries
  <1>6. PICK list : list = <<m>> \o phone.list
    OBVIOUS
  <1>7. /\ DOMAIN phone' = DOMAIN phone /\ phone'.page = phone.page
        /\ phone'.list = list /\ phone'.pending = phone.pending \cup {t}
    BY <1>3, <1>6 DEF Write, PhoneInv
  <1>8. IsList(list) /\ ToSet(list) \subseteq ToSet(phone.list) \cup {m}
    BY <1>1, <1>4, <1>6, PrependedList DEF PhoneInv
  <1>9. ToSet(list) \subseteq GoodEntries'
    BY <1>0, <1>5, <1>8, GoodStays DEF PhoneInv
  <1>10. PhoneInv'
    BY <1>0, <1>1, <1>7, <1>8, <1>9, ListChanged DEF PhoneInv
  <1> QED BY <1>0, <1>2, <1>10

(* An entry whose state alone changes stays good. *)
LEMMA StateGood ==
  ASSUME NEW s, IsList(s), ToSet(s) \subseteq GoodEntries, NEW n,
         NEW state \in {"SENDING", "SENT", "FAILED"}, NEW t, t = SetState(s, n, state)
  PROVE  IsList(t) /\ ToSet(t) \subseteq GoodEntries
  <1>1. /\ IsList(t) /\ DOMAIN t = DOMAIN s
        /\ \A i \in DOMAIN s : /\ t[i].note = s[i].note /\ t[i].plain = s[i].plain
                               /\ t[i].read = s[i].read /\ t[i].id = s[i].id
    BY StateSet
  <1>2. \A i \in DOMAIN t : t[i] \in Entries
    BY <1>1 DEF IsList
  <1>3. \A i \in DOMAIN t : t[i] \in GoodEntries
    BY <1>1, <1>2 DEF GoodEntries, ToSet
  <1> QED BY <1>1, <1>3 DEF ToSet

LEMMA Retries ==
  ASSUME ChatInv, NEW t \in Texts, NEW c \in Calls, Retry(t, c), UNCHANGED requestVars
  PROVE  ChatInv'
  <1> USE DEF ChatInv
  <1>0. StoreInv' /\ RoomInv' /\ Grows
    BY SameStore DEF Retry
  <1>1. /\ UNCHANGED <<events, recorded, told>> /\ waits' = waits \cup {c}
        /\ StartSend(c, t, "SEND")
    BY DEF Retry, requestVars
  <1>2. SendInv'
    <2>1. t \in AllNotes
      BY DEF AllNotes, Notes
    <2>2. PICK row : send' = [send EXCEPT ![c] = row] /\ SendRow(row)' /\ row.note = t
      BY <1>1, <2>1, Started
    <2> QED BY <2>2, <1>0, <1>1, SendChanged DEF SendInv, Grows
  <1>3. PICK list : list = SetState(phone.list, t, "SENDING")
    OBVIOUS
  <1>4. /\ DOMAIN phone' = DOMAIN phone /\ phone'.page = phone.page
        /\ phone'.list = list /\ phone'.pending = phone.pending
    BY <1>3 DEF Retry, PhoneInv
  <1>5. IsList(list) /\ ToSet(list) \subseteq GoodEntries'
    BY <1>0, <1>3, StateGood, GoodStays DEF PhoneInv
  <1>6. PhoneInv'
    BY <1>0, <1>1, <1>4, <1>5, ListChanged DEF PhoneInv
  <1> QED BY <1>0, <1>2, <1>6

(* A call that ends. *)
LEMMA Forgotten ==
  ASSUME SendInv, Grows, NEW c \in Calls, send' = [send EXCEPT ![c] = NoSend],
         waits' \subseteq waits \ {c}, recorded => recorded',
         recorded' => Offered \in InStore', told' => recorded'
  PROVE  SendInv'
  <1>1. PICK row : row = NoSend
    OBVIOUS
  <1>2. row \in Sends /\ row.step = "IDLE" /\ row.plain = FALSE
    BY <1>1 DEF NoSend, Sends, SendSteps
  <1>3. SendRow(row)'
    BY <1>2 DEF SendRow
  <1> QED BY <1>1, <1>3, SendChanged

LEMMA Delivers ==
  ASSUME ChatInv, NEW c \in Calls, Delivered(c), UNCHANGED requestVars
  PROVE  ChatInv'
  <1> USE DEF ChatInv
  <1>0. StoreInv' /\ RoomInv' /\ Grows
    BY SameStore DEF Delivered
  <1>1. /\ UNCHANGED <<events, recorded, told>> /\ waits' = waits \ {c}
        /\ c \in waits /\ send[c].step = "DONE" /\ send' = [send EXCEPT ![c] = NoSend]
    BY DEF Delivered, requestVars
  <1>2. SendInv'
    BY <1>0, <1>1, Forgotten DEF SendInv, Grows
  <1>3. PICK t \in Texts : t = send[c].note /\ t \in InStore
    BY <1>1 DEF SendInv
  <1>4. PICK k \in DOMAIN stored : k = Number(t) /\ stored[k].note = t
    BY <1>3, NumberIs
  <1>5. PICK read \in {FALSE, stored[k].read} :
          phone' = [phone EXCEPT
             !.list = Upsert(@, [note |-> t, plain |-> TRUE, read |-> read]),
             !.pending = @ \ {t}]
    BY <1>3, <1>4 DEF Delivered
  <1>6. PICK row : row = [note |-> t, plain |-> TRUE, read |-> read]
    OBVIOUS
  <1>7. row \in Rows /\ row.note = t /\ row.plain = TRUE /\ row.read = read
    <2>1. stored[k] \in Rows
      BY DEF StoreInv
    <2> QED BY <2>1, <1>5, <1>6 DEF Rows, AllNotes, Notes
  <1>8. row.read => t \in InRoom
    BY <1>4, <1>5, <1>7 DEF StoreInv
  <1>9. PICK m : m = Entry(row, "SENT")
    OBVIOUS
  <1>10. m \in Entries /\ m.note = t /\ m.read = row.read
    BY <1>7, <1>9, EntryRow
  <1>11. m \in GoodEntries
    BY <1>3, <1>8, <1>10 DEF GoodEntries
  <1>12. PICK list : list = Upsert(phone.list, row)
    OBVIOUS
  <1>13. /\ DOMAIN phone' = DOMAIN phone /\ phone'.page = phone.page
         /\ phone'.list = list /\ phone'.pending = phone.pending \ {t}
    BY <1>5, <1>6, <1>12 DEF PhoneInv
  <1>14. IsList(list) /\ ToSet(list) \subseteq ToSet(phone.list) \cup {m}
    BY <1>7, <1>9, <1>12, Upserted DEF PhoneInv
  <1>15. ToSet(list) \subseteq GoodEntries'
    BY <1>0, <1>11, <1>14, GoodStays DEF PhoneInv
  <1>16. PhoneInv'
    BY <1>0, <1>1, <1>13, <1>14, <1>15, ListChanged DEF PhoneInv
  <1> QED BY <1>0, <1>2, <1>16

LEMMA Undelivered ==
  ASSUME ChatInv, NEW c \in Calls, NotDelivered(c), UNCHANGED requestVars
  PROVE  ChatInv'
  <1> USE DEF ChatInv
  <1>0. StoreInv' /\ RoomInv' /\ Grows
    BY SameStore DEF NotDelivered
  <1>1. /\ UNCHANGED <<events, recorded, told>> /\ waits' = waits \ {c}
        /\ send' = [send EXCEPT ![c] = NoSend] \/ send' = send
    BY DEF NotDelivered, requestVars
  <1>2. SendInv'
    <2>1. CASE send' = [send EXCEPT ![c] = NoSend]
      BY <2>1, <1>0, <1>1, Forgotten DEF SendInv, Grows
    <2>2. CASE send' = send
      BY <2>2, <1>0, <1>1 DEF SendInv, Grows
    <2> QED BY <1>1, <2>1, <2>2
  <1>3. PICK list : list = SetState(phone.list, send[c].note, "FAILED")
    OBVIOUS
  <1>4. /\ DOMAIN phone' = DOMAIN phone /\ phone'.page = phone.page
        /\ phone'.list = list /\ phone'.pending = phone.pending
    BY <1>3 DEF NotDelivered, PhoneInv
  <1>5. IsList(list) /\ ToSet(list) \subseteq GoodEntries'
    BY <1>0, <1>3, StateGood, GoodStays DEF PhoneInv
  <1>6. PhoneInv'
    BY <1>0, <1>1, <1>4, <1>5, ListChanged DEF PhoneInv
  <1> QED BY <1>0, <1>2, <1>6

(* Every call goes on as it was, or ends. *)
LEMMA SomeEnd ==
  ASSUME SendInv, Grows, waits' = {}, UNCHANGED <<recorded, told>>,
         send' = [c \in Calls |-> send'[c]],
         \A c \in Calls : send'[c] = send[c] \/ send'[c] = NoSend
  PROVE  SendInv'
  <1>1. PICK row : row = NoSend
    OBVIOUS
  <1>2. row \in Sends /\ row.step = "IDLE" /\ row.plain = FALSE
    BY <1>1 DEF NoSend, Sends, SendSteps
  <1>3. \A c \in Calls : send'[c] \in Sends
    BY <1>1, <1>2 DEF SendInv
  <1>4. send' \in [Calls -> Sends]
    BY <1>3
  <1>5. ASSUME NEW c \in Calls
        PROVE  /\ send'[c].step # "IDLE" => send'[c].note \in AllNotes
               /\ send'[c].step \in {"TELL", "DONE", "NOTIFY"} => send'[c].note \in InStore'
               /\ send'[c].step \in {"OPEN_CHAT", "NOTIFY"} => send'[c].note = Offered
               /\ send'[c].step = "NOTIFY" => recorded'
               /\ send'[c].plain => paid'.ever
    <2>1. CASE send'[c] = row
      BY <2>1, <1>2
    <2>2. CASE send'[c] = send[c]
      BY <2>2 DEF SendInv, Grows
    <2> QED BY <1>1, <2>1, <2>2
  <1>6. (recorded' => Offered \in InStore') /\ (told' => recorded')
    BY DEF SendInv, Grows
  <1> QED BY <1>4, <1>5, <1>6 DEF SendInv

LEMMA Closes ==
  ASSUME ChatInv, CloseChat, UNCHANGED requestVars
  PROVE  ChatInv'
  <1> USE DEF ChatInv
  <1>0. StoreInv' /\ RoomInv' /\ Grows
    BY SameStore DEF CloseChat
  <1>1. /\ UNCHANGED <<events, recorded, told>> /\ waits' = {}
        /\ send' = [c \in Calls |-> IF send[c].step = "DONE" THEN NoSend ELSE send[c]]
    BY DEF CloseChat, requestVars
  <1>2. SendInv'
    BY <1>0, <1>1, SomeEnd
  <1>3. PICK list : list = <<>>
    OBVIOUS
  <1>4. DOMAIN list = {} /\ list \in Seq(Entries)
    BY <1>3
  <1>5. /\ DOMAIN phone' = DOMAIN phone /\ phone'.page = <<>>
        /\ phone'.list = list /\ phone'.pending = {}
    BY <1>3 DEF CloseChat, PhoneInv
  <1>6. IsList(list) /\ ToSet(list) \subseteq GoodEntries'
    BY <1>4 DEF IsList, Unique, ToSet
  <1>7. PhoneInv'
    BY <1>0, <1>1, <1>5, <1>6, ListChanged DEF PhoneInv
  <1> QED BY <1>0, <1>2, <1>7

LEMMA Crashes ==
  ASSUME ChatInv, Crash, UNCHANGED requestVars
  PROVE  ChatInv'
  <1> USE DEF ChatInv
  <1>0. StoreInv' /\ RoomInv' /\ Grows
    BY SameStore DEF Crash
  <1>1. /\ UNCHANGED <<events, recorded, told>> /\ waits' = {}
        /\ send' = [c \in Calls |-> NoSend]
    BY DEF Crash, requestVars
  <1>2. SendInv'
    BY <1>0, <1>1, SomeEnd
  <1>3. PICK s : s = phone.list /\ IsList(s) /\ \A i \in DOMAIN s : s[i] \in GoodEntries
    BY DEF PhoneInv, ToSet
  <1>4. PICK list : list = [i \in DOMAIN s |->
          IF s[i].state = "SENDING" THEN [s[i] EXCEPT !.state = "FAILED"] ELSE s[i]]
    OBVIOUS
  <1>5. /\ DOMAIN phone' = DOMAIN phone /\ phone'.page = phone.page
        /\ phone'.list = list /\ phone'.pending = phone.pending
    BY <1>3, <1>4 DEF Crash, PhoneInv
  <1>6. \A i \in DOMAIN s : list[i] \in GoodEntries /\ list[i].note = s[i].note
    BY <1>3, <1>4 DEF GoodEntries, Entries
  <1>7. list = [i \in DOMAIN s |-> list[i]] /\ DOMAIN list = DOMAIN s
    BY <1>4
  <1>8. \A i \in DOMAIN s : list[i] \in Entries
    BY <1>6 DEF GoodEntries
  <1>9. IsList(list)
    BY <1>3, <1>6, <1>7, <1>8, Remade
  <1>10. ToSet(list) \subseteq GoodEntries'
    BY <1>0, <1>6, <1>7, GoodStays DEF ToSet
  <1>11. PhoneInv'
    BY <1>0, <1>1, <1>5, <1>9, <1>10, ListChanged DEF PhoneInv
  <1> QED BY <1>0, <1>2, <1>11

LEMMA Replying ==
  ASSUME ChatInv, NEW c \in Calls, NEW r \in Replies, Reply(r, c), UNCHANGED requestVars
  PROVE  ChatInv'
  <1> USE DEF ChatInv
  <1>0. StoreInv' /\ RoomInv' /\ Grows
    BY SameStore DEF Reply
  <1>1. UNCHANGED <<events, phone, waits, recorded, told>> /\ StartSend(c, r, "SEND")
    BY DEF Reply, requestVars
  <1>2. r \in AllNotes
    BY DEF AllNotes, Notes
  <1>3. PICK row : send' = [send EXCEPT ![c] = row] /\ SendRow(row)' /\ row.note = r
    BY <1>1, <1>2, Started
  <1>4. c \notin waits
    <2>1. send[c].note = None
      BY <1>1 DEF StartSend, NoSend
    <2> QED BY <2>1, ChatAssumption DEF SendInv
  <1>5. SendInv'
    BY <1>0, <1>1, <1>3, <1>4, SendChanged DEF SendInv, Grows
  <1> QED BY <1>0, <1>1, <1>5, SamePhone

----------------------------------------------------------------------------
(* The request.                                                            *)
LEMMA SameChat ==
  ASSUME ChatInv, UNCHANGED <<stored, paid, room, events, phone>>, SendInv'
  PROVE  ChatInv'
  BY SameStore, SamePhone DEF ChatInv

LEMMA Responds ==
  ASSUME ChatInv, NEW c \in Calls, Respond(c)
  PROVE  ChatInv'
  <1> USE DEF ChatInv
  <1>0. StoreInv' /\ RoomInv' /\ Grows
    BY SameStore DEF Respond
  <1>1. UNCHANGED <<stored, paid, room, events, phone, waits, recorded, told>>
        /\ StartSend(c, Offered, "OPEN_CHAT")
    BY DEF Respond, requestVars
  <1>2. Offered \in AllNotes
    BY DEF AllNotes
  <1>3. PICK row : send' = [send EXCEPT ![c] = row] /\ SendRow(row)' /\ row.note = Offered
    BY <1>1, <1>2, Started
  <1>4. c \notin waits
    <2>1. send[c].note = None
      BY <1>1 DEF StartSend, NoSend
    <2> QED BY <2>1, ChatAssumption DEF SendInv
  <1>5. SendInv'
    BY <1>0, <1>1, <1>3, <1>4, SendChanged DEF SendInv, Grows
  <1> QED BY <1>1, <1>5, SameChat

LEMMA OpensForLender ==
  ASSUME ChatInv, NEW c \in Calls, OpenForLender(c)
  PROVE  ChatInv'
  <1> USE DEF ChatInv
  <1>0. StoreInv' /\ RoomInv' /\ Grows
    BY SameStore DEF OpenForLender
  <1>1. UNCHANGED <<stored, paid, room, events, phone, waits, recorded, told>>
        /\ send[c].step = "OPEN_CHAT"
    BY DEF OpenForLender, requestVars
  <1>2. c \notin waits /\ send[c].note = Offered
    BY <1>1, RequestsAssumption DEF SendInv
  <1>3. CASE blocked
    <2>1. send' = [send EXCEPT ![c] = NoSend]
      BY <1>3 DEF OpenForLender
    <2> QED BY <2>1, <1>0, <1>1, <1>2, Forgotten, SameChat DEF SendInv, Grows
  <1>4. CASE ~blocked
    <2>1. PICK row : row = [send[c] EXCEPT !.step = "STORE", !.plain = paid.now]
      OBVIOUS
    <2>2. /\ row \in Sends /\ row.step = "STORE" /\ row.note = Offered
          /\ row.plain => paid.ever
      BY <2>1, <1>2, SendIs DEF Sends, SendSteps, StoreInv
    <2>3. send' = [send EXCEPT ![c] = row]
      BY <1>4, <2>1 DEF OpenForLender, SendInv
    <2>4. SendRow(row)'
      BY <2>2, <1>1, <1>0 DEF SendRow, Grows, AllNotes
    <2> QED BY <2>2, <2>3, <2>4, <1>0, <1>1, <1>2, SendChanged, SameChat DEF SendInv, Grows
  <1> QED BY <1>3, <1>4

LEMMA Records ==
  ASSUME ChatInv, NEW c \in Calls, Record(c)
  PROVE  ChatInv'
  <1> USE DEF ChatInv
  <1>0. StoreInv' /\ RoomInv' /\ Grows
    BY SameStore DEF Record
  <1>1. /\ UNCHANGED <<stored, paid, room, events, phone, waits, told>>
        /\ recorded' = TRUE /\ Sent(c) /\ send[c].note = Offered /\ Step(c, "NOTIFY")
    BY DEF Record, requestVars
  <1>2. Offered \in InStore
    BY <1>1 DEF Sent, SendInv
  <1>3. PICK row : /\ row = [send[c] EXCEPT !.step = "NOTIFY"] /\ row \in Sends
                   /\ row.step = "NOTIFY" /\ row.note = send[c].note /\ row.plain = send[c].plain
    BY Stepped DEF SendSteps
  <1>4. send' = [send EXCEPT ![c] = row]
    BY <1>1, <1>3 DEF Step, SendInv
  <1>5. SendRow(row)'
    BY <1>0, <1>1, <1>2, <1>3, SendIs DEF SendRow, Grows, AllNotes
  <1>6. SendInv'
    BY <1>0, <1>1, <1>2, <1>3, <1>4, <1>5, SendChanged DEF SendInv, Grows
  <1> QED BY <1>1, <1>6, SameChat

LEMMA Notifies ==
  ASSUME ChatInv, NEW c \in Calls, Notify(c)
  PROVE  ChatInv'
  <1> USE DEF ChatInv
  <1>0. StoreInv' /\ RoomInv' /\ Grows
    BY SameStore DEF Notify
  <1>1. /\ UNCHANGED <<stored, paid, room, events, phone, waits, recorded>>
        /\ told' = TRUE /\ send[c].step = "NOTIFY" /\ send' = [send EXCEPT ![c] = NoSend]
    BY DEF Notify, requestVars
  <1>2. recorded /\ c \notin waits
    BY <1>1, RequestsAssumption DEF SendInv
  <1>3. SendInv'
    BY <1>0, <1>1, <1>2, Forgotten DEF SendInv, Grows
  <1> QED BY <1>1, <1>3, SameChat

LEMMA Boards ==
  ASSUME ChatInv, Board, UNCHANGED chatVars
  PROVE  ChatInv'
  <1>1. UNCHANGED <<stored, paid, room, events, phone, send, waits, recorded, told>>
    BY DEF Board, StartClose, EndClose, AdminRemove, TimeIsOver, ExpireDue, chatVars
  <1>2. SendInv'
    BY <1>1, SameStore, SameSends DEF ChatInv
  <1> QED BY <1>1, <1>2, SameChat

LEMMA ChatSteps ==
  ASSUME ChatInv, ChatNext, UNCHANGED requestVars
  PROVE  ChatInv'
  <1>1. ASSUME NEW c \in Calls, Sending(c) PROVE ChatInv'
    BY <1>1, LooksUp, Stores, Tells DEF Sending
  <1>2. CASE OnTheApp
    BY <1>2, Writes, Retries, Delivers, Undelivered, Hears, Drops, Opens, Loads, Refreshes, Closes
       DEF OnTheApp
  <1>3. CASE InTheRoom
    BY <1>3, Polls, MarksRead, MarkingFails, Replying DEF InTheRoom
  <1>4. CASE BookingPaid \/ BookingCancelled
    BY <1>4, Pays
  <1>5. CASE Crash
    BY <1>5, Crashes
  <1> QED BY <1>1, <1>2, <1>3, <1>4, <1>5 DEF ChatNext

LEMMA TalkingSteps ==
  ASSUME ChatInv, Talking
  PROVE  ChatInv'
  <1>1. CASE ChatNext /\ UNCHANGED requestVars
    BY <1>1, ChatSteps
  <1>2. CASE Board /\ UNCHANGED chatVars
    BY <1>2, Boards
  <1>3. ASSUME NEW c \in Calls, RespondWith(c) \/ OpenForLender(c) \/ Record(c) \/ Notify(c)
        PROVE  ChatInv'
    BY <1>3, Responds, OpensForLender, Records, Notifies DEF RespondWith
  <1> QED BY <1>1, <1>2, <1>3 DEF Talking

(* A step of the listings or of the worker leaves the chat alone. *)
LEMMA ChatRests ==
  ASSUME ChatInv, UNCHANGED vars
  PROVE  ChatInv'
  <1>1. UNCHANGED <<stored, paid, room, events, phone, send, waits, recorded, told>>
    BY DEF vars
  <1>2. SendInv'
    BY <1>1, SameStore, SameSends DEF ChatInv
  <1> QED BY <1>1, <1>2, SameChat

LEMMA ChatStarts == Init => ChatInv
  <1> SUFFICES ASSUME Init PROVE ChatInv
    OBVIOUS
  <1>1. /\ stored = <<>> /\ paid = [now |-> FALSE, ever |-> FALSE]
        /\ send = [c \in Calls |-> NoSend] /\ waits = {} /\ events = {}
        /\ phone = [step |-> "OPEN", page |-> <<>>, list |-> <<>>, pending |-> {}]
        /\ room = [page |-> <<>>, last |-> None, mark |-> None]
        /\ recorded = FALSE /\ told = FALSE
    BY DEF Init, ChatInit
  <1>2. /\ \A S : <<>> \in Seq(S)
        /\ DOMAIN <<>> = {} /\ ToSet(<<>>) = {} /\ Unique(<<>>)
    BY DEF ToSet, Unique
  <1>3. StoreInv
    BY <1>1, <1>2 DEF StoreInv
  <1>4. RoomInv
    BY <1>1, <1>2 DEF RoomInv
  <1>5. SendInv
    <2>1. NoSend \in Sends /\ NoSend.step = "IDLE" /\ NoSend.plain = FALSE
      BY DEF NoSend, Sends, SendSteps
    <2> QED BY <1>1, <2>1 DEF SendInv
  <1>6. PhoneInv
    BY <1>1, <1>2 DEF PhoneInv, IsList
  <1> QED BY <1>3, <1>4, <1>5, <1>6 DEF ChatInv

LEMMA ChatHolds == DiscoverySpec => []ChatInv
  <1>1. DiscoveryInit => ChatInv
    BY ChatStarts DEF DiscoveryInit
  <1>2. ChatInv /\ [DiscoveryNext]_<<vars, listingVars, workerVars>> => ChatInv'
    BY TalkingSteps, ChatRests DEF DiscoveryNext
  <1> QED BY <1>1, <1>2, PTL DEF DiscoverySpec

(* A message is stored once and shows once on the app (messages.service    *)
(* send() and its unique clientId, chat_controller _upsert), whatever is    *)
(* retried, answered late, told twice or loaded again.                     *)
THEOREM EachMessageOnce == DiscoverySpec => []OnceEach
  <1>1. ChatInv => OnceEach
    BY DEF ChatInv, StoreInv, PhoneInv, IsList, Unique, OnceEach
  <1> QED BY <1>1, ChatHolds, PTL

(* The tick on the app means that the browser has shown the message, for   *)
(* any number of messages, calls and late events (markRead, _onEvent).     *)
THEOREM TickMeansSeen == DiscoverySpec => []ReadMeansSeen
  <1>1. ChatInv => ReadMeansSeen
    BY DEF ChatInv, PhoneInv, ReadMeansSeen, ToSet, GoodEntries
  <1> QED BY <1>1, ChatHolds, PTL

(* Neither side sees what the other typed unmasked before a booking of the *)
(* chat was paid for (send(), chat-presenter).                             *)
THEOREM NumbersStayMasked == DiscoverySpec => []MaskedUntilPaid
  <1>1. ASSUME ChatInv, ~paid.ever PROVE MaskedUntilPaid
    BY <1>1 DEF ChatInv, RoomInv, PhoneInv, MaskedUntilPaid, ToSet, GoodEntries
  <1>2. ChatInv => MaskedUntilPaid
    BY <1>1 DEF MaskedUntilPaid
  <1> QED BY <1>2, ChatHolds, PTL

(* An answer the board counts is in the chat, and a borrower who is told   *)
(* of one finds both (requests.service respond()).                         *)
THEOREM CountedAnswerIsThere == DiscoverySpec => []AnswersAreInChat
  <1>1. ChatInv => AnswersAreInChat
    BY DEF ChatInv, SendInv, AnswersAreInChat, Has, InStore
  <1> QED BY <1>1, ChatHolds, PTL

----------------------------------------------------------------------------
(* The listings, for any number of listings, photos and requests at once.  *)
(* FirstIsReviewed is not inductive by itself: a publication that counted  *)
(* an approved listing writes later, so what it found must still stand     *)
(* (CountStands), which it does because no step takes an approval back.    *)
(* PhotosCanBeLoaded rests on who holds which key: the key of a file that  *)
(* is about to be deleted is in no row, nor about to be (KeysOK).          *)
USE ListingsAssumption

ListingRows == [status : Statuses, approved : BOOLEAN, photos : SUBSET (Photos \cup Listings)]

Adding == {"PUT", "ROW"}

Taking == {"UNROW", "DELETE", "FILES"}

Deciding == {"UPDATE", "COUNT", "LIVE", "PENDING", "QUEUE"}

EditRows ==
  [step : {"IDLE"} \cup Adding \cup Taking \cup Deciding, listing : Listings \cup {""},
   photos : SUBSET (Photos \cup Listings)]

RowsOK ==
  /\ desk \in DeskRows
  /\ listing \in [Listings -> ListingRows]
  /\ edit \in [Edits -> EditRows]
  /\ \A e \in Edits : edit[e].step # "IDLE" => edit[e].listing \in Listings

CountStands == (\E e \in Edits : edit[e].step = "LIVE") => Trusted

(* New keys are nowhere, a row's keys are in no other row, what is being   *)
(* added is nobody else's, and what is being taken is in no other row, nor *)
(* in the listing's own once only the file is left.                        *)
KeysOK ==
  /\ \A l \in Listings : listing[l].photos \cap desk.adds = {}
  /\ \A e \in Edits : edit[e].photos \cap desk.adds = {}
  /\ \A l, m \in Listings : l # m => listing[l].photos \cap listing[m].photos = {}
  /\ \A e \in Edits : edit[e].step \in Adding =>
       /\ \A l \in Listings : listing[l].photos \cap edit[e].photos = {}
       /\ \A f \in Edits \ {e} : edit[f].photos \cap edit[e].photos = {}
  /\ \A e \in Edits : edit[e].step \in Taking =>
       \A l \in Listings : l # edit[e].listing \/ edit[e].step = "FILES" =>
         listing[l].photos \cap edit[e].photos = {}
  /\ \A e \in Edits : edit[e].step = "ROW" => edit[e].photos \subseteq files

ListingsInv == RowsOK /\ CountStands /\ FirstIsReviewed /\ KeysOK /\ PhotosCanBeLoaded

(* What the worker of the queue does, and whoever else there is.           *)
Elsewhere ==
  /\ UNCHANGED <<listing, files, edit>>
  /\ desk' \in DeskRows /\ desk'.adds = desk.adds

----------------------------------------------------------------------------
LEMMA NoEditRow == NoEdit \in EditRows /\ NoEdit.step = "IDLE" /\ NoEdit.photos = {}
  BY DEF NoEdit, EditRows

LEMMA Starting ==
  ASSUME RowsOK, NEW e \in Edits, NEW l \in Listings, NEW step \in Adding \cup Taking \cup Deciding,
         NEW photos \in SUBSET (Photos \cup Listings), Starts(e, l, step, photos)
  PROVE  /\ edit[e] = NoEdit
         /\ edit' \in [Edits -> EditRows]
         /\ edit'[e].step = step /\ edit'[e].listing = l /\ edit'[e].photos = photos
         /\ \A f \in Edits \ {e} : edit'[f] = edit[f]
         /\ \A f \in Edits : edit'[f].step # "IDLE" => edit'[f].listing \in Listings
  BY DEF Starts, RowsOK, EditRows

LEMMA Going ==
  ASSUME RowsOK, NEW e \in Edits, NEW step \in Adding \cup Taking \cup Deciding,
         edit[e].step # "IDLE", Goes(e, step)
  PROVE  /\ edit' \in [Edits -> EditRows]
         /\ edit'[e].step = step
         /\ edit'[e].listing = edit[e].listing /\ edit'[e].photos = edit[e].photos
         /\ \A f \in Edits \ {e} : edit'[f] = edit[f]
         /\ \A f \in Edits : edit'[f].step # "IDLE" => edit'[f].listing \in Listings
  BY DEF Goes, RowsOK, EditRows

LEMMA Ending ==
  ASSUME RowsOK, NEW e \in Edits, Ends(e)
  PROVE  /\ edit' \in [Edits -> EditRows]
         /\ edit'[e].step = "IDLE" /\ edit'[e].photos = {}
         /\ \A f \in Edits \ {e} : edit'[f] = edit[f]
         /\ \A f \in Edits : edit'[f].step # "IDLE" => edit'[f].listing \in Listings
  BY NoEditRow DEF Ends, RowsOK

(* A change of one row. *)
LEMMA StatusSet ==
  ASSUME RowsOK, NEW l \in Listings, NEW status \in Statuses, SetStatus(l, status)
  PROVE  /\ listing' \in [Listings -> ListingRows]
         /\ listing'[l].status = status
         /\ listing'[l].approved = listing[l].approved
         /\ listing'[l].photos = listing[l].photos
         /\ \A m \in Listings \ {l} : listing'[m] = listing[m]
  BY DEF SetStatus, RowsOK, ListingRows

LEMMA PhotosSet ==
  ASSUME RowsOK, NEW l \in Listings, NEW new \in SUBSET (Photos \cup Listings),
         listing' = [listing EXCEPT ![l].photos = @ \cup new]
  PROVE  /\ listing' \in [Listings -> ListingRows]
         /\ listing'[l].status = listing[l].status
         /\ listing'[l].approved = listing[l].approved
         /\ listing'[l].photos = listing[l].photos \cup new
         /\ \A m \in Listings \ {l} : listing'[m] = listing[m]
  BY DEF RowsOK, ListingRows

(* What may become of the statuses.                                        *)
LEMMA TrustStands ==
  ASSUME CountStands, FirstIsReviewed,
         \A l \in Listings : listing[l].approved => listing'[l].approved,
         \A l \in Listings : listing'[l].status \in {"LIVE", "PAUSED"} =>
           listing[l].status \in {"LIVE", "PAUSED"} \/ Trusted \/ listing'[l].approved,
         \A e \in Edits : edit'[e].step = "LIVE" => edit[e].step = "LIVE" \/ Trusted
  PROVE  CountStands' /\ FirstIsReviewed'
  <1>1. Trusted => Trusted'
    BY DEF Trusted
  <1>2. CountStands'
    BY <1>1 DEF CountStands
  <1>3. FirstIsReviewed'
    BY <1>1 DEF FirstIsReviewed, Trusted
  <1> QED BY <1>2, <1>3

(* Steps that touch no photo: requests go on to decide, or end.            *)
LEMMA KeysStand ==
  ASSUME KeysOK, PhotosCanBeLoaded, desk'.adds = desk.adds, files' = files,
         \A l \in Listings : listing'[l].photos = listing[l].photos,
         \A e \in Edits : \/ edit'[e] = edit[e]
                          \/ edit'[e].photos = {}
                          \/ edit'[e].photos = edit[e].photos /\ edit'[e].step \in Deciding
  PROVE  KeysOK' /\ PhotosCanBeLoaded'
  BY DEF KeysOK, PhotosCanBeLoaded, Adding, Taking, Deciding

----------------------------------------------------------------------------
(* Steps that touch no photo. *)
LEMMA LenderDecides ==
  ASSUME ListingsInv, NEW l \in Listings,
         \/ Create(l) \/ Pause(l) \/ Unpause(l)
         \/ \E e \in Edits : StartUpdate(e, l) \/ StartPublish(e, l)
  PROVE  ListingsInv'
  <1> USE DEF ListingsInv
  <1>1. CASE Create(l) \/ Pause(l) \/ Unpause(l)
    <2>1. PICK status : /\ status \in Statuses
                        /\ SetStatus(l, status)
                        /\ status \in {"LIVE", "PAUSED"} => listing[l].status \in {"LIVE", "PAUSED"}
      BY <1>1 DEF Create, Pause, Unpause, Guarded, Resumable, Statuses
    <2>2. UNCHANGED <<desk, files, edit>>
      BY <1>1 DEF Create, Pause, Unpause
    <2>3. RowsOK'
      BY <2>1, <2>2, StatusSet DEF RowsOK
    <2>4. CountStands' /\ FirstIsReviewed'
      <3>1. \A m \in Listings : listing'[m].approved = listing[m].approved
        BY <2>1, StatusSet
      <3>2. \A m \in Listings : listing'[m].status \in {"LIVE", "PAUSED"} =>
              listing[m].status \in {"LIVE", "PAUSED"}
        BY <2>1, StatusSet
      <3> QED BY <3>1, <3>2, <2>2, TrustStands
    <2>5. KeysOK' /\ PhotosCanBeLoaded'
      BY <2>1, <2>2, StatusSet, KeysStand
    <2> QED BY <2>3, <2>4, <2>5
  <1>2. ASSUME NEW e \in Edits, StartUpdate(e, l) \/ StartPublish(e, l) PROVE ListingsInv'
    <2>1. PICK step \in {"UPDATE", "COUNT"} : Starts(e, l, step, {})
      BY <1>2 DEF StartUpdate, StartPublish
    <2>2. UNCHANGED <<desk, listing, files>>
      BY <1>2 DEF StartUpdate, StartPublish
    <2>3. step \in Deciding
      BY DEF Deciding
    <2>4. /\ edit' \in [Edits -> EditRows]
          /\ edit'[e].step = step /\ edit'[e].photos = {}
          /\ \A f \in Edits \ {e} : edit'[f] = edit[f]
          /\ \A f \in Edits : edit'[f].step # "IDLE" => edit'[f].listing \in Listings
      BY <2>1, <2>3, Starting
    <2>5. RowsOK'
      BY <2>2, <2>4 DEF RowsOK
    <2>6. CountStands' /\ FirstIsReviewed'
      BY <2>2, <2>4, TrustStands
    <2>7. KeysOK' /\ PhotosCanBeLoaded'
      BY <2>2, <2>4, KeysStand
    <2> QED BY <2>5, <2>6, <2>7
  <1> QED BY <1>1, <1>2

LEMMA AdminDecides ==
  ASSUME ListingsInv, NEW l \in Listings,
         Reject(l) \/ Unpublish(l) \/ \E e \in Edits : Approve(e, l)
  PROVE  ListingsInv'
  <1> USE DEF ListingsInv
  <1>1. CASE Reject(l) \/ Unpublish(l)
    <2>1. PICK status \in {"REJECTED", "REMOVED"} : SetStatus(l, status)
      BY <1>1 DEF Reject, Unpublish, Guarded
    <2>2. UNCHANGED <<desk, files, edit>>
      BY <1>1 DEF Reject, Unpublish
    <2>3. status \in Statuses
      BY DEF Statuses
    <2>4. RowsOK'
      BY <2>1, <2>2, <2>3, StatusSet DEF RowsOK
    <2>5. CountStands' /\ FirstIsReviewed'
      <3>1. \A m \in Listings : /\ listing'[m].approved = listing[m].approved
                                /\ listing'[m].status \in {"LIVE", "PAUSED"} =>
                                     listing[m].status \in {"LIVE", "PAUSED"}
        BY <2>1, <2>3, StatusSet
      <3> QED BY <3>1, <2>2, TrustStands
    <2>6. KeysOK' /\ PhotosCanBeLoaded'
      BY <2>1, <2>2, <2>3, StatusSet, KeysStand
    <2> QED BY <2>4, <2>5, <2>6
  <1>2. ASSUME NEW e \in Edits, Approve(e, l) PROVE ListingsInv'
    <2>1. /\ listing' = [listing EXCEPT ![l].status = "LIVE", ![l].approved = TRUE]
          /\ Starts(e, l, "QUEUE", {})
          /\ UNCHANGED <<desk, files>>
      BY <1>2 DEF Approve
    <2>2. /\ listing' \in [Listings -> ListingRows]
          /\ listing'[l].approved /\ listing'[l].photos = listing[l].photos
          /\ \A m \in Listings \ {l} : listing'[m] = listing[m]
      <3>1. listing[l] \in ListingRows /\ listing \in [Listings -> ListingRows]
        BY DEF RowsOK
      <3>2. listing' = [listing EXCEPT ![l] = [listing[l] EXCEPT !.status = "LIVE", !.approved = TRUE]]
        BY <2>1, <3>1
      <3> HIDE DEF ListingsInv
      <3>3. [listing[l] EXCEPT !.status = "LIVE", !.approved = TRUE] \in ListingRows
        BY <3>1 DEF ListingRows, Statuses
      <3>4. listing'[l] = [listing[l] EXCEPT !.status = "LIVE", !.approved = TRUE]
        BY <3>1, <3>2
      <3>5. listing'[l].approved /\ listing'[l].photos = listing[l].photos
        BY <3>1, <3>4 DEF ListingRows
      <3> QED BY <3>1, <3>2, <3>3, <3>5
    <2>3. "QUEUE" \in Deciding
      BY DEF Deciding
    <2>4. /\ edit' \in [Edits -> EditRows]
          /\ edit'[e].step = "QUEUE" /\ edit'[e].photos = {}
          /\ \A f \in Edits \ {e} : edit'[f] = edit[f]
          /\ \A f \in Edits : edit'[f].step # "IDLE" => edit'[f].listing \in Listings
      BY <2>1, <2>3, Starting
    <2>5. RowsOK'
      BY <2>1, <2>2, <2>4 DEF RowsOK
    <2>6. CountStands' /\ FirstIsReviewed'
      BY <2>2, <2>4, TrustStands
    <2>7. KeysOK' /\ PhotosCanBeLoaded'
      BY <2>1, <2>2, <2>3, <2>4, KeysStand
    <2> QED BY <2>5, <2>6, <2>7
  <1> QED BY <1>1, <1>2

LEMMA DecisionGoesOn ==
  ASSUME ListingsInv, NEW e \in Edits,
         Update(e) \/ CountApproved(e) \/ Publish(e) \/ ListingLive(e)
  PROVE  ListingsInv'
  <1> USE DEF ListingsInv
  <1> DEFINE l == edit[e].listing
  <1>1. CASE Update(e)
    <2>1. l \in Listings /\ SetStatus(l, "DRAFT") /\ Ends(e) /\ UNCHANGED <<desk, files>>
      BY <1>1 DEF Update, At, RowsOK
    <2>2. "DRAFT" \in Statuses
      BY DEF Statuses
    <2>3. RowsOK'
      BY <2>1, <2>2, StatusSet, Ending DEF RowsOK
    <2>4. CountStands' /\ FirstIsReviewed'
      <3>1. \A m \in Listings : /\ listing'[m].approved = listing[m].approved
                                /\ listing'[m].status \in {"LIVE", "PAUSED"} =>
                                     listing[m].status \in {"LIVE", "PAUSED"}
        BY <2>1, <2>2, StatusSet
      <3>2. \A f \in Edits : edit'[f].step = "LIVE" => edit[f].step = "LIVE"
        BY <2>1, Ending
      <3> QED BY <3>1, <3>2, TrustStands
    <2>5. KeysOK' /\ PhotosCanBeLoaded'
      <3>1. \A m \in Listings : listing'[m].photos = listing[m].photos
        BY <2>1, <2>2, StatusSet
      <3>2. \A f \in Edits : edit'[f] = edit[f] \/ edit'[f].photos = {}
        BY <2>1, Ending
      <3> QED BY <2>1, <3>1, <3>2, KeysStand
    <2> QED BY <2>3, <2>4, <2>5
  <1>2. CASE CountApproved(e)
    <2>1. PICK step \in {"LIVE", "PENDING"} : Goes(e, step) /\ (step = "LIVE" => Trusted)
      BY <1>2 DEF CountApproved
    <2>2. edit[e].step # "IDLE" /\ UNCHANGED <<desk, listing, files>>
      BY <1>2 DEF CountApproved, At
    <2>3. step \in Deciding
      BY DEF Deciding
    <2>4. /\ edit' \in [Edits -> EditRows]
          /\ edit'[e].step = step /\ edit'[e].photos = edit[e].photos
          /\ \A f \in Edits \ {e} : edit'[f] = edit[f]
          /\ \A f \in Edits : edit'[f].step # "IDLE" => edit'[f].listing \in Listings
      BY <2>1, <2>2, <2>3, Going
    <2>5. RowsOK'
      BY <2>2, <2>4 DEF RowsOK
    <2>6. CountStands' /\ FirstIsReviewed'
      BY <2>1, <2>2, <2>4, TrustStands
    <2>7. KeysOK' /\ PhotosCanBeLoaded'
      BY <2>2, <2>3, <2>4, KeysStand
    <2> QED BY <2>5, <2>6, <2>7
  <1>3. CASE Publish(e)
    <2>1. /\ edit[e].step \in {"LIVE", "PENDING"} /\ l \in Listings
          /\ UNCHANGED <<desk, files>>
      BY <1>3 DEF Publish, RowsOK
    <2>2. Ends(e) \/ Goes(e, "QUEUE")
      BY <1>3 DEF Publish
    <2>3. "QUEUE" \in Deciding
      BY DEF Deciding
    <2>4. /\ edit' \in [Edits -> EditRows]
          /\ edit'[e].photos = {} \/ (edit'[e].photos = edit[e].photos /\ edit'[e].step \in Deciding)
          /\ edit'[e].step \in {"IDLE", "QUEUE"}
          /\ \A f \in Edits \ {e} : edit'[f] = edit[f]
          /\ \A f \in Edits : edit'[f].step # "IDLE" => edit'[f].listing \in Listings
      BY <2>1, <2>2, <2>3, Ending, Going
    <2>5. /\ listing' \in [Listings -> ListingRows]
          /\ \A m \in Listings : /\ listing'[m].photos = listing[m].photos
                                 /\ listing'[m].approved = listing[m].approved
                                 /\ listing'[m].status \in {"LIVE", "PAUSED"} =>
                                      listing[m].status \in {"LIVE", "PAUSED"} \/ Trusted
      <3>1. CASE UNCHANGED listing
        BY <3>1 DEF RowsOK
      <3>2. CASE SetStatus(l, edit[e].step)
        <4>1. edit[e].step \in Statuses
          BY <2>1 DEF Statuses
        <4>2. edit[e].step = "LIVE" => Trusted
          BY DEF CountStands
        <4> QED BY <2>1, <3>2, <4>1, <4>2, StatusSet
      <3> QED BY <1>3, <3>1, <3>2 DEF Publish
    <2>6. RowsOK'
      BY <2>1, <2>4, <2>5 DEF RowsOK
    <2>7. CountStands' /\ FirstIsReviewed'
      BY <2>4, <2>5, TrustStands
    <2>8. KeysOK' /\ PhotosCanBeLoaded'
      BY <2>1, <2>4, <2>5, KeysStand
    <2> QED BY <2>6, <2>7, <2>8
  <1>4. CASE ListingLive(e)
    <2>1. Ends(e) /\ UNCHANGED <<desk, listing, files>>
      BY <1>4 DEF ListingLive
    <2>2. RowsOK'
      BY <2>1, Ending DEF RowsOK
    <2>3. CountStands' /\ FirstIsReviewed'
      BY <2>1, Ending, TrustStands
    <2>4. KeysOK' /\ PhotosCanBeLoaded'
      BY <2>1, Ending, KeysStand
    <2> QED BY <2>2, <2>3, <2>4
  <1> QED BY <1>1, <1>2, <1>3, <1>4

----------------------------------------------------------------------------
(* Steps that move a photo.  Those that leave the rows' status as it is,   *)
(* or end a listing, change nothing of FirstIsReviewed.                    *)
LEMMA PhotosAdded ==
  ASSUME ListingsInv, NEW l \in Listings, NEW e \in Edits, NEW p \in Photos, StartAdd(e, l, p)
  PROVE  ListingsInv'
  <1> USE DEF ListingsInv
  <1>1. /\ p \in desk.adds /\ Starts(e, l, "PUT", {p})
        /\ desk' = [desk EXCEPT !.adds = @ \ {p}]
        /\ UNCHANGED <<listing, files>>
    BY DEF StartAdd, MayAdd
  <1>2. "PUT" \in Adding /\ "PUT" \notin Taking
    BY DEF Adding, Taking
  <1>3. /\ edit' \in [Edits -> EditRows]
        /\ edit'[e].step = "PUT" /\ edit'[e].photos = {p}
        /\ \A f \in Edits \ {e} : edit'[f] = edit[f]
        /\ \A f \in Edits : edit'[f].step # "IDLE" => edit'[f].listing \in Listings
    BY <1>1, <1>2, Starting
  <1>4. desk' \in DeskRows /\ desk'.adds = desk.adds \ {p}
    BY <1>1 DEF RowsOK, DeskRows
  <1>5. RowsOK'
    BY <1>1, <1>3, <1>4 DEF RowsOK
  <1>6. CountStands' /\ FirstIsReviewed'
    BY <1>1, <1>3, TrustStands
  <1>7. KeysOK' /\ PhotosCanBeLoaded'
    BY <1>1, <1>2, <1>3, <1>4 DEF KeysOK, PhotosCanBeLoaded
  <1> QED BY <1>5, <1>6, <1>7

LEMMA AddingGoesOn ==
  ASSUME ListingsInv, NEW e \in Edits, Put(e) \/ AddRow(e)
  PROVE  ListingsInv'
  <1> USE DEF ListingsInv
  <1>1. CASE Put(e)
    <2>1. /\ edit[e].step = "PUT" /\ Goes(e, "ROW")
          /\ files' = files \cup edit[e].photos /\ UNCHANGED <<desk, listing>>
      BY <1>1 DEF Put, At
    <2>2. "ROW" \in Adding /\ "PUT" \in Adding /\ "ROW" \notin Taking
      BY DEF Adding, Taking
    <2>3. /\ edit' \in [Edits -> EditRows]
          /\ edit'[e].step = "ROW" /\ edit'[e].photos = edit[e].photos
          /\ \A f \in Edits \ {e} : edit'[f] = edit[f]
          /\ \A f \in Edits : edit'[f].step # "IDLE" => edit'[f].listing \in Listings
      BY <2>1, <2>2, Going
    <2>4. RowsOK'
      BY <2>1, <2>3 DEF RowsOK
    <2>5. CountStands' /\ FirstIsReviewed'
      BY <2>1, <2>3, TrustStands
    <2>6. KeysOK' /\ PhotosCanBeLoaded'
      BY <2>1, <2>2, <2>3 DEF KeysOK, PhotosCanBeLoaded
    <2> QED BY <2>4, <2>5, <2>6
  <1>2. CASE AddRow(e)
    <2> DEFINE l == edit[e].listing
    <2>1. /\ edit[e].step = "ROW" /\ Ends(e) /\ l \in Listings
          /\ listing' = [listing EXCEPT ![l].photos = @ \cup edit[e].photos]
          /\ UNCHANGED <<desk, files>>
      BY <1>2 DEF AddRow, At, RowsOK
    <2>2. "ROW" \in Adding /\ "ROW" \notin Taking
      BY DEF Adding, Taking
    <2>3. /\ edit' \in [Edits -> EditRows]
          /\ edit'[e].step = "IDLE" /\ edit'[e].photos = {}
          /\ \A f \in Edits \ {e} : edit'[f] = edit[f]
          /\ \A f \in Edits : edit'[f].step # "IDLE" => edit'[f].listing \in Listings
      BY Ending, <2>1
    <2>4. edit[e].photos \in SUBSET (Photos \cup Listings)
      BY DEF RowsOK, EditRows
    <2>5. /\ listing' \in [Listings -> ListingRows]
          /\ listing'[l].status = listing[l].status
          /\ listing'[l].approved = listing[l].approved
          /\ listing'[l].photos = listing[l].photos \cup edit[e].photos
          /\ \A m \in Listings \ {l} : listing'[m] = listing[m]
      BY <2>1, <2>4, PhotosSet
    <2>6. RowsOK'
      BY <2>1, <2>3, <2>5 DEF RowsOK
    <2>7. CountStands' /\ FirstIsReviewed'
      <3>1. \A m \in Listings : /\ listing'[m].approved = listing[m].approved
                                /\ listing'[m].status = listing[m].status
        BY <2>5
      <3> QED BY <3>1, <2>3, TrustStands
    <2>8. "IDLE" \notin Adding \cup Taking
      BY DEF Adding, Taking
    <2> HIDE DEF l
    <2>9. KeysOK' /\ PhotosCanBeLoaded'
      BY <2>1, <2>2, <2>3, <2>5, <2>8 DEF KeysOK, PhotosCanBeLoaded
    <2> QED BY <2>6, <2>7, <2>9
  <1> QED BY <1>1, <1>2

LEMMA TakingStarts ==
  ASSUME ListingsInv, NEW l \in Listings, NEW e \in Edits,
         StartDelete(e, l) \/ \E p \in Photos \cup {l} : StartDeletePhoto(e, l, p)
  PROVE  ListingsInv'
  <1> USE DEF ListingsInv
  <1> SUFFICES ASSUME NEW step \in {"UNROW", "DELETE"},
                      NEW photos \in SUBSET listing[l].photos,
                      Starts(e, l, step, photos),
                      UNCHANGED <<desk, listing, files>>
               PROVE  ListingsInv'
    <2>1. CASE StartDelete(e, l)
      BY <2>1 DEF StartDelete
    <2>2. ASSUME NEW p \in Photos \cup {l}, StartDeletePhoto(e, l, p) PROVE ListingsInv'
      <3>1. {p} \in SUBSET listing[l].photos /\ Starts(e, l, "UNROW", {p})
            /\ UNCHANGED <<desk, listing, files>>
        BY <2>2 DEF StartDeletePhoto
      <3> QED BY <3>1
    <2> QED BY <2>1, <2>2
  <1>1. step \in Taking /\ step \notin Adding /\ step # "FILES"
    BY DEF Taking, Adding
  <1>2. photos \in SUBSET (Photos \cup Listings)
    BY DEF RowsOK, ListingRows
  <1>3. /\ edit' \in [Edits -> EditRows]
        /\ edit'[e].step = step /\ edit'[e].photos = photos /\ edit'[e].listing = l
        /\ \A f \in Edits \ {e} : edit'[f] = edit[f]
        /\ \A f \in Edits : edit'[f].step # "IDLE" => edit'[f].listing \in Listings
    BY <1>1, <1>2, Starting
  <1>4. RowsOK'
    BY <1>3 DEF RowsOK
  <1>5. CountStands' /\ FirstIsReviewed'
    BY <1>3, TrustStands
  <1>6. KeysOK' /\ PhotosCanBeLoaded'
    BY <1>1, <1>3 DEF KeysOK, PhotosCanBeLoaded
  <1> QED BY <1>4, <1>5, <1>6

LEMMA TakingGoesOn ==
  ASSUME ListingsInv, NEW e \in Edits, DeleteRow(e) \/ Delete(e) \/ DeleteFiles(e)
  PROVE  ListingsInv'
  <1> USE DEF ListingsInv
  <1> DEFINE l == edit[e].listing
  <1>1. CASE DeleteRow(e) \/ Delete(e)
    <2>1. /\ edit[e].step \in {"UNROW", "DELETE"} /\ l \in Listings
          /\ UNCHANGED <<desk, files>>
      BY <1>1 DEF DeleteRow, Delete, At, RowsOK
    <2>2. "FILES" \in Taking /\ "FILES" \notin Adding /\ edit[e].step \in Taking
      BY <2>1 DEF Taking, Adding
    <2>3. CASE Ends(e) /\ UNCHANGED listing
      <3>1. RowsOK'
        BY <2>1, <2>3, Ending DEF RowsOK
      <3>2. CountStands' /\ FirstIsReviewed'
        BY <2>3, Ending, TrustStands
      <3>3. KeysOK' /\ PhotosCanBeLoaded'
        BY <2>1, <2>3, Ending, KeysStand
      <3> QED BY <3>1, <3>2, <3>3
    <2>4. CASE Goes(e, "FILES") /\ (\E row \in ListingRows :
                 /\ row.photos \subseteq listing[l].photos \ edit[e].photos \/ row.photos = {}
                 /\ row.approved = listing[l].approved
                 /\ row.status \in {listing[l].status, "DELETED"}
                 /\ listing' = [listing EXCEPT ![l] = row])
      <3>1. /\ edit' \in [Edits -> EditRows]
            /\ edit'[e].step = "FILES"
            /\ edit'[e].photos = edit[e].photos /\ edit'[e].listing = l
            /\ \A f \in Edits \ {e} : edit'[f] = edit[f]
            /\ \A f \in Edits : edit'[f].step # "IDLE" => edit'[f].listing \in Listings
        BY <2>1, <2>2, <2>4, Going
      <3>2. /\ listing' \in [Listings -> ListingRows]
            /\ listing'[l].photos \subseteq listing[l].photos
            /\ listing'[l].photos \cap edit[e].photos = {}
            /\ listing'[l].approved = listing[l].approved
            /\ listing'[l].status \in {listing[l].status, "DELETED"}
            /\ \A m \in Listings \ {l} : listing'[m] = listing[m]
        BY <2>1, <2>4 DEF RowsOK
      <3>3. RowsOK'
        BY <2>1, <3>1, <3>2 DEF RowsOK
      <3>4. CountStands' /\ FirstIsReviewed'
        <4>1. \A m \in Listings : /\ listing'[m].approved = listing[m].approved
                                  /\ listing'[m].status \in {listing[m].status, "DELETED"}
          BY <3>2
        <4> QED BY <4>1, <3>1, TrustStands
      <3>5. \A m \in Listings : listing'[m].photos \subseteq listing[m].photos
        BY <3>2
      <3>6. \A f \in Edits : /\ edit'[f].photos = edit[f].photos
                             /\ edit'[f].listing = edit[f].listing
                             /\ edit'[f].step \in Adding => edit[f] = edit'[f]
                             /\ edit'[f].step = edit[f].step \/ (f = e /\ edit'[f].step = "FILES")
        BY <2>2, <3>1
      <3>7. \A m \in Listings : listing'[m].photos \cap edit[e].photos = {}
        <4>1. \A m \in Listings \ {l} : listing[m].photos \cap edit[e].photos = {}
          BY <2>2 DEF KeysOK
        <4> QED BY <3>2, <4>1
      <3> HIDE DEF l
      <3>8. KeysOK'
        <4>1. \A f \in Edits : edit'[f].step \in Adding =>
                 \A m \in Listings : listing'[m].photos \cap edit'[f].photos = {}
          BY <3>5, <3>6 DEF KeysOK
        <4>2. \A f \in Edits : edit'[f].step \in Adding =>
                 \A g \in Edits \ {f} : edit'[g].photos \cap edit'[f].photos = {}
          BY <3>6 DEF KeysOK
        <4>3. \A f \in Edits : edit'[f].step \in Taking =>
                 \A m \in Listings : m # edit'[f].listing \/ edit'[f].step = "FILES" =>
                   listing'[m].photos \cap edit'[f].photos = {}
          <5>1. ASSUME NEW f \in Edits \ {e}, edit'[f].step \in Taking, NEW m \in Listings,
                       m # edit'[f].listing \/ edit'[f].step = "FILES"
                PROVE  listing'[m].photos \cap edit'[f].photos = {}
            <6>1. edit[f].step = edit'[f].step
              BY <3>6, <5>1
            <6>2. listing[m].photos \cap edit[f].photos = {}
              BY <3>6, <5>1, <6>1 DEF KeysOK
            <6> QED BY <3>5, <3>6, <5>1, <6>2
          <5>2. edit'[e].photos = edit[e].photos
            BY <3>6
          <5> QED BY <3>7, <5>1, <5>2
        <4>4. /\ \A m \in Listings : listing'[m].photos \cap desk'.adds = {}
              /\ \A f \in Edits : edit'[f].photos \cap desk'.adds = {}
              /\ \A m, n \in Listings : m # n => listing'[m].photos \cap listing'[n].photos = {}
          BY <2>1, <3>5, <3>6 DEF KeysOK
        <4>5. \A f \in Edits : edit'[f].step = "ROW" => edit'[f].photos \subseteq files'
          BY <2>1, <3>6 DEF KeysOK, Adding
        <4> QED BY <4>1, <4>2, <4>3, <4>4, <4>5 DEF KeysOK
      <3>9. PhotosCanBeLoaded'
        BY <2>1, <3>5 DEF PhotosCanBeLoaded
      <3> QED BY <3>3, <3>4, <3>8, <3>9
    <2>5. listing[l] \in ListingRows
      BY <2>1 DEF RowsOK
    <2>6. CASE DeleteRow(e)
      <3>1. CASE edit[e].photos \subseteq listing[l].photos
        <4> DEFINE row == [listing[l] EXCEPT !.photos = @ \ edit[e].photos]
        <4>1. listing' = [listing EXCEPT ![l] = row] /\ Goes(e, "FILES")
          BY <2>6, <3>1 DEF DeleteRow
        <4>2. /\ row \in ListingRows /\ row.photos = listing[l].photos \ edit[e].photos
              /\ row.approved = listing[l].approved /\ row.status = listing[l].status
          BY <2>5 DEF ListingRows
        <4> HIDE DEF row
        <4> QED BY <4>1, <4>2, <2>4
      <3>2. CASE ~ (edit[e].photos \subseteq listing[l].photos)
        BY <2>3, <2>6, <3>2 DEF DeleteRow
      <3> QED BY <3>1, <3>2
    <2>7. CASE Delete(e)
      <3>1. listing' = [listing EXCEPT ![l] = Removed(l)] /\ Goes(e, "FILES")
        BY <2>7 DEF Delete
      <3>2. /\ Removed(l) \in ListingRows /\ Removed(l).photos = {}
            /\ Removed(l).approved = listing[l].approved /\ Removed(l).status = "DELETED"
        BY <2>5 DEF ListingRows, Removed, Statuses
      <3> QED BY <3>1, <3>2, <2>4
    <2> QED BY <1>1, <2>6, <2>7
  <1>2. CASE DeleteFiles(e)
    <2>1. /\ edit[e].step = "FILES" /\ Ends(e)
          /\ files' = files \ edit[e].photos /\ UNCHANGED <<desk, listing>>
      BY <1>2 DEF DeleteFiles, At
    <2>2. "FILES" \in Taking /\ "FILES" \notin Adding /\ "IDLE" \notin Adding \cup Taking
          /\ "ROW" \in Adding
      BY DEF Taking, Adding
    <2>3. /\ edit' \in [Edits -> EditRows]
          /\ edit'[e].step = "IDLE" /\ edit'[e].photos = {}
          /\ \A f \in Edits \ {e} : edit'[f] = edit[f]
          /\ \A f \in Edits : edit'[f].step # "IDLE" => edit'[f].listing \in Listings
      BY <2>1, Ending
    <2>4. RowsOK'
      BY <2>1, <2>3 DEF RowsOK
    <2>5. CountStands' /\ FirstIsReviewed'
      BY <2>1, <2>3, TrustStands
    <2>6. KeysOK' /\ PhotosCanBeLoaded'
      BY <2>1, <2>2, <2>3 DEF KeysOK, PhotosCanBeLoaded
    <2> QED BY <2>4, <2>5, <2>6
  <1> QED BY <1>1, <1>2

LEMMA StoppingKeeps ==
  ASSUME ListingsInv, NEW e \in Edits, RequestStops(e)
  PROVE  ListingsInv'
  <1> USE DEF ListingsInv
  <1>1. /\ Ends(e) /\ UNCHANGED <<listing, files>>
        /\ desk' = [desk EXCEPT !.crashes = @ - 1] /\ desk.crashes > 0
    BY DEF RequestStops
  <1>2. desk' \in DeskRows /\ desk'.adds = desk.adds
    BY <1>1 DEF RowsOK, DeskRows
  <1>3. RowsOK'
    BY <1>1, <1>2, Ending DEF RowsOK
  <1>4. CountStands' /\ FirstIsReviewed'
    BY <1>1, Ending, TrustStands
  <1>5. KeysOK' /\ PhotosCanBeLoaded'
    BY <1>1, <1>2, Ending, KeysStand
  <1> QED BY <1>3, <1>4, <1>5

----------------------------------------------------------------------------
LEMMA FirstDesk == ListingsInit => ListingsInv
  <1> SUFFICES ASSUME ListingsInit PROVE ListingsInv
    OBVIOUS
  <1> USE DEF ListingsInit
  <1>1. desk \in DeskRows /\ listing = [l \in Listings |-> FirstRow(l)]
        /\ edit = [e \in Edits |-> NoEdit]
    OBVIOUS
  <1>2. \A l \in Listings : /\ FirstRow(l) \in ListingRows
                            /\ FirstRow(l).photos \subseteq {l} \cap files
                            /\ FirstRow(l).status \in {"LIVE", "PAUSED"} => FirstRow(l).approved
    BY DEF FirstRow, ListingRows, NoListing, Statuses
  <1>3. RowsOK
    BY <1>1, <1>2, NoEditRow DEF RowsOK
  <1>4. CountStands
    BY <1>1, NoEditRow DEF CountStands, NoEdit
  <1>5. FirstIsReviewed
    BY <1>1, <1>2 DEF FirstIsReviewed, Trusted
  <1>6. PhotosCanBeLoaded
    BY <1>1, <1>2 DEF PhotosCanBeLoaded
  <1>7. KeysOK
    <2>1. \A l \in Listings : listing[l].photos \subseteq {l} /\ l \notin desk.adds
      BY <1>1, <1>2 DEF DeskRows
    <2>2. \A e \in Edits : edit[e].step = "IDLE" /\ edit[e].photos = {}
      BY <1>1, NoEditRow
    <2> QED BY <2>1, <2>2 DEF KeysOK, Adding, Taking
  <1> QED BY <1>3, <1>4, <1>5, <1>6, <1>7 DEF ListingsInv

LEMMA EveryStep == ListingsInv /\ [ListingsNext \/ Elsewhere]_listingVars => ListingsInv'
  <1> SUFFICES ASSUME ListingsInv, [ListingsNext \/ Elsewhere]_listingVars PROVE ListingsInv'
    OBVIOUS
  <1>1. CASE ListingsNext
    <2>1. ASSUME NEW l \in Listings, Lender(l) PROVE ListingsInv'
      <3>1. CASE \/ Create(l) \/ Pause(l) \/ Unpause(l)
                 \/ \E e \in Edits : StartUpdate(e, l) \/ StartPublish(e, l)
        BY <3>1, LenderDecides
      <3>3. ASSUME NEW e \in Edits,
                   StartDelete(e, l) \/ \E p \in Photos \cup {l} : StartDeletePhoto(e, l, p)
            PROVE  ListingsInv'
        BY <3>3, TakingStarts
      <3>2. ASSUME NEW e \in Edits, NEW p \in Photos, StartAdd(e, l, p) PROVE ListingsInv'
        BY <3>2, PhotosAdded
      <3> QED BY <2>1, <3>1, <3>2, <3>3 DEF Lender
    <2>2. ASSUME NEW l \in Listings, Admin(l) PROVE ListingsInv'
      BY <2>2, AdminDecides DEF Admin
    <2>3. ASSUME NEW e \in Edits, GoesOn(e) PROVE ListingsInv'
      BY <2>3, DecisionGoesOn, AddingGoesOn, TakingGoesOn, StoppingKeeps DEF GoesOn
    <2> QED BY <1>1, <2>1, <2>2, <2>3 DEF ListingsNext
  <1>2. CASE Elsewhere
    <2>1. RowsOK'
      BY <1>2 DEF Elsewhere, ListingsInv, RowsOK
    <2>2. CountStands' /\ FirstIsReviewed'
      BY <1>2, TrustStands DEF Elsewhere, ListingsInv
    <2>3. KeysOK' /\ PhotosCanBeLoaded'
      BY <1>2, KeysStand DEF Elsewhere, ListingsInv
    <2> QED BY <2>1, <2>2, <2>3 DEF ListingsInv
  <1>3. CASE UNCHANGED listingVars
    BY <1>3 DEF listingVars, ListingsInv, RowsOK, CountStands, FirstIsReviewed, KeysOK,
                PhotosCanBeLoaded, Trusted
  <1> QED BY <1>1, <1>2, <1>3

(* What the rest of the system does to the listings.                       *)
LEMMA WorkerIsElsewhere ==
  ASSUME RowsOK, Worker \/ WorkerStops \/ RequestPosted
  PROVE  Elsewhere
  <1>1. CASE Worker
    BY <1>1 DEF Worker, MatchListing, NotifyNearby, TellNext, Mark, Notice, Push, Completed,
                listingVars, Elsewhere, RowsOK
  <1>2. CASE WorkerStops
    BY <1>2 DEF WorkerStops, Elsewhere, RowsOK, DeskRows
  <1>3. CASE RequestPosted
    BY <1>3 DEF RequestPosted, Elsewhere, RowsOK
  <1> QED BY <1>1, <1>2, <1>3

LEMMA ListingsHold == DiscoverySpec => []ListingsInv
  <1>1. DiscoveryInit => ListingsInv
    BY FirstDesk DEF DiscoveryInit
  <1>2. ListingsInv /\ [DiscoveryNext]_<<vars, listingVars, workerVars>> => ListingsInv'
    <2> SUFFICES ASSUME ListingsInv, [DiscoveryNext]_<<vars, listingVars, workerVars>>
                 PROVE  ListingsInv'
      OBVIOUS
    <2>1. CASE Worker \/ WorkerStops \/ RequestPosted
      BY <2>1, WorkerIsElsewhere, EveryStep DEF ListingsInv
    <2>2. CASE ListingsNext
      BY <2>2, EveryStep
    <2>3. CASE UNCHANGED listingVars
      BY <2>3, EveryStep
    <2> QED BY <2>1, <2>2, <2>3 DEF DiscoveryNext
  <1> QED BY <1>1, <1>2, PTL DEF DiscoverySpec

(* No listing of a lender is on show before an admin has approved one of   *)
(* theirs, whatever edits, reviews, publications and removals overlap      *)
(* (listings.service.ts: publish, approve, update).                        *)
THEOREM NothingUnreviewed == DiscoverySpec => []FirstIsReviewed
  <1>1. ListingsInv => FirstIsReviewed
    BY DEF ListingsInv
  <1> QED BY <1>1, ListingsHold, PTL

(* A photo of a row has its file: what adds a row has stored the file, and *)
(* what deletes a file has seen its row go (addPhoto, deletePhoto, delete).*)
THEOREM PhotosStay == DiscoverySpec => []PhotosCanBeLoaded
  <1>1. ListingsInv => PhotosCanBeLoaded
    BY DEF ListingsInv
  <1> QED BY <1>1, ListingsHold, PTL

----------------------------------------------------------------------------
(* The worker.  Who was told of a job is not to be told again while it     *)
(* runs, unless the worker starts over; and a search that was pushed is    *)
(* marked, which a job that began later has read.                          *)
Told == [who : People, search : Searches \cup {""}]

Named == {"MARK", "NOTICE", "PUSH"}

Pushing == worker.step \in Named /\ worker.now.push /\ worker.now.search # ""

WorkerOK ==
  /\ DOMAIN worker = {"job", "step", "left", "recent", "now"}
  /\ worker.step \in {"IDLE", "NEXT"} \cup Named
  /\ worker.left \subseteq Told
  /\ worker.now \in [who : People \cup {""}, search : Searches \cup {""}, push : BOOLEAN]
  /\ worker.step \in Named => worker.now.who \in People
  /\ worker.step # "IDLE" => worker.job \in Jobs /\ jobs[worker.job] = "ACTIVE"
  /\ worker.step = "IDLE" => worker.left = {}
  /\ worker.step = "MARK" => worker.now.search # ""
  /\ worker.step = "PUSH" => worker.now.push

JobsOK == jobs \in [Jobs -> {"NONE", "WAITING", "ACTIVE", "DONE"}]

NoticesOK ==
  /\ restarts \in Nat
  /\ notices \in [Jobs \X People -> Nat]
  /\ \A m, n \in worker.left : m.who = n.who => m = n
  /\ worker.step \in Named => \A m \in worker.left : m.who # worker.now.who
  /\ restarts = 0 => \A j \in Jobs, p \in People :
       /\ notices[<<j, p>>] =< 1
       /\ notices[<<j, p>>] > 0 =>
            /\ jobs[j] \in {"ACTIVE", "DONE"}
            /\ j = worker.job =>
                 /\ \A m \in worker.left : m.who # p
                 /\ worker.step \in {"MARK", "NOTICE"} => worker.now.who # p

PushesOK ==
  /\ pushes \in [Searches -> Nat]
  /\ \A s \in Searches : pushes[s] =< 1 /\ (pushes[s] > 0 => s \in lastPushed)
  /\ worker.recent \subseteq lastPushed
  /\ \A m \in worker.left : m.search \in lastPushed => m.search \in worker.recent
  /\ \A m, n \in worker.left : m.search = n.search /\ m.search # "" => m = n
  /\ worker.step \in Named /\ worker.now.search # "" =>
       \A m \in worker.left : m.search # worker.now.search
  /\ Pushing => pushes[worker.now.search] = 0
  /\ Pushing /\ worker.step # "MARK" => worker.now.search \in lastPushed

WorkerInv == WorkerOK /\ JobsOK /\ NoticesOK /\ PushesOK

LEMMA IdleIs ==
  /\ DOMAIN Idle = {"job", "step", "left", "recent", "now"}
  /\ Idle.step = "IDLE" /\ Idle.left = {} /\ Idle.recent = {} /\ Idle.job = ""
  /\ Idle.now \in [who : People \cup {""}, search : Searches \cup {""}, push : BOOLEAN]
  BY DEF Idle, Nobody

(* A job begins: nobody on its list was told of it.                        *)
LEMMA TakesJob ==
  ASSUME WorkerInv, NEW j \in Jobs, NEW left \in SUBSET Told, Takes(j, left),
         \A m, n \in left : m.who = n.who => m = n,
         \A m, n \in left : m.search = n.search /\ m.search # "" => m = n,
         UNCHANGED <<lastPushed, notices, pushes, restarts>>
  PROVE  WorkerInv'
  <1> USE DEF WorkerInv
  <1>1. /\ jobs[j] = "WAITING" /\ jobs' = [jobs EXCEPT ![j] = "ACTIVE"]
        /\ worker' = [job |-> j, step |-> "NEXT", left |-> left, recent |-> lastPushed,
                      now |-> Nobody]
    BY DEF Takes
  <1>2. Nobody \in [who : People \cup {""}, search : Searches \cup {""}, push : BOOLEAN]
    BY DEF Nobody
  <1>3. /\ DOMAIN worker' = {"job", "step", "left", "recent", "now"}
        /\ worker'.job = j /\ worker'.step = "NEXT" /\ worker'.left = left
        /\ worker'.recent = lastPushed /\ worker'.now = Nobody
    BY <1>1
  <1>4. JobsOK' /\ jobs'[j] = "ACTIVE" /\ \A k \in Jobs \ {j} : jobs'[k] = jobs[k]
    BY <1>1 DEF JobsOK
  <1>5. WorkerOK'
    BY <1>2, <1>3, <1>4 DEF WorkerOK, Named, Told, People
  <1>6. NoticesOK'
    <2>1. ASSUME restarts = 0, NEW k \in Jobs, NEW p \in People
          PROVE  /\ notices[<<k, p>>] =< 1
                 /\ notices[<<k, p>>] > 0 => k # j /\ jobs'[k] \in {"ACTIVE", "DONE"}
      BY <2>1, <1>1, <1>4 DEF NoticesOK
    <2>2. worker'.step \notin Named
      BY <1>3 DEF Named
    <2> QED BY <2>1, <2>2, <1>3 DEF NoticesOK, People
  <1>7. PushesOK'
    <2>1. worker'.step \notin Named
      BY <1>3 DEF Named
    <2> QED BY <2>1, <1>3 DEF PushesOK, Pushing
  <1> QED BY <1>4, <1>5, <1>6, <1>7

LEMMA Matches ==
  ASSUME WorkerInv, RowsOK, NEW l \in Listings, MatchListing(l)
  PROVE  WorkerInv'
  <1>1. PICK matched \in SUBSET desk.searches :
          OnePerPerson(matched) /\ Takes(l, {[who |-> OwnerOf[s], search |-> s] : s \in matched})
    BY DEF MatchListing
  <1>2. PICK left : left = {[who |-> OwnerOf[s], search |-> s] : s \in matched}
    OBVIOUS
  <1>3. matched \subseteq Searches /\ l \in Jobs
    BY ListingsAssumption DEF RowsOK, DeskRows
  <1>4. \A m \in left : \E s \in matched : m = [who |-> OwnerOf[s], search |-> s]
                                         /\ m.who = OwnerOf[s] /\ m.search = s
    BY <1>2
  <1>5. left \in SUBSET Told
    <2>1. ASSUME NEW s \in matched PROVE [who |-> OwnerOf[s], search |-> s] \in Told
      BY <1>3 DEF Told, People
    <2> QED BY <1>4, <2>1
  <1>6. \A m, n \in left : m.search = n.search => m = n
    BY <1>4
  <1>7. \A m, n \in left : m.who = n.who => m = n
    BY <1>1, <1>4 DEF OnePerPerson
  <1> QED BY <1>1, <1>2, <1>3, <1>5, <1>6, <1>7, TakesJob DEF MatchListing

LEMMA Nearby ==
  ASSUME WorkerInv, NotifyNearby
  PROVE  WorkerInv'
  <1>1. PICK left \in {{[who |-> "lender", search |-> ""]}, {}} : Takes(Asked, left)
    BY DEF NotifyNearby
  <1>2. left \in SUBSET Told /\ \A m, n \in left : m = n
    <2>1. [who |-> "lender", search |-> ""] \in Told
      BY DEF Told, People
    <2> QED BY <1>1, <2>1
  <1> QED BY <1>1, <1>2, TakesJob, DiscoveryAssumption DEF NotifyNearby

LEMMA TellsNext ==
  ASSUME WorkerInv, TellNext
  PROVE  WorkerInv'
  <1> USE DEF WorkerInv
  <1>1. PICK m \in worker.left, within \in BOOLEAN :
          worker' = [worker EXCEPT
             !.left = @ \ {m},
             !.now = [who |-> m.who, search |-> m.search,
                      push |-> within /\ m.search \notin worker.recent],
             !.step = IF m.search = "" THEN (IF within THEN "NOTICE" ELSE "NEXT")
                      ELSE IF within /\ m.search \notin worker.recent THEN "MARK" ELSE "NOTICE"]
    BY DEF TellNext
  <1>2. /\ worker.step = "NEXT" /\ worker.step # "IDLE" /\ worker.step \notin Named
        /\ UNCHANGED <<jobs, lastPushed, notices, pushes, restarts>>
    BY DEF TellNext, listingVars, Named
  <1>3. m \in Told /\ m.who \in People /\ m.search \in Searches \cup {""}
    BY <1>1 DEF WorkerOK, Told
  <1>4. PICK push \in BOOLEAN : push = (within /\ m.search \notin worker.recent)
    BY <1>1
  <1>5. PICK now : now = [who |-> m.who, search |-> m.search, push |-> push]
    OBVIOUS
  <1>6. PICK step : step = IF m.search = "" THEN (IF within THEN "NOTICE" ELSE "NEXT")
                           ELSE IF push THEN "MARK" ELSE "NOTICE"
    OBVIOUS
  <1>7. /\ DOMAIN worker' = {"job", "step", "left", "recent", "now"}
        /\ worker'.job = worker.job /\ worker'.recent = worker.recent
        /\ worker'.left = worker.left \ {m} /\ worker'.now = now /\ worker'.step = step
    BY <1>1, <1>4, <1>5, <1>6 DEF WorkerOK
  <1>8. /\ now \in [who : People \cup {""}, search : Searches \cup {""}, push : BOOLEAN]
        /\ now.who = m.who /\ now.search = m.search /\ now.push = push
    BY <1>3, <1>5
  <1>9. step \in {"NOTICE", "NEXT", "MARK"} /\ (step = "MARK" => m.search # "")
    BY <1>6
  <1>10. JobsOK'
    BY <1>2 DEF JobsOK
  <1>11. WorkerOK'
    BY <1>2, <1>3, <1>7, <1>8, <1>9 DEF WorkerOK, Named, Told, People
  <1>12. NoticesOK'
    <2>1. \A n \in worker'.left : n \in worker.left /\ n.who # m.who
      BY <1>1, <1>7 DEF NoticesOK
    <2>3. ASSUME restarts = 0, NEW j \in Jobs, NEW p \in People, notices[<<j, p>>] > 0
          PROVE  /\ jobs[j] \in {"ACTIVE", "DONE"}
                 /\ j = worker.job => /\ \A n \in worker.left : n.who # p
                                      /\ m.who # p
      BY <2>3, <1>1 DEF NoticesOK
    <2>4. /\ restarts \in Nat /\ notices \in [Jobs \X People -> Nat]
          /\ restarts = 0 => \A j \in Jobs, p \in People : notices[<<j, p>>] =< 1
          /\ \A n, q \in worker.left : n.who = q.who => n = q
      BY DEF NoticesOK
    <2>5. /\ \A n, q \in worker'.left : n.who = q.who => n = q
          /\ \A n \in worker'.left : n.who # worker'.now.who
      BY <2>1, <2>4, <1>7, <1>8
    <2>6. ASSUME restarts' = 0, NEW j \in Jobs, NEW p \in People
          PROVE  /\ notices'[<<j, p>>] =< 1
                 /\ notices'[<<j, p>>] > 0 =>
                      /\ jobs'[j] \in {"ACTIVE", "DONE"}
                      /\ j = worker'.job =>
                           /\ \A n \in worker'.left : n.who # p
                           /\ worker'.step \in {"MARK", "NOTICE"} => worker'.now.who # p
      <3>1. notices'[<<j, p>>] =< 1
        BY <2>4, <2>6, <1>2
      <3>2. ASSUME notices'[<<j, p>>] > 0
            PROVE  /\ jobs'[j] \in {"ACTIVE", "DONE"}
                   /\ j = worker'.job =>
                        /\ \A n \in worker'.left : n.who # p
                        /\ worker'.now.who # p
        <4>1. restarts = 0 /\ notices[<<j, p>>] > 0
          BY <3>2, <2>6, <1>2
        <4>2. /\ jobs[j] \in {"ACTIVE", "DONE"}
              /\ j = worker.job => (\A n \in worker.left : n.who # p) /\ m.who # p
          BY <4>1, <2>3, Zenon
        <4> QED BY <4>2, <2>1, <1>2, <1>7, <1>8
      <3> QED BY <3>1, <3>2
    <2>7. People' = People
      BY DEF People
    <2> HIDE DEF WorkerInv
    <2> QED BY <2>4, <2>5, <2>6, <2>7, <1>2 DEF NoticesOK
  <1>13. PushesOK'
    <2>1. \A n \in worker'.left : n \in worker.left /\ (m.search # "" => n.search # m.search)
      BY <1>1, <1>7 DEF PushesOK
    <2>2. push /\ m.search # "" => pushes[m.search] = 0
      <3>1. ASSUME push, m.search # "" PROVE pushes[m.search] = 0
        <4>1. m.search \in Searches /\ m.search \notin lastPushed
          BY <3>1, <1>1, <1>3, <1>4 DEF PushesOK
        <4>2. pushes[m.search] \in Nat /\ ~ (pushes[m.search] > 0)
          BY <4>1 DEF PushesOK
        <4> QED BY <4>2
      <3> QED BY <3>1
    <2>3. push /\ m.search # "" => step = "MARK"
      BY <1>6
    <2> QED BY <2>1, <2>2, <2>3, <1>2, <1>7, <1>8 DEF PushesOK, Pushing
  <1> QED BY <1>10, <1>11, <1>12, <1>13

(* The next step for the same person. *)
LEMMA Worked ==
  ASSUME WorkerOK, NEW step, Works(step)
  PROVE  /\ DOMAIN worker' = DOMAIN worker
         /\ worker'.job = worker.job /\ worker'.recent = worker.recent
         /\ worker'.left = worker.left /\ worker'.now = worker.now /\ worker'.step = step
  BY DEF WorkerOK, Works

LEMMA Marks ==
  ASSUME WorkerInv, Mark
  PROVE  WorkerInv'
  <1> USE DEF WorkerInv
  <1>1. /\ worker.step = "MARK" /\ Works("NOTICE")
        /\ lastPushed' = lastPushed \cup {worker.now.search}
        /\ UNCHANGED <<jobs, notices, pushes, restarts>>
    BY DEF Mark, listingVars
  <1>2. /\ DOMAIN worker' = DOMAIN worker
        /\ worker'.job = worker.job /\ worker'.recent = worker.recent
        /\ worker'.left = worker.left /\ worker'.now = worker.now /\ worker'.step = "NOTICE"
    BY <1>1, Worked
  <1>3. "NOTICE" \in Named /\ worker.step \in Named
    BY <1>1 DEF Named
  <1>4. WorkerOK' /\ JobsOK'
    BY <1>1, <1>2, <1>3 DEF WorkerOK, JobsOK, Told, People
  <1>5. NoticesOK'
    BY <1>1, <1>2, <1>3 DEF NoticesOK, People
  <1>6. PushesOK'
    <2>1. \A m \in worker.left : m.search # worker.now.search
      BY <1>1, <1>3 DEF PushesOK, WorkerOK
    <2> QED BY <2>1, <1>1, <1>2, <1>3 DEF PushesOK, Pushing
  <1> QED BY <1>4, <1>5, <1>6

LEMMA Noticed ==
  ASSUME WorkerInv, Notice
  PROVE  WorkerInv'
  <1> USE DEF WorkerInv
  <1>1. PICK step \in {"PUSH", "NEXT"} :
          step = (IF worker.now.push THEN "PUSH" ELSE "NEXT") /\ Works(step)
    BY DEF Notice
  <1>2. PICK n : n = <<worker.job, worker.now.who>>
    OBVIOUS
  <1>3. /\ worker.step = "NOTICE" /\ worker.step \in Named /\ worker.step # "IDLE"
        /\ notices' = [notices EXCEPT ![n] = @ + 1]
        /\ UNCHANGED <<jobs, lastPushed, pushes, restarts>>
    BY <1>2 DEF Notice, listingVars, Named
  <1>4. /\ DOMAIN worker' = DOMAIN worker
        /\ worker'.job = worker.job /\ worker'.recent = worker.recent
        /\ worker'.left = worker.left /\ worker'.now = worker.now /\ worker'.step = step
    BY <1>1, Worked
  <1>5. worker.job \in Jobs /\ jobs[worker.job] = "ACTIVE" /\ worker.now.who \in People
    BY <1>3 DEF WorkerOK
  <1>6. n \in Jobs \X People
    BY <1>2, <1>5
  <1>7. WorkerOK' /\ JobsOK'
    BY <1>1, <1>3, <1>4, <1>5 DEF WorkerOK, JobsOK, Told, People, Named
  <1>8. NoticesOK'
    <2>1. /\ notices' \in [Jobs \X People -> Nat]
          /\ \A k \in Jobs, p \in People :
               notices'[<<k, p>>] = IF k = worker.job /\ p = worker.now.who
                                    THEN notices[<<k, p>>] + 1 ELSE notices[<<k, p>>]
      BY <1>2, <1>3, <1>6 DEF NoticesOK
    <2>2. restarts = 0 => notices[<<worker.job, worker.now.who>>] = 0
      BY <1>2, <1>3, <1>5, <1>6 DEF NoticesOK
    <2>3. \A m \in worker.left : m.who # worker.now.who
      BY <1>3 DEF NoticesOK
    <2>4. ASSUME restarts = 0, NEW k \in Jobs, NEW p \in People
          PROVE  /\ notices'[<<k, p>>] =< 1
                 /\ notices'[<<k, p>>] > 0 =>
                      /\ jobs[k] \in {"ACTIVE", "DONE"}
                      /\ k = worker.job => \A m \in worker.left : m.who # p
      BY <2>1, <2>2, <2>3, <2>4, <1>5 DEF NoticesOK
    <2>5. step \notin {"MARK", "NOTICE"} /\ restarts \in Nat
      BY <1>1 DEF NoticesOK
    <2>6. \A m, q \in worker.left : m.who = q.who => m = q
      BY DEF NoticesOK
    <2> QED BY <2>1, <2>3, <2>4, <2>5, <2>6, <1>3, <1>4 DEF NoticesOK, People
  <1>9. PushesOK'
    <2>1. step \in Named => step = "PUSH" /\ step # "MARK" /\ worker.now.push
      BY <1>1 DEF Named
    <2> QED BY <2>1, <1>3, <1>4 DEF PushesOK, Pushing
  <1> QED BY <1>7, <1>8, <1>9

LEMMA Pushed ==
  ASSUME WorkerInv, Push
  PROVE  WorkerInv'
  <1> USE DEF WorkerInv
  <1>1. /\ worker.step = "PUSH" /\ worker.step \in Named /\ worker.step # "IDLE" /\ Works("NEXT")
        /\ pushes' = pushes \/ (/\ worker.now.search # ""
                                /\ pushes' = [pushes EXCEPT ![worker.now.search] = @ + 1])
        /\ UNCHANGED <<jobs, lastPushed, notices, restarts>>
    BY DEF Push, listingVars, Named
  <1>2. /\ DOMAIN worker' = DOMAIN worker
        /\ worker'.job = worker.job /\ worker'.recent = worker.recent
        /\ worker'.left = worker.left /\ worker'.now = worker.now /\ worker'.step = "NEXT"
    BY <1>1, Worked
  <1>3. "NEXT" \notin Named
    BY DEF Named
  <1>4. WorkerOK' /\ JobsOK'
    BY <1>1, <1>2, <1>3 DEF WorkerOK, JobsOK, Told, People
  <1>5. NoticesOK'
    <2>1. worker'.step \notin Named /\ worker'.step \notin {"MARK", "NOTICE"}
      BY <1>2, <1>3
    <2>2. /\ notices \in [Jobs \X People -> Nat] /\ restarts \in Nat
          /\ \A m, n \in worker.left : m.who = n.who => m = n
      BY DEF NoticesOK
    <2>3. restarts = 0 => \A j \in Jobs, p \in People :
            /\ notices[<<j, p>>] =< 1
            /\ notices[<<j, p>>] > 0 =>
                 /\ jobs[j] \in {"ACTIVE", "DONE"}
                 /\ j = worker.job => \A m \in worker.left : m.who # p
      BY DEF NoticesOK
    <2>4. /\ jobs' = jobs /\ notices' = notices /\ restarts' = restarts
          /\ worker'.job = worker.job /\ worker'.left = worker.left
      BY <1>1, <1>2
    <2>5. restarts' = 0 => \A j \in Jobs, p \in People :
            /\ notices'[<<j, p>>] =< 1
            /\ notices'[<<j, p>>] > 0 =>
                 /\ jobs'[j] \in {"ACTIVE", "DONE"}
                 /\ j = worker'.job => \A m \in worker'.left : m.who # p
      BY ONLY <2>3, <2>4
    <2>6. /\ notices' \in [Jobs \X People -> Nat] /\ restarts' \in Nat
          /\ \A m, n \in worker'.left : m.who = n.who => m = n
      BY <2>2, <2>4
    <2> QED BY ONLY <2>1, <2>5, <2>6 DEF NoticesOK, People
  <1>6. PushesOK'
    <2>1. CASE pushes' = pushes
      BY <2>1, <1>1, <1>2, <1>3 DEF PushesOK, Pushing
    <2>2. CASE worker.now.search # "" /\ pushes' = [pushes EXCEPT ![worker.now.search] = @ + 1]
      <3>1. worker.now.search \in Searches
        BY <2>2 DEF WorkerOK
      <3>2. pushes[worker.now.search] = 0 /\ worker.now.search \in lastPushed
        BY <2>2, <1>1 DEF WorkerOK, PushesOK, Pushing
      <3>3. PICK q \in Searches : q = worker.now.search
        BY <3>1
      <3>4. pushes' \in [Searches -> Nat] /\ pushes'[q] = 1
            /\ \A s \in Searches \ {q} : pushes'[s] = pushes[s]
        <4>1. pushes' = [pushes EXCEPT ![q] = pushes[q] + 1]
          BY <2>2, <3>3, Zenon
        <4>2. pushes[q] = 0
          BY <3>2, <3>3
        <4>3. pushes \in [Searches -> Nat]
          BY DEF PushesOK
        <4>4. pushes' = [pushes EXCEPT ![q] = 1]
          BY <4>1, <4>2
        <4> QED BY <4>3, <4>4
      <3>5. \A s \in Searches : pushes'[s] =< 1 /\ (pushes'[s] > 0 => s \in lastPushed)
        <4> TAKE s \in Searches
        <4>1. CASE s = q
          BY <4>1, <3>2, <3>3, <3>4
        <4>2. CASE s # q
          BY <4>2, <3>4 DEF PushesOK
        <4> QED BY <4>1, <4>2
      <3> QED BY <3>4, <3>5, <1>1, <1>2, <1>3 DEF PushesOK, Pushing
    <2> QED BY <1>1, <2>1, <2>2
  <1> QED BY <1>4, <1>5, <1>6

(* Between two jobs. *)
LEMMA Rests ==
  ASSUME WorkerInv, worker' = Idle, JobsOK', restarts' \in Nat, UNCHANGED <<lastPushed, notices, pushes>>,
         restarts' = 0 => restarts = 0 /\ \A j \in Jobs : jobs'[j] = jobs[j] \/ jobs'[j] = "DONE"
  PROVE  WorkerInv'
  <1> USE DEF WorkerInv
  <1>1. /\ DOMAIN worker' = {"job", "step", "left", "recent", "now"}
        /\ worker'.step = "IDLE" /\ worker'.left = {} /\ worker'.recent = {} /\ worker'.job = ""
        /\ worker'.now \in [who : People \cup {""}, search : Searches \cup {""}, push : BOOLEAN]
    BY IdleIs
  <1>2. "IDLE" \notin Named
    BY DEF Named
  <1>3. WorkerOK'
    BY <1>1, <1>2 DEF WorkerOK, Told, People, Named
  <1>4. NoticesOK'
    BY <1>1, <1>2 DEF NoticesOK, People
  <1>5. PushesOK'
    BY <1>1, <1>2 DEF PushesOK, Pushing
  <1> QED BY <1>3, <1>4, <1>5

LEMMA Completes ==
  ASSUME WorkerInv, Completed
  PROVE  WorkerInv'
  <1>1. /\ worker' = Idle /\ UNCHANGED <<lastPushed, notices, pushes, restarts>>
        /\ jobs' = [jobs EXCEPT ![worker.job] = "DONE"]
    BY DEF Completed
  <1>2. JobsOK' /\ \A j \in Jobs : jobs'[j] = jobs[j] \/ jobs'[j] = "DONE"
    BY <1>1 DEF WorkerInv, JobsOK
  <1> QED BY <1>1, <1>2, Rests DEF WorkerInv, NoticesOK

LEMMA Stops ==
  ASSUME WorkerInv, WorkerStops
  PROVE  WorkerInv'
  <1>1. /\ worker' = Idle /\ UNCHANGED <<lastPushed, notices, pushes>>
        /\ jobs' = [jobs EXCEPT ![worker.job] = "WAITING"] /\ restarts' = restarts + 1
    BY DEF WorkerStops
  <1>2. JobsOK'
    BY <1>1 DEF WorkerInv, JobsOK
  <1>3. restarts' \in Nat /\ restarts' # 0
    BY <1>1 DEF WorkerInv, NoticesOK
  <1> QED BY <1>1, <1>2, <1>3, Rests

(* The listings and the request board add jobs, with an id of their own.   *)
LEMMA JobAdded ==
  ASSUME WorkerInv, UNCHANGED workerVars,
         jobs' = jobs \/ \E j \in Jobs : jobs' = [jobs EXCEPT ![j] = Queued(j)]
  PROVE  WorkerInv'
  <1> USE DEF WorkerInv
  <1>1. UNCHANGED <<worker, lastPushed, notices, pushes, restarts>>
    BY DEF workerVars
  <1>2. JobsOK' /\ \A j \in Jobs : jobs[j] \in {"ACTIVE", "DONE"} => jobs'[j] = jobs[j]
    BY DEF JobsOK, Queued
  <1>3. WorkerOK'
    BY <1>1, <1>2 DEF WorkerOK, Told, People
  <1>4. NoticesOK'
    BY <1>1, <1>2 DEF NoticesOK, People
  <1>5. PushesOK'
    BY <1>1 DEF PushesOK, Pushing
  <1> QED BY <1>2, <1>3, <1>4, <1>5

LEMMA ListingsAddJobs ==
  ASSUME RowsOK, ListingsNext
  PROVE  jobs' = jobs \/ \E j \in Jobs : jobs' = [jobs EXCEPT ![j] = Queued(j)]
  <1>1. ASSUME NEW l \in Listings, Lender(l) \/ Admin(l) PROVE jobs' = jobs
    BY <1>1 DEF Lender, Admin, Create, Pause, Unpause, StartUpdate, StartPublish, StartDelete,
                StartAdd, StartDeletePhoto, Reject, Unpublish, Approve
  <1>2. ASSUME NEW e \in Edits, GoesOn(e)
        PROVE  jobs' = jobs \/ \E j \in Jobs : jobs' = [jobs EXCEPT ![j] = Queued(j)]
    <2>1. CASE ListingLive(e)
      <3>1. PICK l \in Listings : l = edit[e].listing
        BY <2>1 DEF ListingLive, At, RowsOK
      <3>2. l \in Jobs
        BY ListingsAssumption
      <3> QED BY <2>1, <3>1, <3>2 DEF ListingLive
    <2>2. CASE ~ListingLive(e)
      BY <1>2, <2>2 DEF GoesOn, Update, CountApproved, Publish, Put, AddRow, DeleteRow,
                        DeleteFiles, Delete, RequestStops
    <2> QED BY <2>1, <2>2
  <1> QED BY <1>1, <1>2 DEF ListingsNext

LEMMA WorkerStarts == DiscoveryInit => WorkerInv
  <1> SUFFICES ASSUME DiscoveryInit PROVE WorkerInv
    OBVIOUS
  <1>1. /\ worker = Idle /\ lastPushed = {} /\ notices = [n \in Jobs \X People |-> 0]
        /\ pushes = [s \in Searches |-> 0] /\ restarts = 0 /\ jobs = [j \in Jobs |-> "NONE"]
    BY DEF DiscoveryInit, ListingsInit
  <1>2. /\ DOMAIN worker = {"job", "step", "left", "recent", "now"}
        /\ worker.step = "IDLE" /\ worker.left = {} /\ worker.recent = {}
        /\ worker.now \in [who : People \cup {""}, search : Searches \cup {""}, push : BOOLEAN]
    BY <1>1, IdleIs
  <1>3. "IDLE" \notin Named
    BY DEF Named
  <1>4. JobsOK
    BY <1>1 DEF JobsOK
  <1>5. WorkerOK
    BY <1>2, <1>3 DEF WorkerOK
  <1>6. NoticesOK
    <2>1. notices \in [Jobs \X People -> Nat]
      BY <1>1
    <2>2. ASSUME NEW j \in Jobs, NEW p \in People PROVE notices[<<j, p>>] = 0
      <3>1. PICK n \in Jobs \X People : n = <<j, p>>
        OBVIOUS
      <3>2. notices[n] = 0
        BY <1>1
      <3> QED BY <3>1, <3>2
    <2>3. restarts \in Nat
      BY <1>1
    <2>4. ASSUME NEW j \in Jobs, NEW p \in People
          PROVE  notices[<<j, p>>] =< 1 /\ ~ (notices[<<j, p>>] > 0)
      <3>1. notices[<<j, p>>] = 0
        BY <2>2, Zenon
      <3> QED BY <3>1
    <2>5. /\ \A m, n \in worker.left : m.who = n.who => m = n
          /\ worker.step \in Named => \A m \in worker.left : m.who # worker.now.who
      BY <1>2, <1>3
    <2> QED BY <2>1, <2>3, <2>4, <2>5 DEF NoticesOK
  <1>7. PushesOK
    <2>1. pushes \in [Searches -> Nat] /\ \A s \in Searches : pushes[s] = 0
      BY <1>1
    <2>2. \A s \in Searches : pushes[s] =< 1 /\ (pushes[s] > 0 => s \in lastPushed)
      BY <2>1
    <2>3. ~Pushing /\ worker.step \notin Named
      BY <1>2, <1>3 DEF Pushing
    <2> QED BY <2>1, <2>2, <2>3, <1>2 DEF PushesOK
  <1> QED BY <1>4, <1>5, <1>6, <1>7 DEF WorkerInv

LEMMA WorkerSteps ==
  ASSUME WorkerInv, RowsOK, [DiscoveryNext]_<<vars, listingVars, workerVars>>
  PROVE  WorkerInv'
  <1>1. CASE Worker
    BY <1>1, Matches, Nearby, TellsNext, Marks, Noticed, Pushed, Completes DEF Worker
  <1>2. CASE WorkerStops
    BY <1>2, Stops
  <1>3. CASE RequestPosted
    BY <1>3, JobAdded, DiscoveryAssumption DEF RequestPosted
  <1>4. CASE ListingsNext /\ UNCHANGED workerVars
    BY <1>4, ListingsAddJobs, JobAdded
  <1>5. CASE UNCHANGED <<listingVars, workerVars>>
    BY <1>5, JobAdded DEF listingVars
  <1> QED BY <1>1, <1>2, <1>3, <1>4, <1>5 DEF DiscoveryNext

(* Nobody is told twice of a listing or a request (the queue's job ids),   *)
(* however many searches match, unless the worker started over, and a      *)
(* search is pushed once at most (matchListing, mayPush, markPushed).      *)
THEOREM EachIsToldOnce == DiscoverySpec => []ToldOnce
  <1>1. WorkerInv => ToldOnce
    <2>1. \A n \in Jobs \X People : \E j \in Jobs, p \in People : n = <<j, p>>
      OBVIOUS
    <2>2. ASSUME NoticesOK, restarts = 0 PROVE \A n \in Jobs \X People : notices[n] =< 1
      <3>1. \A j \in Jobs, p \in People : notices[<<j, p>>] =< 1
        BY <2>2 DEF NoticesOK
      <3> QED BY <2>1, <3>1
    <2> QED BY <2>2 DEF WorkerInv, PushesOK, ToldOnce
  <1>2. WorkerInv /\ ListingsInv /\ [DiscoveryNext]_<<vars, listingVars, workerVars>> => WorkerInv'
    BY WorkerSteps DEF ListingsInv
  <1> QED BY <1>1, <1>2, WorkerStarts, ListingsHold, PTL DEF DiscoverySpec

=============================================================================

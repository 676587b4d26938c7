--------------------------- MODULE PaymentsProofs ---------------------------
(***************************************************************************)
(* Payments, for every set of calls, orders and refunds, every booking and *)
(* any interleaving of requests, webhooks, sweeps and restarts.            *)
(*                                                                         *)
(* PaymentsInv says what a call may still have to do: which steps may be   *)
(* first in its list and which may wait behind, what they carry, and by    *)
(* how much the books are behind Razorpay (InBalance).  What happens once  *)
(* at most is in PaymentsOnceProofs.                                       *)
(***************************************************************************)
EXTENDS Payments, SumsAndLists

----------------------------------------------------------------------------
(* The calls in progress: the steps that a call may have to make.          *)

Statuses == {"AWAITING_PAYMENT", "CONFIRMED", "EXPIRED", "CANCELLED", "COMPLETED"}

Kinds == {"MANUAL", "LATE_PAYMENT", "CANCELLATION", "DEPOSIT_RETURN"}

Amounts == [rent : Int, fee : Int, deposit : Int, credit : Int]

AskOps == {"createRefund", "insertRefund"}

RefundOps == {"attempt", "claimRefund", "callRefund", "failRefund", "tallyRefund", "saveRefund"}

SendOps == {"send", "wait", "claimTransfer", "callTransfer", "failTransfer", "saveTransfer"}

(* of a request that pays, *)
PayOps ==
  {"createOrder", "insertPayment", "capture", "confirm", "markFailed", "receive", "answer",
   "onConfirmed", "oweRent", "catch"}

(* of the call for a cancelled booking, *)
CancelOps ==
  {"refundCancelled", "findRelease", "releaseCredit", "refundCredit", "postCredit",
   "onCancelled", "keepRent"}

ReverseOps == {"reverse", "saveReversal"}

(* of the one for a completed booking, *)
SettleOps ==
  {"settle", "keepDeposit", "releaseAll", "release", "saveRelease", "sendKept", "createKept"}

(* and of the sweep, which makes either. *)
SweepOps == {"sweepMissed", "sweepUnsettled", "retryRefunds", "retryTransfers"}

MayClose(h) == h = Closer \/ h \in Workers

OpsOf(h) ==
  AskOps \cup RefundOps \cup SendOps
    \cup (IF MayClose(h) THEN CancelOps \cup ReverseOps \cup SettleOps ELSE PayOps)
    \cup (IF h \in Workers THEN SweepOps ELSE {})

PlainOps ==
  {"createOrder", "onConfirmed", "oweRent", "catch", "refundCancelled", "settle", "keepDeposit",
   "releaseAll"} \cup SweepOps

RefundIds == 1..MaxRefunds

TransferIds == 1..MaxTransfers

RefundSteps ==
  [op : AskOps, payment : Orders, kind : Kinds, cash : Int, amounts : Amounts]
    \cup [op : {"attempt", "callRefund", "failRefund"}, id : RefundIds]
    \cup [op : {"claimRefund"}, id : RefundIds, attempts : Nat]
    \cup [op : {"tallyRefund"}, id : RefundIds, status : {"PENDING", "PROCESSED"}]
    \cup [op : {"saveRefund"}, id : RefundIds, status : {"PENDING", "PROCESSED"}, sum : Int]

TransferSteps ==
  [op : {"send", "wait", "failTransfer", "saveReversal", "saveRelease"}, id : TransferIds]
    \cup [op : {"claimTransfer"}, id : TransferIds, onHold : BOOLEAN, attempts : Nat]
    \cup [op : {"callTransfer", "saveTransfer"}, id : TransferIds, onHold : BOOLEAN]
    \cup [op : {"reverse"}, id : TransferIds, sent : BOOLEAN]
    \cup [op : {"release"}, id : TransferIds, held : BOOLEAN]
    \cup [op : {"onCancelled"}, refunded : Int]
    \cup [op : {"keepRent"}, kept : Int]
    \cup [op : {"sendKept", "createKept"}, amount : Int]

PaymentSteps ==
  [op : PlainOps]
    \cup [op : {"insertPayment", "capture", "confirm", "markFailed", "findRelease"}, order : Orders]
    \cup [op : {"releaseCredit"}, order : Orders, found : Int]
    \cup [op : {"receive", "answer"}, event : Events]
    \cup [op : {"refundCredit", "postCredit"}, amounts : Amounts]

Steps == RefundSteps \cup TransferSteps \cup PaymentSteps

(* What a call asks to refund, and a refund row, is about a captured       *)
(* payment, and its amounts are those of its kind.                         *)
RefundFits(x) ==
  /\ x.payment \in Captured
  /\ x.kind # "MANUAL" => x.cash = CashOf(x.amounts)
  /\ x.kind \in {"LATE_PAYMENT", "CANCELLATION"} => x.amounts.deposit = Booking.deposit
  /\ x.kind = "CANCELLATION" => status = "CANCELLED"
  /\ x.kind = "DEPOSIT_RETURN" => /\ status = "COMPLETED"
                                  /\ x.amounts.deposit = Booking.deposit - KeptOfDeposit

RowOps == SendOps \cup ReverseOps \cup {"release", "saveRelease"}

Fits(h, s) ==
  /\ s.op \in OpsOf(h)
  /\ s.op \in RefundOps => refund[s.id] # Refunding!NoRefund
  /\ s.op \in RowOps => transfer[s.id] # Paying!NoTransfer
  /\ s.op \in AskOps => /\ RefundFits(s)
                        /\ s.kind \in {"CANCELLATION", "DEPOSIT_RETURN"} => MayClose(h)
  /\ s.op \in {"confirm", "findRelease", "releaseCredit"} => s.order \in Captured
  /\ s.op \in {"refundCredit", "postCredit"} => CashOf(s.amounts) = 0
  /\ s.op \in CancelOps => status = "CANCELLED"
  /\ s.op \in SettleOps => status = "COMPLETED"

FitSteps(h) == {s \in Steps : Fits(h, s)}

LaterOps ==
  {"catch", "answer", "onCancelled", "createRefund", "releaseAll", "sendKept", "sweepUnsettled",
   "retryRefunds", "retryTransfers", "attempt", "release", "reverse", "keepRent", "send"}

LaterSteps(h) == {s \in FitSteps(h) : s.op \in LaterOps}

Lists ==
  /\ DOMAIN todo = All
  /\ \A h \in All : todo[h] \in ListsOf(FitSteps(h), LaterSteps(h))

----------------------------------------------------------------------------
(* Types *)

PaymentRows ==
  [status : {"CREATED", "FAILED", "CAPTURED", "PARTIALLY_REFUNDED", "REFUNDED"},
   amount : {CashOf(Booking)}]

RefundRows ==
  [payment : Orders, kind : Kinds, cash : Int, amounts : Amounts,
   status : {"PENDING", "PROCESSED", "FAILED"}, attempts : Nat, sent : BOOLEAN]

TransferRows ==
  [amount : Int, onHold : BOOLEAN, fromDeposit : BOOLEAN,
   status : {"AWAITING_ACCOUNT", "ON_HOLD", "RELEASED", "FAILED", "REVERSED"},
   attempts : Nat, sent : BOOLEAN]

AtRazorpay == [held : Int, lender : Int, failed : Int, event : BOOLEAN]

BookingTypes ==
  /\ status \in Statuses
  /\ tier \in Tiers \cup {"NONE"}
  /\ kept \in Nat
  /\ credit \in Int
  /\ recent \subseteq All

RowTypes ==
  /\ payment \in [Orders -> PaymentRows \cup {NoPayment}]
  /\ refund \in [RefundIds -> RefundRows \cup {Refunding!NoRefund}]
  /\ accepted \in [RefundIds -> Nat]
  /\ transfer \in [TransferIds -> TransferRows \cup {Paying!NoTransfer}]
  /\ razorpay \in [TransferIds -> AtRazorpay]
  /\ \A r \in RefundIds : refund[r] = Refunding!NoRefund => accepted[r] = 0
  /\ \A t \in TransferIds : transfer[t] = Paying!NoTransfer => razorpay[t] = Paying!Nothing

OtherTypes ==
  /\ books.GATEWAY \in Int
  /\ books.DEPOSIT_HELD \in Int
  /\ checkouts \in [created : SUBSET Orders, paid : SUBSET Orders]
  /\ webhooks \in [raised : SUBSET Events, seen : SUBSET Events, answered : SUBSET Events]
  /\ faults \in [crashes : Nat, failures : Nat]

RefundRowsFit ==
  \A r \in RefundIds : refund[r] # Refunding!NoRefund => RefundFits(refund[r])

(* An order gets its payment row once.                                     *)
Inserts(q, o) == q # <<>> /\ Head(q).op = "insertPayment" /\ Head(q).order = o

NewOrders ==
  \A o \in Orders :
    /\ payment[o] # NoPayment => o \in checkouts.created
    /\ \A h \in All : Inserts(todo[h], o) =>
         /\ o \in checkouts.created
         /\ payment[o] = NoPayment
         /\ \A g \in All : Inserts(todo[g], o) => g = h

CallsFit == BookingTypes /\ RowTypes /\ OtherTypes /\ RefundRowsFit /\ NewOrders /\ Lists

----------------------------------------------------------------------------
(* What a step may add: once in a call, a refund of a kind, a share of the *)
(* rent that is kept.                                                      *)

One(q, S) == \A i, j \in 1..Len(q) : q[i] \in S /\ q[j] \in S => i = j

Asking(kind) == {s \in RefundSteps : s.op \in AskOps /\ s.kind = kind}

Shares == {t \in TransferIds : /\ transfer[t] # Paying!NoTransfer
                               /\ ~transfer[t].onHold /\ ~transfer[t].fromDeposit}

----------------------------------------------------------------------------
(* The steps and what they are about.                                      *)

LEMMA Ids == Refunding!RefundIds = RefundIds /\ Paying!TransferIds = TransferIds
  BY DEF Refunding!RefundIds, Paying!TransferIds, RefundIds, TransferIds

LEMMA Finite ==
  /\ IsFiniteSet(RefundIds) /\ IsFiniteSet(TransferIds) /\ IsFiniteSet(Orders) /\ IsFiniteSet(All)
  /\ RefundIds \subseteq Nat /\ TransferIds \subseteq Nat
  <1>1. 0 \in Int /\ MaxRefunds \in Int /\ MaxTransfers \in Int
    BY PaymentsAssumption
  <1>2. IsFiniteSet(RefundIds) /\ IsFiniteSet(TransferIds)
    BY <1>1, FS_Interval DEF RefundIds, TransferIds
  <1>3. IsFiniteSet(All)
    BY HandlersAssumption, FS_Union DEF All
  <1> QED BY <1>2, <1>3, PaymentsAssumption DEF RefundIds, TransferIds

LEMMA RefundForms ==
  ASSUME NEW s \in Steps
  PROVE  /\ s.op \in AskOps =>
              s \in [op : AskOps, payment : Orders, kind : Kinds, cash : Int, amounts : Amounts]
         /\ s.op \in RefundOps => s.id \in RefundIds
         /\ s.op = "claimRefund" => s.attempts \in Nat
         /\ s.op \in {"tallyRefund", "saveRefund"} => s.status \in {"PENDING", "PROCESSED"}
         /\ s.op = "saveRefund" => s.sum \in Int
         /\ s.op \in AskOps \cup RefundOps => s \in RefundSteps
  BY DEF Steps, RefundSteps, TransferSteps, PaymentSteps, AskOps, RefundOps, PlainOps, SweepOps

LEMMA TransferForms ==
  ASSUME NEW s \in Steps
  PROVE  /\ s.op \in RowOps => s.id \in TransferIds
         /\ s.op \in {"claimTransfer", "callTransfer", "saveTransfer"} => s.onHold \in BOOLEAN
         /\ s.op = "claimTransfer" => s.attempts \in Nat
         /\ s.op = "reverse" => s.sent \in BOOLEAN
         /\ s.op = "release" => s.held \in BOOLEAN
         /\ s.op = "onCancelled" => s.refunded \in Int
         /\ s.op = "keepRent" => s.kept \in Int
         /\ s.op \in {"sendKept", "createKept"} => s.amount \in Int
  BY DEF Steps, RefundSteps, TransferSteps, PaymentSteps, RowOps, SendOps, ReverseOps, AskOps,
         PlainOps, SweepOps

LEMMA PaymentForms ==
  ASSUME NEW s \in Steps
  PROVE  /\ s.op \in {"insertPayment", "capture", "confirm", "markFailed", "findRelease",
                      "releaseCredit"} => s.order \in Orders
         /\ s.op = "releaseCredit" => s.found \in Int
         /\ s.op \in {"receive", "answer"} => s.event \in Events
         /\ s.op \in {"refundCredit", "postCredit"} =>
              s \in [op : {"refundCredit", "postCredit"}, amounts : Amounts]
  BY DEF Steps, RefundSteps, TransferSteps, PaymentSteps, AskOps, PlainOps, SweepOps

(* What a call in progress has to do next.                                 *)
LEMMA NextStep ==
  ASSUME Lists, NEW h \in All, todo[h] # <<>>
  PROVE  /\ Arg(h) = Head(todo[h])
         /\ Arg(h) \in Steps
         /\ Fits(h, Arg(h))
  <1>1. todo[h] \in ListsOf(FitSteps(h), LaterSteps(h))
    BY DEF Lists
  <1>2. Head(todo[h]) \in FitSteps(h)
    BY <1>1, HeadFits
  <1> QED BY <1>2 DEF FitSteps, Arg

----------------------------------------------------------------------------
(* What a step leaves as it was: what was captured, written or decided     *)
(* stays.                                                                  *)
Stays ==
  /\ Captured \subseteq Captured'
  /\ \A r \in RefundIds : refund[r] # Refunding!NoRefund =>
       /\ refund'[r] # Refunding!NoRefund
       /\ refund'[r].cash = refund[r].cash
  /\ \A t \in TransferIds : transfer[t] # Paying!NoTransfer =>
       /\ transfer'[t] # Paying!NoTransfer
       /\ transfer'[t].amount = transfer[t].amount
  /\ status = "CANCELLED" => status' = "CANCELLED"
  /\ status = "COMPLETED" => status' = "COMPLETED" /\ kept' = kept

LEMMA RefundStaysFit ==
  ASSUME Stays, NEW x, RefundFits(x)
  PROVE  RefundFits(x)'
  <1>1. x.payment \in Captured'
    BY DEF Stays, RefundFits
  <1>2. x.kind = "DEPOSIT_RETURN" => /\ status' = "COMPLETED"
                                    /\ x.amounts.deposit = Booking.deposit - KeptOfDeposit'
    BY DEF Stays, RefundFits, KeptOfDeposit
  <1>3. x.kind = "CANCELLATION" => status' = "CANCELLED"
    BY DEF Stays, RefundFits
  <1> QED BY <1>1, <1>2, <1>3 DEF RefundFits

LEMMA StepStaysFit ==
  ASSUME Stays, NEW h, NEW s \in Steps, Fits(h, s)
  PROVE  Fits(h, s)'
  <1>1. s.op \in RefundOps => refund'[s.id] # Refunding!NoRefund
    BY RefundForms DEF Fits, Stays
  <1>2. s.op \in RowOps => transfer'[s.id] # Paying!NoTransfer
    BY TransferForms DEF Fits, Stays
  <1>3. s.op \in AskOps => RefundFits(s)'
    BY RefundStaysFit DEF Fits
  <1>4. s.op \in {"confirm", "findRelease", "releaseCredit"} => s.order \in Captured'
    BY DEF Fits, Stays
  <1>5. (s.op \in CancelOps => status' = "CANCELLED") /\ (s.op \in SettleOps => status' = "COMPLETED")
    BY DEF Fits, Stays
  <1> QED BY <1>1, <1>2, <1>3, <1>4, <1>5 DEF Fits

LEMMA StepsStay ==
  ASSUME Stays, NEW h
  PROVE  /\ FitSteps(h) \subseteq FitSteps(h)'
         /\ LaterSteps(h) \subseteq LaterSteps(h)'
         /\ LaterSteps(h)' \subseteq FitSteps(h)'
  BY StepStaysFit DEF FitSteps, LaterSteps

----------------------------------------------------------------------------
(* A call goes on.                                                         *)

LEMMA ListOfOne ==
  ASSUME NEW F, NEW L, NEW s \in F
  PROVE  <<s>> \in ListsOf(F, L) /\ <<>> \in ListsOf(F, L)
  <1>1. <<s>> \in Seq(F) /\ Tail(<<s>>) = <<>> /\ <<>> \in Seq(F) /\ <<>> \in Seq(L)
    OBVIOUS
  <1> QED BY <1>1, Zenon DEF ListsOf

LEMMA ListOfTwo ==
  ASSUME NEW F, NEW L, L \subseteq F, NEW s \in F, NEW u \in L
  PROVE  <<s, u>> \in ListsOf(F, L)
  <1>1. <<s, u>> \in Seq(F) /\ Tail(<<s, u>>) = <<u>> /\ <<u>> \in Seq(L)
    OBVIOUS
  <1> QED BY <1>1, Zenon DEF ListsOf

LEMMA ListOfLater ==
  ASSUME NEW F, NEW L, L \subseteq F, NEW q \in Seq(L)
  PROVE  q \in ListsOf(F, L)
  <1>1. q \in Seq(F) /\ (q # <<>> => Tail(q) \in Seq(L))
    OBVIOUS
  <1> QED BY <1>1 DEF ListsOf

LEMMA ListExtended ==
  ASSUME NEW F, NEW L, L \subseteq F, NEW q \in ListsOf(F, L), NEW u \in Seq(L)
  PROVE  /\ q \o u \in ListsOf(F, L)
         /\ q # <<>> => q \o u # <<>> /\ Head(q \o u) = Head(q)
         /\ q = <<>> => q \o u = u
  <1>1. q \in Seq(F) /\ u \in Seq(F)
    BY DEF ListsOf
  <1>2. CASE q = <<>>
    <2>1. q \o u = u
      BY <1>2
    <2> QED BY <1>2, <2>1, ListOfLater
  <1>3. CASE q # <<>>
    <2>1. Tail(q) \in Seq(L) /\ Head(q) \in F
      BY <1>3 DEF ListsOf
    <2>2. PICK r, t : r = q \o u /\ t = Tail(q)
      OBVIOUS
    <2>3. r \in Seq(F) /\ r # <<>> /\ Head(r) = Head(q) /\ Tail(r) = t \o u
      BY <1>1, <1>3, <2>2
    <2>4. t \o u \in Seq(L)
      BY <2>1, <2>2
    <2> QED BY <1>3, <2>2, <2>3, <2>4 DEF ListsOf
  <1> QED BY <1>2, <1>3

Others(h) == \A g \in All : g # h => todo'[g] = todo[g]

(* What its list says of a call that has nothing urgent left, or whose     *)
(* next step is s.                                                         *)
OwedOps == {"tallyRefund", "saveRefund", "saveTransfer", "saveReversal"}

OwedFor(s, rf, tr) ==
  IF s.op \in {"tallyRefund", "saveRefund"} THEN rf[s.id].cash
  ELSE IF s.op = "saveTransfer" THEN tr[s.id].amount
  ELSE IF s.op = "saveReversal" THEN -tr[s.id].amount
  ELSE 0

OwedBy(q, rf, tr) == IF q = <<>> THEN 0 ELSE OwedFor(Head(q), rf, tr)

LEMMA LaterOwesNothing ==
  ASSUME NEW h, NEW q \in Seq(LaterSteps(h)), NEW rf, NEW tr
  PROVE  OwedBy(q, rf, tr) = 0 /\ \A o : ~Inserts(q, o)
  <1>1. CASE q = <<>>
    BY <1>1 DEF OwedBy, Inserts
  <1>2. CASE q # <<>>
    <2>1. Head(q) \in LaterSteps(h)
      BY <1>2
    <2>2. Head(q).op \in LaterOps
      BY <2>1 DEF LaterSteps
    <2> QED BY <1>2, <2>2 DEF OwedBy, OwedFor, Inserts, LaterOps
  <1> QED BY <1>1, <1>2

Goes(h, steps) ==
  /\ steps \in ListsOf(FitSteps(h), LaterSteps(h))'
  /\ todo[h] # <<>>
  /\ Tail(todo[h]) \in Seq(LaterSteps(h)')
  /\ todo'[h] = steps \o Tail(todo[h])
  /\ Others(h)

LEMMA GoesOn ==
  ASSUME Lists, Stays, NEW h \in All, todo[h] # <<>>,
         NEW steps \in ListsOf(FitSteps(h)', LaterSteps(h)'), Continue(h, steps)
  PROVE  /\ Lists'
         /\ Goes(h, steps)
         /\ OwedBy(todo'[h], refund', transfer') = OwedBy(steps, refund', transfer')
         /\ \A o : Inserts(todo'[h], o) => Inserts(steps, o)
  <1>1. PICK q, t : q = todo[h] /\ t = Tail(q)
    OBVIOUS
  <1>2. PICK F, L : F = FitSteps(h)' /\ L = LaterSteps(h)'
    OBVIOUS
  <1>3. L \subseteq F /\ LaterSteps(h) \subseteq L
    BY <1>2, StepsStay
  <1>4. t \in Seq(L)
    <2>1. t \in Seq(LaterSteps(h))
      BY <1>1 DEF Lists, ListsOf
    <2> QED BY <1>3, <2>1
  <1>5. PICK p : p = steps \o t
    OBVIOUS
  <1>6. /\ p \in ListsOf(F, L)
        /\ steps # <<>> => p # <<>> /\ Head(p) = Head(steps)
        /\ steps = <<>> => p = t
    BY <1>2, <1>3, <1>4, <1>5, ListExtended
  <1>7. todo' = [todo EXCEPT ![h] = p] /\ DOMAIN todo = All
    BY <1>1, <1>5 DEF Continue, Lists
  <1>8. DOMAIN todo' = All /\ todo'[h] = p /\ Others(h)
    BY <1>7 DEF Others
  <1>9. Lists'
    <2>1. ASSUME NEW g \in All PROVE todo'[g] \in ListsOf(FitSteps(g)', LaterSteps(g)')
      <3>1. CASE g = h
        BY <1>2, <1>6, <1>8, <3>1
      <3>2. CASE g # h
        <4>1. todo'[g] \in ListsOf(FitSteps(g), LaterSteps(g))
          BY <1>8, <3>2 DEF Others, Lists
        <4>2. FitSteps(g) \subseteq FitSteps(g)' /\ LaterSteps(g) \subseteq LaterSteps(g)'
          BY StepsStay
        <4> QED BY <4>1, <4>2, ListsGrow
      <3> QED BY <3>1, <3>2
    <2> QED BY <1>8, <2>1 DEF Lists
  <1>10. Goes(h, steps)
    <2>1. steps \in ListsOf(F, L)
      BY <1>2
    <2> QED BY <1>1, <1>2, <1>4, <1>5, <1>8, <2>1 DEF Goes
  <1>11. OwedBy(t, refund', transfer') = 0 /\ \A o : ~Inserts(t, o)
    <2>1. t \in Seq(LaterSteps(h))
      BY <1>1 DEF Lists, ListsOf
    <2> QED BY <2>1, LaterOwesNothing
  <1>12. PICK rf, tr : rf = refund' /\ tr = transfer'
    OBVIOUS
  <1>13. OwedBy(p, rf, tr) = OwedBy(steps, rf, tr) /\ \A o : Inserts(p, o) => Inserts(steps, o)
    <2>1. CASE steps = <<>>
      <3>1. OwedBy(steps, rf, tr) = 0
        BY <2>1 DEF OwedBy
      <3>2. OwedBy(p, rf, tr) = 0 /\ \A o : ~Inserts(p, o)
        BY <1>6, <1>11, <1>12, <2>1
      <3> QED BY <3>1, <3>2
    <2>2. CASE steps # <<>>
      BY ONLY <1>6, <2>2 DEF OwedBy, Inserts
    <2> QED BY <2>1, <2>2
  <1> QED BY <1>8, <1>9, <1>10, <1>12, <1>13

(* It starts, *)
LEMMA Starting ==
  ASSUME Lists, Stays, NEW h \in All,
         NEW steps \in ListsOf(FitSteps(h)', LaterSteps(h)'), Begin(h, steps)
  PROVE  /\ Lists'
         /\ todo[h] = <<>> /\ todo'[h] = steps
         /\ Others(h)
  <1>1. todo' = [todo EXCEPT ![h] = steps] /\ todo[h] = <<>> /\ DOMAIN todo = All
    BY DEF Begin, Free, Lists
  <1>2. DOMAIN todo' = All /\ todo'[h] = steps /\ Others(h)
    BY <1>1 DEF Others
  <1>3. ASSUME NEW g \in All PROVE todo'[g] \in ListsOf(FitSteps(g)', LaterSteps(g)')
    <2>1. CASE g = h
      BY <1>2, <2>1
    <2>2. CASE g # h
      <3>1. todo'[g] \in ListsOf(FitSteps(g), LaterSteps(g))
        BY <1>2, <2>2 DEF Others, Lists
      <3>2. FitSteps(g) \subseteq FitSteps(g)' /\ LaterSteps(g) \subseteq LaterSteps(g)'
        BY StepsStay
      <3> QED BY <3>1, <3>2, ListsGrow
    <2> QED BY <2>1, <2>2
  <1> QED BY <1>1, <1>2, <1>3 DEF Lists

(* or what it had left is dropped, up to the catch around it.              *)
Dropped(h) ==
  \E k \in 1..Len(todo[h]) : todo'[h] = SubSeq(todo[h], k + 1, Len(todo[h]))

LEMMA SubSeqLater ==
  ASSUME NEW L, NEW F, NEW q \in ListsOf(F, L), q # <<>>, NEW k \in 1..Len(q)
  PROVE  SubSeq(q, k + 1, Len(q)) \in Seq(L)
  <1>1. Tail(q) \in Seq(L) /\ q \in Seq(F) /\ Len(Tail(q)) = Len(q) - 1
    BY DEF ListsOf
  <1>2. \A i \in 2..Len(q) : q[i] \in L
    <2> TAKE i \in 2..Len(q)
    <2>1. i - 1 \in 1..Len(Tail(q)) /\ Tail(q)[i - 1] = q[i]
      BY <1>1
    <2> QED BY <1>1, <2>1
  <1>3. Len(q) \in Nat /\ k \in Nat /\ k >= 1 /\ k + 1 \in Int /\ Len(q) \in Int
    BY <1>1
  <1>4. \A i \in (k + 1)..Len(q) : q[i] \in L
    BY <1>2, <1>3
  <1> QED BY <1>3, <1>4, SubSeqProperties

LEMMA ThrowDrops ==
  ASSUME Lists, Stays, NEW h \in All, todo[h] # <<>>, Throw(h)
  PROVE  /\ Lists' /\ Dropped(h) /\ Others(h)
         /\ todo'[h] \in Seq(LaterSteps(h)')
         /\ MayClose(h) => todo'[h] = <<>>
  <1>1. PICK q, p : q = todo[h] /\ p = todo'[h]
    OBVIOUS
  <1>2. q \in ListsOf(FitSteps(h), LaterSteps(h)) /\ q \in Seq(FitSteps(h)) /\ q # <<>>
        /\ Len(q) \in Nat /\ Len(q) # 0
    BY <1>1 DEF Lists, ListsOf
  <1>3. DOMAIN todo' = All /\ Others(h)
    BY DEF Throw, Others, Lists
  <1>4. /\ Catches(h) = {} => p = <<>>
        /\ Catches(h) # {} => \E k \in 1..Len(q) : p = SubSeq(q, k + 1, Len(q))
    <2>1. Catches(h) = {} => p = <<>>
      BY <1>1 DEF Throw, Lists
    <2>2. ASSUME Catches(h) # {} PROVE \E k \in 1..Len(q) : p = SubSeq(q, k + 1, Len(q))
      <3>1. PICK I : I = Catches(h)
        OBVIOUS
      <3>2. I \in SUBSET Nat /\ I # {} /\ I \subseteq 1..Len(q)
        BY <1>1, <1>2, <2>2, <3>1 DEF Catches
      <3>3. PICK k : k = CHOOSE i \in I : \A j \in I : i <= j
        OBVIOUS
      <3>4. k \in I
        BY <3>2, <3>3, LeastNumber
      <3>5. p = SubSeq(q, k + 1, Len(q))
        BY <1>1, <2>2, <3>1, <3>3 DEF Throw, Lists
      <3> QED BY <3>2, <3>4, <3>5
    <2> QED BY <2>1, <2>2
  <1>5. <<>> = SubSeq(q, Len(q) + 1, Len(q)) /\ Len(q) \in 1..Len(q)
    BY <1>2
  <1>6. \E k \in 1..Len(q) : p = SubSeq(q, k + 1, Len(q))
    BY <1>4, <1>5
  <1>7. p \in Seq(LaterSteps(h))
    BY <1>2, <1>6, SubSeqLater
  <1>8. FitSteps(h) \subseteq FitSteps(h)' /\ LaterSteps(h) \subseteq LaterSteps(h)'
        /\ LaterSteps(h)' \subseteq FitSteps(h)'
    BY StepsStay
  <1>9. PICK F, L : F = FitSteps(h)' /\ L = LaterSteps(h)'
    OBVIOUS
  <1>10. p \in Seq(L)
    BY <1>7, <1>8, <1>9
  <1>11. p \in ListsOf(F, L)
    BY <1>8, <1>9, <1>10, ListOfLater
  <1>12. ASSUME NEW g \in All PROVE todo'[g] \in ListsOf(FitSteps(g)', LaterSteps(g)')
    <2>1. CASE g = h
      BY <1>1, <1>9, <1>11, <2>1
    <2>2. CASE g # h
      <3>1. todo'[g] \in ListsOf(FitSteps(g), LaterSteps(g))
        BY <1>3, <2>2 DEF Others, Lists
      <3>2. FitSteps(g) \subseteq FitSteps(g)' /\ LaterSteps(g) \subseteq LaterSteps(g)'
        BY StepsStay
      <3> QED BY <3>1, <3>2, ListsGrow
    <2> QED BY <2>1, <2>2
  <1>13. ASSUME MayClose(h) PROVE Catches(h) = {}
    <2>1. ASSUME NEW i \in 1..Len(q) PROVE q[i].op # "catch"
      <3>1. q[i] \in FitSteps(h)
        BY <1>2
      <3>2. q[i].op \in OpsOf(h)
        BY <3>1 DEF FitSteps, Fits
      <3> QED BY <1>13, <3>2 DEF OpsOf, AskOps, RefundOps, SendOps, CancelOps, ReverseOps, SettleOps,
                                 SweepOps
    <2> QED BY <1>1, <2>1 DEF Catches
  <1> QED BY <1>1, <1>3, <1>4, <1>6, <1>9, <1>10, <1>12, <1>13 DEF Lists, Dropped

----------------------------------------------------------------------------
(* Sums: what Razorpay accepted to send back, what it transferred, what    *)
(* was captured, and what Razorpay did that is not posted yet.             *)

OwedOf(h) == OwedBy(todo[h], refund, transfer)

Owed == SumFunction([h \in All |-> OwedOf(h)])

InBalance ==
  faults.crashes = 0 =>
    books.GATEWAY = Refunding!SentCash + TransferredCash - CapturedCash - Owed

LEMMA CashIsInt == CashOf(Booking) \in Int /\ Booking.deposit \in Nat /\ Booking.rent \in Nat
  BY PaymentsAssumption DEF CashOf

LEMMA RefundTerm ==
  ASSUME NEW rf \in [RefundIds -> RefundRows \cup {Refunding!NoRefund}],
         NEW ac \in [RefundIds -> Nat], NEW r \in RefundIds
  PROVE  rf[r].cash \in Int /\ ac[r] * rf[r].cash \in Int
  <1>1. rf[r].cash \in Int /\ ac[r] \in Int
    BY DEF RefundRows, Refunding!NoRefund
  <1> QED BY <1>1

LEMMA TransferTerm ==
  ASSUME NEW tr \in [TransferIds -> TransferRows \cup {Paying!NoTransfer}],
         NEW rp \in [TransferIds -> AtRazorpay], NEW t \in TransferIds
  PROVE  tr[t].amount \in Int /\ tr[t].amount * (rp[t].held + rp[t].lender) \in Int
  <1>1. tr[t].amount \in Int /\ rp[t].held \in Int /\ rp[t].lender \in Int
    BY DEF TransferRows, Paying!NoTransfer, AtRazorpay
  <1> QED BY <1>1

LEMMA PaymentTerm ==
  ASSUME NEW py \in [Orders -> PaymentRows \cup {NoPayment}], NEW o \in Orders
  PROVE  py[o].amount \in Int
  BY CashIsInt DEF PaymentRows, NoPayment

LEMMA OwedTerm ==
  ASSUME NEW rf \in [RefundIds -> RefundRows \cup {Refunding!NoRefund}],
         NEW tr \in [TransferIds -> TransferRows \cup {Paying!NoTransfer}],
         NEW q, q # <<>> => Head(q) \in Steps
  PROVE  OwedBy(q, rf, tr) \in Int
  <1>1. CASE q = <<>>
    BY <1>1 DEF OwedBy
  <1>2. CASE q # <<>>
    <2>1. PICK s : s = Head(q)
      OBVIOUS
    <2>2. s \in Steps
      BY <1>2, <2>1
    <2>3. /\ s.op \in {"tallyRefund", "saveRefund"} => rf[s.id].cash \in Int
          /\ s.op \in {"saveTransfer", "saveReversal"} => tr[s.id].amount \in Int
      <3>1. s.op \in {"tallyRefund", "saveRefund"} => s.id \in RefundIds
        BY <2>2, RefundForms DEF RefundOps
      <3>2. s.op \in {"saveTransfer", "saveReversal"} => s.id \in TransferIds
        BY <2>2, TransferForms DEF RowOps, SendOps, ReverseOps
      <3> QED BY <3>1, <3>2 DEF RefundRows, Refunding!NoRefund, TransferRows, Paying!NoTransfer
    <2> QED BY <1>2, <2>1, <2>3 DEF OwedBy, OwedFor
  <1> QED BY <1>1, <1>2

(* The refunds' own sums are the same ones.                                *)
LEMMA SameSum ==
  ASSUME NEW f
  PROVE  Refunding!SumFunction(f) = SumFunction(f)
  BY DEF Refunding!SumFunction, Refunding!SumFunctionOnSet, Refunding!FoldFunctionOnSet,
         Refunding!MapThenFoldSet, SumFunction, SumFunctionOnSet, FoldFunctionOnSet, MapThenFoldSet

LEMMA SentSame ==
  ASSUME \A r \in RefundIds : Refunding!SentOf(r)' = Refunding!SentOf(r)
  PROVE  Refunding!SentCash' = Refunding!SentCash
  <1>1. [r \in RefundIds |-> Refunding!SentOf(r)'] = [r \in RefundIds |-> Refunding!SentOf(r)]
    OBVIOUS
  <1> QED BY <1>1, Ids DEF Refunding!SentCash

LEMMA SentMoved ==
  ASSUME RowTypes, RowTypes', NEW r \in RefundIds,
         \A q \in RefundIds : q # r => Refunding!SentOf(q)' = Refunding!SentOf(q)
  PROVE  /\ Refunding!SentCash \in Int
         /\ Refunding!SentCash' = Refunding!SentCash + Refunding!SentOf(r)' - Refunding!SentOf(r)
  <1>1. PICK f, g : /\ f = [q \in RefundIds |-> Refunding!SentOf(q)]
                    /\ g = [q \in RefundIds |-> Refunding!SentOf(q)']
    OBVIOUS
  <1>2. \A q \in RefundIds : Refunding!SentOf(q) \in Int /\ Refunding!SentOf(q)' \in Int
    BY RefundTerm DEF RowTypes, Refunding!SentOf
  <1>3. /\ f \in [RefundIds -> Int] /\ g \in [RefundIds -> Int]
        /\ f[r] = Refunding!SentOf(r) /\ g[r] = Refunding!SentOf(r)'
        /\ \A q \in RefundIds : q # r => g[q] = f[q]
    BY <1>1, <1>2
  <1>4. SumFunction(f) \in Int /\ SumFunction(g) = SumFunction(f) + g[r] - f[r]
    BY <1>3, Finite, SumMoved
  <1>5. Refunding!SentCash = SumFunction(f) /\ Refunding!SentCash' = SumFunction(g)
    BY <1>1, Ids, SameSum DEF Refunding!SentCash
  <1> QED BY <1>3, <1>4, <1>5

LEMMA TransferredSame ==
  ASSUME \A t \in TransferIds : TransferredOf(t)' = TransferredOf(t)
  PROVE  TransferredCash' = TransferredCash
  <1>1. [t \in TransferIds |-> TransferredOf(t)'] = [t \in TransferIds |-> TransferredOf(t)]
    OBVIOUS
  <1> QED BY <1>1, Ids DEF TransferredCash

LEMMA TransferredMoved ==
  ASSUME RowTypes, RowTypes', NEW t \in TransferIds,
         \A q \in TransferIds : q # t => TransferredOf(q)' = TransferredOf(q)
  PROVE  /\ TransferredCash \in Int
         /\ TransferredCash' = TransferredCash + TransferredOf(t)' - TransferredOf(t)
  <1>1. PICK f, g : /\ f = [q \in TransferIds |-> TransferredOf(q)]
                    /\ g = [q \in TransferIds |-> TransferredOf(q)']
    OBVIOUS
  <1>2. \A q \in TransferIds : TransferredOf(q) \in Int /\ TransferredOf(q)' \in Int
    BY TransferTerm DEF RowTypes, TransferredOf
  <1>3. /\ f \in [TransferIds -> Int] /\ g \in [TransferIds -> Int]
        /\ f[t] = TransferredOf(t) /\ g[t] = TransferredOf(t)'
        /\ \A q \in TransferIds : q # t => g[q] = f[q]
    BY <1>1, <1>2
  <1>4. SumFunction(f) \in Int /\ SumFunction(g) = SumFunction(f) + g[t] - f[t]
    BY <1>3, Finite, SumMoved
  <1>5. TransferredCash = SumFunction(f) /\ TransferredCash' = SumFunction(g)
    BY <1>1, Ids DEF TransferredCash
  <1> QED BY <1>3, <1>4, <1>5

LEMMA CapturedSame ==
  ASSUME \A o \in Orders : CapturedOf(o)' = CapturedOf(o)
  PROVE  CapturedCash' = CapturedCash
  <1>1. [o \in Orders |-> CapturedOf(o)'] = [o \in Orders |-> CapturedOf(o)]
    OBVIOUS
  <1> QED BY <1>1 DEF CapturedCash

LEMMA CapturedMoved ==
  ASSUME RowTypes, RowTypes', NEW o \in Orders,
         \A q \in Orders : q # o => CapturedOf(q)' = CapturedOf(q)
  PROVE  /\ CapturedCash \in Int
         /\ CapturedCash' = CapturedCash + CapturedOf(o)' - CapturedOf(o)
  <1>1. PICK f, g : /\ f = [q \in Orders |-> CapturedOf(q)]
                    /\ g = [q \in Orders |-> CapturedOf(q)']
    OBVIOUS
  <1>2. \A q \in Orders : CapturedOf(q) \in Int /\ CapturedOf(q)' \in Int
    BY PaymentTerm DEF RowTypes, CapturedOf
  <1>3. /\ f \in [Orders -> Int] /\ g \in [Orders -> Int]
        /\ f[o] = CapturedOf(o) /\ g[o] = CapturedOf(o)'
        /\ \A q \in Orders : q # o => g[q] = f[q]
    BY <1>1, <1>2
  <1>4. SumFunction(f) \in Int /\ SumFunction(g) = SumFunction(f) + g[o] - f[o]
    BY <1>3, Finite, SumMoved
  <1>5. CapturedCash = SumFunction(f) /\ CapturedCash' = SumFunction(g)
    BY <1>1 DEF CapturedCash
  <1> QED BY <1>3, <1>4, <1>5

(* A call owes what it did, whatever the others do.                        *)
LEMMA OwedStays ==
  ASSUME Lists, Stays, NEW h \in All, todo'[h] = todo[h]
  PROVE  OwedOf(h)' = OwedOf(h)
  <1>1. CASE todo[h] = <<>>
    BY <1>1 DEF OwedOf, OwedBy
  <1>2. CASE todo[h] # <<>>
    <2>1. PICK s : s = Head(todo[h])
      OBVIOUS
    <2>2. s \in Steps /\ Fits(h, s)
      BY <1>2, <2>1, NextStep DEF Arg
    <2>3. s.op \in {"tallyRefund", "saveRefund"} => refund'[s.id].cash = refund[s.id].cash
      BY <2>2, RefundForms DEF Fits, Stays, RefundOps
    <2>4. s.op \in {"saveTransfer", "saveReversal"} => transfer'[s.id].amount = transfer[s.id].amount
      BY <2>2, TransferForms DEF Fits, Stays, RowOps, SendOps, ReverseOps
    <2>5. OwedFor(s, refund', transfer') = OwedFor(s, refund, transfer)
      BY <2>3, <2>4 DEF OwedFor
    <2>6. OwedOf(h) = OwedFor(s, refund, transfer) /\ OwedOf(h)' = OwedFor(s, refund', transfer')
      BY <1>2, <2>1 DEF OwedOf, OwedBy
    <2> QED BY <2>5, <2>6
  <1> QED BY <1>1, <1>2

LEMMA OwedMoved ==
  ASSUME RowTypes, RowTypes', Lists, Lists', Stays, NEW h \in All, Others(h)
  PROVE  Owed \in Int /\ Owed' = Owed + OwedOf(h)' - OwedOf(h)
  <1>1. PICK f, g : f = [q \in All |-> OwedOf(q)] /\ g = [q \in All |-> OwedOf(q)']
    OBVIOUS
  <1>2. \A q \in All : OwedOf(q) \in Int /\ OwedOf(q)' \in Int
    <2> TAKE q \in All
    <2>1. todo[q] # <<>> => Head(todo[q]) \in Steps
      BY HeadFits DEF Lists, FitSteps
    <2>2. todo'[q] # <<>> => Head(todo'[q]) \in Steps
      BY HeadFits DEF Lists, FitSteps
    <2> QED BY <2>1, <2>2, OwedTerm DEF RowTypes, OwedOf
  <1>3. \A q \in All : q # h => OwedOf(q)' = OwedOf(q)
    BY OwedStays DEF Others
  <1>4. /\ f \in [All -> Int] /\ g \in [All -> Int]
        /\ f[h] = OwedOf(h) /\ g[h] = OwedOf(h)'
        /\ \A q \in All : q # h => g[q] = f[q]
    BY <1>1, <1>2, <1>3
  <1>5. SumFunction(f) \in Int /\ SumFunction(g) = SumFunction(f) + g[h] - f[h]
    BY <1>4, Finite, SumMoved
  <1>6. Owed = SumFunction(f) /\ Owed' = SumFunction(g)
    BY <1>1 DEF Owed, All
  <1> QED BY <1>4, <1>5, <1>6

LEMMA SumsAreInts ==
  ASSUME RowTypes, Lists
  PROVE  /\ Refunding!SentCash \in Int /\ TransferredCash \in Int /\ CapturedCash \in Int
         /\ Owed \in Int
  <1>1. Refunding!SentCash \in Int
    <2>1. [r \in RefundIds |-> Refunding!SentOf(r)] \in [RefundIds -> Int]
      BY RefundTerm DEF RowTypes, Refunding!SentOf
    <2> QED BY <2>1, Finite, Ids, SameSum, SumType DEF Refunding!SentCash
  <1>2. TransferredCash \in Int
    <2>1. [t \in TransferIds |-> TransferredOf(t)] \in [TransferIds -> Int]
      BY TransferTerm DEF RowTypes, TransferredOf
    <2> QED BY <2>1, Finite, Ids, SumType DEF TransferredCash
  <1>3. CapturedCash \in Int
    <2>1. [o \in Orders |-> CapturedOf(o)] \in [Orders -> Int]
      BY PaymentTerm DEF RowTypes, CapturedOf
    <2> QED BY <2>1, Finite, SumType DEF CapturedCash
  <1>4. Owed \in Int
    <2>1. \A h \in All : OwedOf(h) \in Int
      <3> TAKE h \in All
      <3>1. todo[h] # <<>> => Head(todo[h]) \in Steps
        BY HeadFits DEF Lists, FitSteps
      <3> QED BY <3>1, OwedTerm DEF RowTypes, OwedOf
    <2>2. [h \in All |-> OwedOf(h)] \in [All -> Int]
      BY <2>1
    <2> QED BY <2>2, Finite, SumType DEF Owed
  <1> QED BY <1>1, <1>2, <1>3, <1>4

----------------------------------------------------------------------------
(* The invariant: the calls in progress fit what they are about, and the   *)
(* balance is what Razorpay did but for what is still owed to the books.   *)

PaymentsInv == CallsFit /\ InBalance

(* A step leaves the rows as they should be, *)
RowsStand ==
  /\ Stays
  /\ BookingTypes' /\ RowTypes' /\ OtherTypes' /\ RefundRowsFit'
  /\ \A o \in Orders : payment'[o] # NoPayment => payment[o] # NoPayment
  /\ checkouts.created \subseteq checkouts'.created
  /\ faults'.crashes = 0 => faults.crashes = 0

(* and the sums as they were, *)
SumsStay ==
  /\ Refunding!SentCash' = Refunding!SentCash
  /\ TransferredCash' = TransferredCash
  /\ CapturedCash' = CapturedCash

(* or, by what a call owes afterwards, in balance.                         *)
Offsets(h, ds, dt, dc, dg) ==
  /\ Refunding!SentCash' = Refunding!SentCash + ds
  /\ TransferredCash' = TransferredCash + dt
  /\ CapturedCash' = CapturedCash + dc
  /\ books'.GATEWAY = books.GATEWAY + dg
  /\ OwedOf(h)' = OwedOf(h) + ds + dt - dc - dg

LEMMA FitKept ==
  ASSUME CallsFit, RowsStand, Lists', NEW h \in All, Others(h),
         \A o \in Orders : Inserts(todo'[h], o) => Inserts(todo[h], o)
  PROVE  CallsFit'
  <1>1. ASSUME NEW o \in Orders
        PROVE  /\ payment'[o] # NoPayment => o \in checkouts'.created
               /\ \A g \in All : Inserts(todo'[g], o) => Inserts(todo[g], o)
    <2>1. payment'[o] # NoPayment => o \in checkouts'.created
      BY DEF RowsStand, CallsFit, NewOrders
    <2> QED BY <2>1 DEF Others
  <1>2. ASSUME NEW o \in Orders, NEW h1 \in All, Inserts(todo'[h1], o)
        PROVE  /\ o \in checkouts'.created
               /\ payment'[o] = NoPayment
               /\ \A g \in All : Inserts(todo'[g], o) => g = h1
    <2>1. Inserts(todo[h1], o)
      BY <1>1, <1>2
    <2>2. /\ o \in checkouts.created /\ payment[o] = NoPayment
          /\ \A g \in All : Inserts(todo[g], o) => g = h1
      BY <2>1 DEF CallsFit, NewOrders
    <2> QED BY <1>1, <2>2 DEF RowsStand
  <1>3. NewOrders'
    BY <1>1, <1>2 DEF NewOrders
  <1> QED BY <1>3 DEF CallsFit, RowsStand

LEMMA BalanceStays ==
  ASSUME PaymentsInv, Stays, RowTypes', faults'.crashes = 0 => faults.crashes = 0, Lists',
         NEW h \in All, Others(h),
         NEW ds \in Int, NEW dt \in Int, NEW dc \in Int, NEW dg \in Int, Offsets(h, ds, dt, dc, dg)
  PROVE  InBalance'
  <1>1. RowTypes /\ Lists
    BY DEF PaymentsInv, CallsFit
  <1>2. Owed \in Int /\ Owed' = Owed + OwedOf(h)' - OwedOf(h)
    BY <1>1, OwedMoved
  <1>3. Refunding!SentCash \in Int /\ TransferredCash \in Int /\ CapturedCash \in Int
    BY <1>1, SumsAreInts
  <1>4. OwedOf(h) \in Int
    <2>1. todo[h] # <<>> => Head(todo[h]) \in Steps
      BY <1>1, HeadFits DEF Lists, FitSteps
    <2> QED BY <1>1, <2>1, OwedTerm DEF RowTypes, OwedOf
  <1>5. books.GATEWAY \in Int
    BY DEF PaymentsInv, CallsFit, OtherTypes
  <1>6. ASSUME faults'.crashes = 0
        PROVE  books'.GATEWAY =
                 Refunding!SentCash' + TransferredCash' - CapturedCash' - Owed'
    <2>1. books.GATEWAY = Refunding!SentCash + TransferredCash - CapturedCash - Owed
      BY <1>6 DEF PaymentsInv, InBalance
    <2>2. Owed' = Owed + ds + dt - dc - dg
      BY <1>2, <1>4 DEF Offsets
    <2> QED BY ONLY <1>2, <1>3, <1>5, <2>1, <2>2, ds \in Int, dt \in Int, dc \in Int, dg \in Int,
                    Offsets(h, ds, dt, dc, dg) DEF Offsets
  <1> QED BY <1>6 DEF InBalance

LEMMA BalanceKept ==
  ASSUME PaymentsInv, RowsStand, Lists', NEW h \in All, Others(h),
         NEW ds \in Int, NEW dt \in Int, NEW dc \in Int, NEW dg \in Int, Offsets(h, ds, dt, dc, dg)
  PROVE  InBalance'
  BY BalanceStays DEF RowsStand

(* What is next in a list that owes nothing.                               *)
Plain(q) == q # <<>> => Head(q).op \notin OwedOps \cup {"insertPayment"}

LEMMA PlainOwesNothing ==
  ASSUME NEW q, NEW rf, NEW tr, Plain(q)
  PROVE  OwedBy(q, rf, tr) = 0 /\ \A o : ~Inserts(q, o)
  BY DEF Plain, OwedBy, OwedFor, OwedOps, Inserts

(* A call whose step moves no money goes on.                               *)
LEMMA OnHolds ==
  ASSUME PaymentsInv, RowsStand, SumsStay, books'.GATEWAY = books.GATEWAY,
         NEW h \in All, todo[h] # <<>>, Arg(h).op \notin OwedOps,
         NEW steps \in ListsOf(FitSteps(h)', LaterSteps(h)'), Plain(steps), Continue(h, steps)
  PROVE  PaymentsInv' /\ Goes(h, steps)
  <1>1. Lists /\ Stays
    BY DEF PaymentsInv, CallsFit, RowsStand
  <1>2. /\ Lists' /\ Goes(h, steps)
        /\ OwedBy(todo'[h], refund', transfer') = OwedBy(steps, refund', transfer')
        /\ \A o : Inserts(todo'[h], o) => Inserts(steps, o)
    BY <1>1, GoesOn
  <1>3. OwedBy(steps, refund', transfer') = 0 /\ \A o : ~Inserts(steps, o)
    BY PlainOwesNothing
  <1>4. OwedOf(h)' = 0
    BY <1>2, <1>3 DEF OwedOf
  <1>5. OwedOf(h) = 0
    BY DEF OwedOf, OwedBy, OwedFor, OwedOps, Arg
  <1>6. Others(h)
    BY <1>2 DEF Goes
  <1>7. books.GATEWAY \in Int /\ RowTypes
    BY DEF PaymentsInv, CallsFit, OtherTypes
  <1>8. Refunding!SentCash \in Int /\ TransferredCash \in Int /\ CapturedCash \in Int
    BY <1>1, <1>7, SumsAreInts
  <1>9. Offsets(h, 0, 0, 0, 0)
    BY <1>4, <1>5, <1>7, <1>8 DEF Offsets, SumsStay
  <1>10. InBalance'
    BY <1>2, <1>6, <1>9, BalanceKept
  <1>11. CallsFit'
    BY <1>2, <1>3, <1>6, FitKept DEF PaymentsInv
  <1> QED BY <1>2, <1>10, <1>11 DEF PaymentsInv

(* One that starts, or that goes no further, owes nothing either.          *)
LEMMA ChangedHolds ==
  ASSUME PaymentsInv, RowsStand, SumsStay, books'.GATEWAY = books.GATEWAY, Lists',
         NEW h \in All, Others(h), OwedOf(h) = 0, OwedOf(h)' = 0,
         \A o \in Orders : ~Inserts(todo'[h], o)
  PROVE  PaymentsInv'
  <1>1. books.GATEWAY \in Int /\ RowTypes /\ Lists
    BY DEF PaymentsInv, CallsFit, OtherTypes
  <1>2. Refunding!SentCash \in Int /\ TransferredCash \in Int /\ CapturedCash \in Int
    BY <1>1, SumsAreInts
  <1>3. Offsets(h, 0, 0, 0, 0)
    BY <1>1, <1>2 DEF Offsets, SumsStay
  <1>4. InBalance'
    BY <1>3, BalanceKept
  <1>5. CallsFit'
    BY FitKept DEF PaymentsInv
  <1> QED BY <1>4, <1>5 DEF PaymentsInv

LEMMA StartHolds ==
  ASSUME PaymentsInv, RowsStand, SumsStay, books'.GATEWAY = books.GATEWAY,
         NEW h \in All, NEW steps \in ListsOf(FitSteps(h)', LaterSteps(h)'), Plain(steps),
         Begin(h, steps)
  PROVE  PaymentsInv' /\ todo[h] = <<>> /\ todo'[h] = steps /\ Others(h)
  <1>1. Lists /\ Stays
    BY DEF PaymentsInv, CallsFit, RowsStand
  <1>2. Lists' /\ todo[h] = <<>> /\ todo'[h] = steps /\ Others(h)
    BY <1>1, Starting
  <1>3. OwedOf(h) = 0
    BY <1>2 DEF OwedOf, OwedBy
  <1>4. OwedOf(h)' = 0 /\ \A o : ~Inserts(todo'[h], o)
    BY <1>2, PlainOwesNothing DEF OwedOf
  <1> QED BY <1>2, <1>3, <1>4, ChangedHolds

LEMMA ThrowHolds ==
  ASSUME PaymentsInv, RowsStand, SumsStay, books'.GATEWAY = books.GATEWAY,
         NEW h \in All, todo[h] # <<>>, Arg(h).op \notin OwedOps, Throw(h)
  PROVE  /\ PaymentsInv' /\ Dropped(h) /\ Others(h)
         /\ MayClose(h) => todo'[h] = <<>>
  <1>1. Lists /\ Stays
    BY DEF PaymentsInv, CallsFit, RowsStand
  <1>2. /\ Lists' /\ Dropped(h) /\ Others(h) /\ todo'[h] \in Seq(LaterSteps(h)')
        /\ MayClose(h) => todo'[h] = <<>>
    BY <1>1, ThrowDrops
  <1>3. OwedOf(h) = 0
    BY DEF OwedOf, OwedBy, OwedFor, OwedOps, Arg
  <1>4. PICK q, rf, tr : q = todo'[h] /\ rf = refund' /\ tr = transfer'
    OBVIOUS
  <1>5. OwedBy(q, rf, tr) = 0 /\ \A o : ~Inserts(q, o)
    <2>1. Plain(q)
      <3>1. q # <<>> => Head(q) \in LaterSteps(h)'
        BY <1>2, <1>4
      <3>2. q # <<>> => Head(q).op \in LaterOps
        BY <3>1 DEF LaterSteps
      <3> QED BY <3>2 DEF Plain, LaterOps, OwedOps
    <2> QED BY <2>1, PlainOwesNothing
  <1>6. OwedOf(h)' = 0 /\ \A o \in Orders : ~Inserts(todo'[h], o)
    BY <1>4, <1>5 DEF OwedOf
  <1>7. PaymentsInv'
    BY <1>2, <1>3, <1>6, ChangedHolds
  <1> QED BY <1>2, <1>7

LEMMA RestHolds ==
  ASSUME PaymentsInv, RowsStand, SumsStay, books'.GATEWAY = books.GATEWAY, UNCHANGED todo
  PROVE  PaymentsInv'
  <1>1. Lists /\ Stays /\ RowTypes /\ RowTypes' /\ NewOrders /\ books.GATEWAY \in Int
    BY DEF PaymentsInv, CallsFit, RowsStand, OtherTypes
  <1>2. Lists'
    <2>1. \A g \in All : todo'[g] \in ListsOf(FitSteps(g)', LaterSteps(g)')
      <3> TAKE g \in All
      <3>1. todo'[g] \in ListsOf(FitSteps(g), LaterSteps(g))
        BY <1>1 DEF Lists
      <3> QED BY <1>1, <3>1, StepsStay, ListsGrow
    <2> QED BY <1>1, <2>1 DEF Lists
  <1>3. Owed' = Owed
    <2>1. \A h \in All : OwedOf(h)' = OwedOf(h)
      BY <1>1, OwedStays
    <2>2. [h \in All |-> OwedOf(h)'] = [h \in All |-> OwedOf(h)]
      BY <2>1
    <2> QED BY <2>2 DEF Owed, All
  <1>4. InBalance'
    BY <1>3 DEF InBalance, PaymentsInv, SumsStay, RowsStand
  <1>5. NewOrders'
    BY <1>1 DEF NewOrders, RowsStand
  <1> QED BY <1>2, <1>4, <1>5 DEF PaymentsInv, CallsFit, RowsStand

----------------------------------------------------------------------------
(* The rows                                                                *)

PaymentsStand ==
  \A o \in Orders : /\ payment'[o] # NoPayment => payment[o] # NoPayment
                    /\ o \in Captured => o \in Captured'

RefundsStand ==
  \A r \in RefundIds :
    /\ refund[r] # Refunding!NoRefund =>
         /\ refund'[r] # Refunding!NoRefund
         /\ refund'[r].payment = refund[r].payment /\ refund'[r].kind = refund[r].kind
         /\ refund'[r].cash = refund[r].cash /\ refund'[r].amounts = refund[r].amounts
    /\ refund[r] = Refunding!NoRefund /\ refund'[r] # Refunding!NoRefund =>
         RefundFits(refund[r])'

TransfersStand ==
  \A t \in TransferIds : transfer[t] # Paying!NoTransfer =>
    transfer'[t] # Paying!NoTransfer /\ transfer'[t].amount = transfer[t].amount

BookingStands ==
  /\ status = "CANCELLED" => status' = "CANCELLED"
  /\ status = "COMPLETED" => status' = "COMPLETED" /\ kept' = kept

SameFaults == faults' \in [crashes : Nat, failures : Nat] /\ faults'.crashes = faults.crashes

LEMMA FaultsStay ==
  ASSUME OtherTypes, UNCHANGED faults \/ Refused
  PROVE  SameFaults
  BY DEF OtherTypes, SameFaults, Refused

LEMMA StandTogether ==
  ASSUME CallsFit, BookingTypes', RowTypes', OtherTypes', PaymentsStand, RefundsStand,
         TransfersStand, BookingStands, checkouts.created \subseteq checkouts'.created,
         faults'.crashes = 0 => faults.crashes = 0
  PROVE  RowsStand
  <1>1. Stays
    <2>1. Captured \subseteq Captured'
      BY DEF PaymentsStand, Captured, PaymentsIn
    <2> QED BY <2>1 DEF RefundsStand, TransfersStand, BookingStands, Stays
  <1>2. ASSUME NEW r \in RefundIds, refund'[r] # Refunding!NoRefund
        PROVE  RefundFits(refund[r])'
    <2>1. CASE refund[r] = Refunding!NoRefund
      BY <1>2, <2>1 DEF RefundsStand
    <2>2. CASE refund[r] # Refunding!NoRefund
      <3>1. PICK x, y : x = refund[r] /\ y = refund'[r]
        OBVIOUS
      <3>2. RefundFits(x)
        BY <2>2, <3>1 DEF CallsFit, RefundRowsFit
      <3>3. RefundFits(x)'
        BY <1>1, <3>2, RefundStaysFit
      <3>4. y.payment = x.payment /\ y.kind = x.kind /\ y.cash = x.cash /\ y.amounts = x.amounts
        BY <2>2, <3>1 DEF RefundsStand
      <3>5. RefundFits(y)'
        BY <3>3, <3>4 DEF RefundFits
      <3> QED BY <3>1, <3>5 DEF RefundFits
    <2> QED BY <2>1, <2>2
  <1>3. RefundRowsFit'
    BY <1>2 DEF RefundRowsFit
  <1> QED BY <1>1, <1>3 DEF RowsStand, PaymentsStand

(* A step that leaves the rows alone, *)
LEMMA NoRows ==
  ASSUME CallsFit, UNCHANGED <<payment, refund, accepted, transfer, razorpay, books>>,
         BookingTypes', BookingStands,
         checkouts' \in [created : SUBSET Orders, paid : SUBSET Orders],
         checkouts.created \subseteq checkouts'.created,
         webhooks' \in [raised : SUBSET Events, seen : SUBSET Events, answered : SUBSET Events],
         UNCHANGED faults \/ Refused
  PROVE  RowsStand /\ SumsStay /\ books'.GATEWAY = books.GATEWAY
  <1>1. SameFaults
    BY FaultsStay DEF CallsFit
  <1>2. RowTypes' /\ OtherTypes'
    BY <1>1 DEF CallsFit, RowTypes, OtherTypes, SameFaults
  <1>3. PaymentsStand /\ RefundsStand /\ TransfersStand
    <2>1. Captured' = Captured
      BY DEF Captured, PaymentsIn
    <2> QED BY <2>1 DEF PaymentsStand, RefundsStand, TransfersStand
  <1>4. RowsStand
    BY <1>1, <1>2, <1>3, StandTogether DEF SameFaults
  <1>5. SumsStay
    <2>1. \A r \in RefundIds : Refunding!SentOf(r)' = Refunding!SentOf(r)
      BY DEF Refunding!SentOf
    <2>2. \A t \in TransferIds : TransferredOf(t)' = TransferredOf(t)
      BY DEF TransferredOf
    <2>3. \A o \in Orders : CapturedOf(o)' = CapturedOf(o)
      BY DEF CapturedOf, Captured, PaymentsIn
    <2> QED BY <2>1, <2>2, <2>3, SentSame, TransferredSame, CapturedSame DEF SumsStay
  <1> QED BY <1>4, <1>5

(* or all of it but what the call still has to do,                         *)
Unmoved ==
  /\ UNCHANGED <<bookingRow, payment, refund, accepted, transfer, razorpay, books, checkouts>>
  /\ webhooks' \in [raised : SUBSET Events, seen : SUBSET Events, answered : SUBSET Events]
  /\ recent' \subseteq All
  /\ UNCHANGED faults \/ Refused

LEMMA UnmovedStands ==
  ASSUME CallsFit, Unmoved
  PROVE  RowsStand /\ SumsStay /\ books'.GATEWAY = books.GATEWAY
  <1>1. BookingTypes' /\ BookingStands
    BY DEF CallsFit, BookingTypes, BookingStands, Unmoved, bookingRow
  <1>2. checkouts' \in [created : SUBSET Orders, paid : SUBSET Orders]
    BY DEF CallsFit, OtherTypes, Unmoved
  <1> QED BY <1>1, <1>2, NoRows DEF Unmoved

(* one that changes a payment row, a refund row, ...                       *)
Beside ==
  /\ UNCHANGED <<bookingVars, gatewayVars>>
  /\ UNCHANGED faults \/ Refused
  /\ books'.GATEWAY \in Int /\ books'.DEPOSIT_HELD \in Int

LEMMA BesideStands ==
  ASSUME CallsFit, Beside
  PROVE  BookingTypes' /\ OtherTypes' /\ BookingStands /\ SameFaults
  <1>1. SameFaults
    BY FaultsStay DEF CallsFit, Beside
  <1>2. BookingTypes' /\ BookingStands
    BY DEF CallsFit, BookingTypes, BookingStands, Beside, bookingVars, bookingRow
  <1>3. OtherTypes'
    BY <1>1 DEF CallsFit, OtherTypes, Beside, gatewayVars, SameFaults
  <1> QED BY <1>1, <1>2, <1>3

LEMMA PaymentSet ==
  ASSUME CallsFit, Beside, UNCHANGED <<refund, accepted, transfer, razorpay>>,
         NEW o \in Orders, NEW row \in PaymentRows, payment' = [payment EXCEPT ![o] = row],
         payment[o] # NoPayment, o \in Captured => o \in Captured'
  PROVE  /\ RowsStand
         /\ Refunding!SentCash' = Refunding!SentCash /\ TransferredCash' = TransferredCash
         /\ CapturedCash' = CapturedCash + CapturedOf(o)' - CapturedOf(o)
         /\ payment'[o] = row /\ \A p \in Orders : p # o => payment'[p] = payment[p]
  <1>1. /\ payment' \in [Orders -> PaymentRows \cup {NoPayment}] /\ payment'[o] = row
        /\ \A p \in Orders : p # o => payment'[p] = payment[p]
    BY DEF CallsFit, RowTypes
  <1>2. RowTypes'
    BY <1>1 DEF CallsFit, RowTypes
  <1>3. RefundsStand /\ TransfersStand
    BY DEF RefundsStand, TransfersStand
  <1>4. \A p \in Orders : p # o => (p \in Captured' <=> p \in Captured)
    BY <1>1 DEF Captured, PaymentsIn
  <1>5. PaymentsStand
    BY <1>1, <1>4 DEF PaymentsStand
  <1>6. RowsStand
    BY <1>2, <1>3, <1>5, BesideStands, StandTogether DEF Beside, gatewayVars, SameFaults
  <1>7. Refunding!SentCash' = Refunding!SentCash /\ TransferredCash' = TransferredCash
    <2>1. \A r \in RefundIds : Refunding!SentOf(r)' = Refunding!SentOf(r)
      BY DEF Refunding!SentOf
    <2>2. \A t \in TransferIds : TransferredOf(t)' = TransferredOf(t)
      BY DEF TransferredOf
    <2> QED BY <2>1, <2>2, SentSame, TransferredSame
  <1>8. \A p \in Orders : p # o => CapturedOf(p)' = CapturedOf(p)
    BY <1>1, <1>4 DEF CapturedOf
  <1> QED BY <1>1, <1>2, <1>6, <1>7, <1>8, CapturedMoved DEF CallsFit

LEMMA RefundSet ==
  ASSUME CallsFit, Beside, UNCHANGED <<accepted, transfer, razorpay>>,
         payment' \in [Orders -> PaymentRows \cup {NoPayment}], PaymentsStand,
         NEW r \in RefundIds, NEW row \in RefundRows, refund' = [refund EXCEPT ![r] = row],
         refund[r] # Refunding!NoRefund,
         row.payment = refund[r].payment, row.kind = refund[r].kind, row.cash = refund[r].cash,
         row.amounts = refund[r].amounts
  PROVE  /\ RowsStand
         /\ Refunding!SentCash' = Refunding!SentCash /\ TransferredCash' = TransferredCash
         /\ refund'[r] = row /\ \A q \in RefundIds : q # r => refund'[q] = refund[q]
  <1>1. /\ refund' \in [RefundIds -> RefundRows \cup {Refunding!NoRefund}]
        /\ refund'[r] = row /\ \A q \in RefundIds : q # r => refund'[q] = refund[q]
    BY DEF CallsFit, RowTypes
  <1>2. row # Refunding!NoRefund
    BY DEF RefundRows, Refunding!NoRefund
  <1>3. RowTypes'
    BY <1>1, <1>2 DEF CallsFit, RowTypes
  <1>4. RefundsStand
    BY <1>1, <1>2 DEF RefundsStand
  <1>5. TransfersStand
    BY DEF TransfersStand
  <1>6. RowsStand
    BY <1>3, <1>4, <1>5, BesideStands, StandTogether DEF Beside, gatewayVars, SameFaults
  <1>7. Refunding!SentCash' = Refunding!SentCash
    <2>1. \A q \in RefundIds : refund'[q].cash = refund[q].cash
      BY <1>1
    <2>2. \A q \in RefundIds : Refunding!SentOf(q)' = Refunding!SentOf(q)
      BY <2>1 DEF Refunding!SentOf
    <2> QED BY <2>2, SentSame
  <1>8. TransferredCash' = TransferredCash
    <2>1. \A t \in TransferIds : TransferredOf(t)' = TransferredOf(t)
      BY DEF TransferredOf
    <2> QED BY <2>1, TransferredSame
  <1> QED BY <1>1, <1>6, <1>7, <1>8

LEMMA RefundMade ==
  ASSUME CallsFit, Beside, UNCHANGED <<payment, accepted, transfer, razorpay>>,
         NEW r \in RefundIds, NEW row \in RefundRows, refund' = [refund EXCEPT ![r] = row],
         refund[r] = Refunding!NoRefund, RefundFits(row)
  PROVE  /\ RowsStand /\ SumsStay
         /\ refund'[r] = row /\ row # Refunding!NoRefund
         /\ \A q \in RefundIds : q # r => refund'[q] = refund[q]
  <1>1. /\ refund' \in [RefundIds -> RefundRows \cup {Refunding!NoRefund}]
        /\ refund'[r] = row /\ \A q \in RefundIds : q # r => refund'[q] = refund[q]
    BY DEF CallsFit, RowTypes
  <1>2. row # Refunding!NoRefund
    BY DEF RefundRows, Refunding!NoRefund
  <1>3. RowTypes'
    BY <1>1, <1>2 DEF CallsFit, RowTypes
  <1>4. RefundsStand
    <2>1. UNCHANGED <<status, kept, payment>>
      BY DEF Beside, bookingVars, bookingRow
    <2>2. RefundFits(row)'
      BY <2>1 DEF RefundFits, Captured, PaymentsIn, KeptOfDeposit
    <2>3. RefundFits(refund[r])'
      BY <1>1, <2>2 DEF RefundFits
    <2> QED BY <1>1, <2>3 DEF RefundsStand
  <1>5. TransfersStand /\ PaymentsStand
    BY DEF TransfersStand, PaymentsStand, Captured, PaymentsIn
  <1>6. RowsStand
    BY <1>3, <1>4, <1>5, BesideStands, StandTogether DEF Beside, gatewayVars, SameFaults
  <1>7. \A q \in RefundIds : Refunding!SentOf(q)' = Refunding!SentOf(q)
    <2>1. accepted[r] = 0 /\ accepted'[r] = 0 /\ refund[r].cash \in Int /\ row.cash \in Int
      BY DEF CallsFit, RowTypes, RefundRows, Refunding!NoRefund
    <2>2. Refunding!SentOf(r) = 0 /\ Refunding!SentOf(r)' = 0
      BY <1>1, <2>1 DEF Refunding!SentOf
    <2>3. \A q \in RefundIds : q # r => Refunding!SentOf(q)' = Refunding!SentOf(q)
      BY <1>1 DEF Refunding!SentOf
    <2> QED BY <2>2, <2>3
  <1>8. \A t \in TransferIds : TransferredOf(t)' = TransferredOf(t)
    BY DEF TransferredOf
  <1>9. \A o \in Orders : CapturedOf(o)' = CapturedOf(o)
    BY DEF CapturedOf, Captured, PaymentsIn
  <1> QED BY <1>1, <1>2, <1>6, <1>7, <1>8, <1>9, SentSame, TransferredSame, CapturedSame
          DEF SumsStay

LEMMA AcceptedSet ==
  ASSUME CallsFit, Beside, UNCHANGED <<payment, refund, transfer, razorpay>>,
         NEW r \in RefundIds, accepted' = [accepted EXCEPT ![r] = @ + 1],
         refund[r] # Refunding!NoRefund
  PROVE  /\ RowsStand
         /\ Refunding!SentCash' = Refunding!SentCash + refund[r].cash
         /\ TransferredCash' = TransferredCash /\ CapturedCash' = CapturedCash
  <1>1. /\ accepted' \in [RefundIds -> Nat] /\ accepted'[r] = accepted[r] + 1
        /\ \A q \in RefundIds : q # r => accepted'[q] = accepted[q]
    BY DEF CallsFit, RowTypes
  <1>2. RowTypes'
    BY <1>1 DEF CallsFit, RowTypes
  <1>3. PaymentsStand /\ RefundsStand /\ TransfersStand
    BY DEF PaymentsStand, RefundsStand, TransfersStand, Captured, PaymentsIn
  <1>4. RowsStand
    BY <1>2, <1>3, BesideStands, StandTogether DEF Beside, gatewayVars, SameFaults
  <1>5. Refunding!SentCash \in Int
        /\ Refunding!SentCash' = Refunding!SentCash + Refunding!SentOf(r)' - Refunding!SentOf(r)
    <2>1. \A q \in RefundIds : q # r => Refunding!SentOf(q)' = Refunding!SentOf(q)
      BY <1>1 DEF Refunding!SentOf
    <2> QED BY <1>2, <2>1, SentMoved DEF CallsFit
  <1>6. Refunding!SentOf(r)' = Refunding!SentOf(r) + refund[r].cash
        /\ Refunding!SentOf(r) \in Int /\ refund[r].cash \in Int
    <2>1. PICK n, c : n = accepted[r] /\ c = refund[r].cash
      OBVIOUS
    <2>2. n \in Int /\ c \in Int
      BY <2>1, RefundTerm DEF CallsFit, RowTypes
    <2>3. (n + 1) * c = n * c + c /\ n * c \in Int
      BY <2>2
    <2> QED BY <1>1, <2>1, <2>2, <2>3 DEF Refunding!SentOf
  <1>7. \A t \in TransferIds : TransferredOf(t)' = TransferredOf(t)
    BY DEF TransferredOf
  <1>8. \A o \in Orders : CapturedOf(o)' = CapturedOf(o)
    BY DEF CapturedOf, Captured, PaymentsIn
  <1> QED BY <1>4, <1>5, <1>6, <1>7, <1>8, TransferredSame, CapturedSame

(* ... or a transfer.                                                      *)
BesideTransfers == Beside /\ UNCHANGED <<payment, refund, accepted>>

LEMMA OtherSumsStay ==
  ASSUME BesideTransfers
  PROVE  /\ Refunding!SentCash' = Refunding!SentCash /\ CapturedCash' = CapturedCash
         /\ PaymentsStand /\ RefundsStand
  <1>1. \A r \in RefundIds : Refunding!SentOf(r)' = Refunding!SentOf(r)
    BY DEF BesideTransfers, Refunding!SentOf
  <1>2. \A o \in Orders : CapturedOf(o)' = CapturedOf(o)
    BY DEF BesideTransfers, CapturedOf, Captured, PaymentsIn
  <1>3. PaymentsStand /\ RefundsStand
    BY DEF BesideTransfers, PaymentsStand, RefundsStand, Captured, PaymentsIn
  <1> QED BY <1>1, <1>2, <1>3, SentSame, CapturedSame

LEMMA TransferSet ==
  ASSUME CallsFit, BesideTransfers, UNCHANGED razorpay,
         NEW t \in TransferIds, NEW row \in TransferRows, transfer' = [transfer EXCEPT ![t] = row],
         transfer[t] # Paying!NoTransfer, row.amount = transfer[t].amount
  PROVE  /\ RowsStand /\ SumsStay
         /\ transfer'[t] = row /\ \A u \in TransferIds : u # t => transfer'[u] = transfer[u]
  <1>1. /\ transfer' \in [TransferIds -> TransferRows \cup {Paying!NoTransfer}]
        /\ transfer'[t] = row /\ \A u \in TransferIds : u # t => transfer'[u] = transfer[u]
    BY DEF CallsFit, RowTypes
  <1>2. row # Paying!NoTransfer
    BY DEF TransferRows, Paying!NoTransfer
  <1>3. RowTypes'
    BY <1>1, <1>2 DEF CallsFit, RowTypes, BesideTransfers
  <1>4. TransfersStand
    BY <1>1, <1>2 DEF TransfersStand
  <1>5. RowsStand
    BY <1>3, <1>4, BesideStands, OtherSumsStay, StandTogether
       DEF BesideTransfers, Beside, gatewayVars, SameFaults
  <1>6. \A u \in TransferIds : TransferredOf(u)' = TransferredOf(u)
    BY <1>1 DEF TransferredOf
  <1> QED BY <1>1, <1>5, <1>6, OtherSumsStay, TransferredSame DEF SumsStay

LEMMA TransferMade ==
  ASSUME CallsFit, BesideTransfers, UNCHANGED razorpay,
         NEW t \in TransferIds, NEW row \in TransferRows, transfer' = [transfer EXCEPT ![t] = row],
         transfer[t] = Paying!NoTransfer
  PROVE  /\ RowsStand /\ SumsStay
         /\ transfer'[t] = row /\ row # Paying!NoTransfer
         /\ \A u \in TransferIds : u # t => transfer'[u] = transfer[u]
  <1>1. /\ transfer' \in [TransferIds -> TransferRows \cup {Paying!NoTransfer}]
        /\ transfer'[t] = row /\ \A u \in TransferIds : u # t => transfer'[u] = transfer[u]
    BY DEF CallsFit, RowTypes
  <1>2. row # Paying!NoTransfer
    BY DEF TransferRows, Paying!NoTransfer
  <1>3. RowTypes'
    BY <1>1, <1>2 DEF CallsFit, RowTypes, BesideTransfers
  <1>4. TransfersStand
    BY <1>1 DEF TransfersStand
  <1>5. RowsStand
    BY <1>3, <1>4, BesideStands, OtherSumsStay, StandTogether
       DEF BesideTransfers, Beside, gatewayVars, SameFaults
  <1>6. \A u \in TransferIds : TransferredOf(u)' = TransferredOf(u)
    <2>1. TransferredOf(t) = 0 /\ TransferredOf(t)' = 0
      <3>1. razorpay[t] = Paying!Nothing /\ transfer[t].amount = 0 /\ row.amount \in Int
        BY DEF CallsFit, RowTypes, TransferRows, Paying!NoTransfer
      <3>2. razorpay[t].held + razorpay[t].lender = 0 /\ razorpay'[t].held + razorpay'[t].lender = 0
        BY <3>1 DEF Paying!Nothing
      <3> QED BY <1>1, <3>1, <3>2 DEF TransferredOf
    <2>2. \A u \in TransferIds : u # t => TransferredOf(u)' = TransferredOf(u)
      BY <1>1 DEF TransferredOf
    <2> QED BY <2>1, <2>2
  <1> QED BY <1>1, <1>2, <1>5, <1>6, OtherSumsStay, TransferredSame DEF SumsStay

LEMMA RazorpaySet ==
  ASSUME CallsFit, BesideTransfers, UNCHANGED transfer,
         NEW t \in TransferIds, NEW row \in AtRazorpay, razorpay' = [razorpay EXCEPT ![t] = row],
         transfer[t] # Paying!NoTransfer
  PROVE  /\ RowsStand
         /\ Refunding!SentCash' = Refunding!SentCash /\ CapturedCash' = CapturedCash
         /\ TransferredCash' = TransferredCash
              + transfer[t].amount * (row.held + row.lender - razorpay[t].held - razorpay[t].lender)
  <1>1. /\ razorpay' \in [TransferIds -> AtRazorpay]
        /\ razorpay'[t] = row /\ \A u \in TransferIds : u # t => razorpay'[u] = razorpay[u]
    BY DEF CallsFit, RowTypes
  <1>2. RowTypes'
    BY <1>1 DEF CallsFit, RowTypes, BesideTransfers
  <1>3. TransfersStand
    BY DEF TransfersStand
  <1>4. RowsStand
    BY <1>2, <1>3, BesideStands, OtherSumsStay, StandTogether
       DEF BesideTransfers, Beside, gatewayVars, SameFaults
  <1>5. TransferredCash \in Int
        /\ TransferredCash' = TransferredCash + TransferredOf(t)' - TransferredOf(t)
    <2>1. \A u \in TransferIds : u # t => TransferredOf(u)' = TransferredOf(u)
      BY <1>1 DEF TransferredOf
    <2> QED BY <1>2, <2>1, TransferredMoved DEF CallsFit
  <1>6. PICK a, b, c, d, e : /\ a = transfer[t].amount /\ b = row.held /\ c = row.lender
                             /\ d = razorpay[t].held /\ e = razorpay[t].lender
    OBVIOUS
  <1>7. a \in Int /\ b \in Int /\ c \in Int /\ d \in Int /\ e \in Int
    BY <1>6, TransferTerm DEF CallsFit, RowTypes, AtRazorpay
  <1>8. a * (b + c - d - e) = a * (b + c) - a * (d + e)
        /\ a * (b + c) \in Int /\ a * (d + e) \in Int
    BY <1>7
  <1>9. TransferredOf(t) = a * (d + e) /\ TransferredOf(t)' = a * (b + c)
    BY <1>1, <1>6 DEF TransferredOf
  <1> QED BY <1>4, <1>5, <1>6, <1>8, <1>9, OtherSumsStay

----------------------------------------------------------------------------
(* The calls of the refunds and of the transfers are those of Payments.    *)

LEMMA RefundCalls ==
  ASSUME NEW h
  PROVE  /\ Refunding!Arg(h) = Arg(h)
         /\ \A op : Refunding!At(h, op) <=> At(h, op)
         /\ \A steps : Refunding!Continue(h, steps) <=> Continue(h, steps)
         /\ Refunding!Return(h) <=> Continue(h, <<>>)
         /\ Refunding!Throw(h) <=> Throw(h)
         /\ Refunding!Refused <=> Refused
  BY DEF Refunding!Arg, Refunding!At, Refunding!Continue, Refunding!Return, Refunding!Throw,
         Refunding!Catches, Refunding!Refused, Arg, At, Continue, Throw, Catches, Refused

LEMMA PayoutCalls ==
  ASSUME NEW h
  PROVE  /\ Paying!Arg(h) = Arg(h)
         /\ \A op : Paying!At(h, op) <=> At(h, op)
         /\ \A steps : Paying!Continue(h, steps) <=> Continue(h, steps)
         /\ Paying!Return(h) <=> Continue(h, <<>>)
         /\ Paying!Throw(h) <=> Throw(h)
         /\ Paying!Refused <=> Refused
  BY DEF Paying!Arg, Paying!At, Paying!Continue, Paying!Return, Paying!Throw,
         Paying!Catches, Paying!Refused, Arg, At, Continue, Throw, Catches, Refused

LEMMA SameSets ==
  ASSUME NEW S
  PROVE  /\ Refunding!Cardinality(S) = Cardinality(S) /\ Paying!Cardinality(S) = Cardinality(S)
         /\ Refunding!SetToSeq(S) = SetToSeq(S) /\ Paying!SetToSeq(S) = SetToSeq(S)
  <1>1. Refunding!Cardinality(S) = Cardinality(S) /\ Paying!Cardinality(S) = Cardinality(S)
    BY DEF Refunding!Cardinality, Paying!Cardinality, Cardinality
  <1>2. /\ \A f : Refunding!IsInjective(f) <=> IsInjective(f)
        /\ \A f : Paying!IsInjective(f) <=> IsInjective(f)
    BY DEF Refunding!IsInjective, Paying!IsInjective, IsInjective
  <1> QED BY <1>1, <1>2 DEF Refunding!SetToSeq, Paying!SetToSeq, SetToSeq

----------------------------------------------------------------------------
(* The steps of a refund                                                   *)

LEMMA AskFits ==
  ASSUME NEW h,
         NEW s \in [op : AskOps, payment : Orders, kind : Kinds, cash : Int, amounts : Amounts],
         RefundFits(s),
         s.kind \in {"CANCELLATION", "DEPOSIT_RETURN"} => MayClose(h)
  PROVE  /\ s \in FitSteps(h)
         /\ s.op = "createRefund" => s \in LaterSteps(h)
  <1>1. s \in Steps /\ s.op \in AskOps
    BY DEF Steps, RefundSteps
  <1>2. Fits(h, s)
    BY <1>1 DEF Fits, OpsOf, AskOps, RefundOps, RowOps, SendOps, ReverseOps, CancelOps, SettleOps
  <1> QED BY <1>1, <1>2 DEF FitSteps, LaterSteps, LaterOps

LEMMA RefundFitsNext ==
  ASSUME NEW h, NEW s \in RefundSteps, s.op \in RefundOps, refund'[s.id] # Refunding!NoRefund
  PROVE  /\ s \in FitSteps(h)'
         /\ s.op = "attempt" => s \in LaterSteps(h)'
  <1>1. s \in Steps
    BY DEF Steps
  <1>2. Fits(h, s)'
    BY DEF Fits, OpsOf, AskOps, RefundOps, RowOps, SendOps, ReverseOps, CancelOps, SettleOps
  <1> QED BY <1>1, <1>2 DEF FitSteps, LaterSteps, LaterOps

LEMMA Listed ==
  ASSUME NEW h, NEW s \in FitSteps(h)'
  PROVE  <<s>> \in ListsOf(FitSteps(h)', LaterSteps(h)') /\ <<>> \in ListsOf(FitSteps(h)', LaterSteps(h)')
         /\ (s.op \notin OwedOps \cup {"insertPayment"} => Plain(<<s>>)) /\ Plain(<<>>)
  <1>1. Head(<<s>>) = s
    OBVIOUS
  <1> QED BY <1>1, ListOfOne DEF Plain

LEMMA NothingListed ==
  ASSUME NEW h
  PROVE  <<>> \in ListsOf(FitSteps(h)', LaterSteps(h)') /\ Plain(<<>>)
  <1>1. <<>> \in Seq(FitSteps(h)')
    OBVIOUS
  <1> QED BY <1>1 DEF ListsOf, Plain

(* What a refund's step leaves alone.                                      *)
RestOfRefund == UNCHANGED <<bookingVars, account, transfer, razorpay, journal, gatewayVars>>

LEMMA StillThere ==
  ASSUME CallsFit, UNCHANGED <<bookingVars, account, transfer, razorpay, journal, gatewayVars>>,
         UNCHANGED <<payment, refund, books, accepted>>, UNCHANGED faults \/ Refused
  PROVE  Unmoved /\ RowsStand /\ SumsStay /\ books'.GATEWAY = books.GATEWAY
  <1>1. Unmoved
    BY DEF Unmoved, bookingVars, bookingRow, gatewayVars, CallsFit, BookingTypes, OtherTypes
  <1> QED BY <1>1, UnmovedStands

LEMMA CheckHolds ==
  ASSUME PaymentsInv, NEW h \in All, Refunding!Check(h), RestOfRefund
  PROVE  /\ PaymentsInv' /\ todo[h] # <<>>
         /\ \/ Goes(h, <<>>)
            \/ Goes(h, <<[Arg(h) EXCEPT !.op = "insertRefund"]>>)
            \/ Dropped(h) /\ Others(h) /\ (MayClose(h) => todo'[h] = <<>>)
  <1>1. PICK s : s = Arg(h)
    OBVIOUS
  <1>2. /\ At(h, "createRefund") /\ UNCHANGED <<payment, refund, books, accepted, faults>>
        /\ Throw(h) \/ Continue(h, <<[s EXCEPT !.op = "insertRefund"]>>) \/ Continue(h, <<>>)
    BY <1>1, RefundCalls DEF Refunding!Check
  <1>3. CallsFit /\ Lists
    BY DEF PaymentsInv, CallsFit
  <1>4. todo[h] # <<>> /\ s.op = "createRefund" /\ s \in Steps /\ Fits(h, s)
    BY <1>1, <1>2, <1>3, NextStep DEF At, Arg
  <1>5. RowsStand /\ SumsStay /\ books'.GATEWAY = books.GATEWAY
    BY <1>2, <1>3, StillThere DEF RestOfRefund
  <1>6. Arg(h).op \notin OwedOps
    BY <1>1, <1>4 DEF OwedOps
  <1>7. PICK x : x = [s EXCEPT !.op = "insertRefund"]
    OBVIOUS
  <1>8. /\ s \in [op : AskOps, payment : Orders, kind : Kinds, cash : Int, amounts : Amounts]
        /\ RefundFits(s) /\ (s.kind \in {"CANCELLATION", "DEPOSIT_RETURN"} => MayClose(h))
    BY <1>4, RefundForms DEF Fits, AskOps
  <1>9. /\ x \in [op : AskOps, payment : Orders, kind : Kinds, cash : Int, amounts : Amounts]
        /\ x.op = "insertRefund" /\ x.payment = s.payment /\ x.kind = s.kind /\ x.cash = s.cash
        /\ x.amounts = s.amounts
    BY <1>7, <1>8 DEF AskOps
  <1>10. RefundFits(x)
    BY <1>8, <1>9 DEF RefundFits
  <1>11. x \in FitSteps(h)
    BY <1>8, <1>9, <1>10, AskFits
  <1>12. x \in FitSteps(h)'
    BY <1>5, <1>11, StepsStay DEF RowsStand
  <1>13. CASE Throw(h)
    BY <1>4, <1>5, <1>6, <1>13, ThrowHolds
  <1>14. CASE Continue(h, <<>>)
    BY <1>4, <1>5, <1>6, <1>14, NothingListed, OnHolds
  <1>15. CASE Continue(h, <<x>>)
    <2>1. <<x>> \in ListsOf(FitSteps(h)', LaterSteps(h)') /\ Plain(<<x>>)
      BY <1>9, <1>12, Listed DEF OwedOps
    <2>2. PaymentsInv' /\ Goes(h, <<x>>)
      BY <1>4, <1>5, <1>6, <1>15, <2>1, OnHolds
    <2> QED BY <1>1, <1>4, <1>7, <2>2
  <1> QED BY <1>2, <1>7, <1>13, <1>14, <1>15

LEMMA InsertHolds ==
  ASSUME PaymentsInv, NEW h \in All, Refunding!Insert(h), RestOfRefund
  PROVE  /\ PaymentsInv' /\ todo[h] # <<>>
         /\ \E r \in RefundIds :
              /\ refund[r] = Refunding!NoRefund
              /\ refund'[r] = [payment |-> Arg(h).payment, kind |-> Arg(h).kind,
                               cash |-> Arg(h).cash, amounts |-> Arg(h).amounts,
                               status |-> "PENDING", attempts |-> 0, sent |-> FALSE]
              /\ \A q \in RefundIds : q # r => refund'[q] = refund[q]
              /\ Goes(h, <<[op |-> "attempt", id |-> r]>>)
  <1>1. PICK s : s = Arg(h)
    OBVIOUS
  <1>2. At(h, "insertRefund") /\ UNCHANGED <<payment, books, accepted, faults>>
    BY RefundCalls DEF Refunding!Insert
  <1>3. PICK r, row :
          /\ r \in RefundIds
          /\ refund[r] = Refunding!NoRefund
          /\ row = [payment |-> s.payment, kind |-> s.kind, cash |-> s.cash, amounts |-> s.amounts,
                    status |-> "PENDING", attempts |-> 0, sent |-> FALSE]
          /\ refund' = [refund EXCEPT ![r] = row]
          /\ Continue(h, <<[op |-> "attempt", id |-> r]>>)
    BY <1>1, RefundCalls, Ids DEF Refunding!Insert
  <1>4. CallsFit /\ Lists
    BY DEF PaymentsInv, CallsFit
  <1>5. todo[h] # <<>> /\ s.op = "insertRefund" /\ s \in Steps /\ Fits(h, s)
    BY <1>1, <1>2, <1>4, NextStep DEF At, Arg
  <1>6. /\ s \in [op : AskOps, payment : Orders, kind : Kinds, cash : Int, amounts : Amounts]
        /\ RefundFits(s)
    BY <1>5, RefundForms DEF Fits, AskOps
  <1>7. row \in RefundRows
    BY <1>3, <1>6 DEF RefundRows
  <1>8. RefundFits(row)
    BY <1>3, <1>6 DEF RefundFits
  <1>9. Beside
    BY <1>2, <1>4 DEF Beside, RestOfRefund, CallsFit, OtherTypes
  <1>10. /\ RowsStand /\ SumsStay /\ refund'[r] = row /\ row # Refunding!NoRefund
         /\ \A q \in RefundIds : q # r => refund'[q] = refund[q]
    BY <1>2, <1>3, <1>4, <1>7, <1>8, <1>9, RefundMade DEF RestOfRefund
  <1>11. PICK a : a = [op |-> "attempt", id |-> r]
    OBVIOUS
  <1>12. a \in RefundSteps /\ a.op = "attempt" /\ a.id = r
    BY <1>3, <1>11 DEF RefundSteps
  <1>13. a \in FitSteps(h)'
    BY <1>10, <1>12, RefundFitsNext DEF RefundOps
  <1>14. <<a>> \in ListsOf(FitSteps(h)', LaterSteps(h)') /\ Plain(<<a>>)
    BY <1>12, <1>13, Listed DEF OwedOps
  <1>15. Arg(h).op \notin OwedOps /\ books'.GATEWAY = books.GATEWAY
    BY <1>1, <1>2, <1>5 DEF OwedOps
  <1>16. PaymentsInv' /\ Goes(h, <<a>>)
    BY <1>3, <1>5, <1>10, <1>11, <1>14, <1>15, OnHolds
  <1> QED BY <1>1, <1>3, <1>5, <1>10, <1>11, <1>16

LEMMA AttemptHolds ==
  ASSUME PaymentsInv, NEW h \in All, Refunding!Attempt(h), RestOfRefund
  PROVE  /\ PaymentsInv' /\ todo[h] # <<>>
         /\ Goes(h, <<[op |-> "claimRefund", id |-> Arg(h).id,
                       attempts |-> refund[Arg(h).id].attempts]>>)
  <1>1. PICK s, x : s = Arg(h) /\ x = [op |-> "claimRefund", id |-> s.id,
                                       attempts |-> refund[s.id].attempts]
    OBVIOUS
  <1>2. At(h, "attempt") /\ UNCHANGED <<payment, refund, books, accepted, faults>>
        /\ Continue(h, <<x>>)
    BY <1>1, RefundCalls DEF Refunding!Attempt
  <1>3. CallsFit /\ Lists
    BY DEF PaymentsInv, CallsFit
  <1>4. todo[h] # <<>> /\ s.op = "attempt" /\ s \in Steps /\ Fits(h, s)
    BY <1>1, <1>2, <1>3, NextStep DEF At, Arg
  <1>5. RowsStand /\ SumsStay /\ books'.GATEWAY = books.GATEWAY
    BY <1>2, <1>3, StillThere DEF RestOfRefund
  <1>6. s.id \in RefundIds /\ refund[s.id] # Refunding!NoRefund
    BY <1>4, RefundForms DEF Fits, RefundOps
  <1>7. refund[s.id].attempts \in Nat
    BY <1>3, <1>6 DEF CallsFit, RowTypes, RefundRows
  <1>8. x \in RefundSteps /\ x.op = "claimRefund" /\ x.id = s.id
    BY <1>1, <1>6, <1>7 DEF RefundSteps
  <1>9. x \in FitSteps(h)'
    BY <1>2, <1>6, <1>8, RefundFitsNext DEF RefundOps
  <1>10. <<x>> \in ListsOf(FitSteps(h)', LaterSteps(h)') /\ Plain(<<x>>)
    BY <1>8, <1>9, Listed DEF OwedOps
  <1>11. Arg(h).op \notin OwedOps
    BY <1>1, <1>4 DEF OwedOps
  <1> QED BY <1>1, <1>2, <1>4, <1>5, <1>10, <1>11, OnHolds

LEMMA ClaimHolds ==
  ASSUME PaymentsInv, NEW h \in All, Refunding!Claim(h), RestOfRefund
  PROVE  /\ PaymentsInv' /\ todo[h] # <<>>
         /\ \/ Goes(h, <<[op |-> "callRefund", id |-> Arg(h).id]>>)
            \/ Goes(h, <<>>) /\ UNCHANGED refund
         /\ \A r \in RefundIds :
              /\ refund'[r].kind = refund[r].kind /\ refund'[r].payment = refund[r].payment
              /\ refund'[r].sent = refund[r].sent /\ refund'[r].status = refund[r].status
  <1>1. PICK s, r, x : s = Arg(h) /\ r = s.id /\ x = [op |-> "callRefund", id |-> r]
    OBVIOUS
  <1>2. /\ At(h, "claimRefund") /\ UNCHANGED <<payment, books, accepted, faults>>
        /\ \/ refund' = [refund EXCEPT ![r].attempts = @ + 1] /\ Continue(h, <<x>>)
           \/ Continue(h, <<>>) /\ UNCHANGED refund
    BY <1>1, RefundCalls DEF Refunding!Claim
  <1>3. CallsFit /\ Lists
    BY DEF PaymentsInv, CallsFit
  <1>4. todo[h] # <<>> /\ s.op = "claimRefund" /\ s \in Steps /\ Fits(h, s)
    BY <1>1, <1>2, <1>3, NextStep DEF At, Arg
  <1>5. r \in RefundIds /\ refund[r] # Refunding!NoRefund
    BY <1>1, <1>4, RefundForms DEF Fits, RefundOps
  <1>6. Arg(h).op \notin OwedOps
    BY <1>1, <1>4 DEF OwedOps
  <1>7. CASE Continue(h, <<>>) /\ UNCHANGED refund
    <2>1. RowsStand /\ SumsStay /\ books'.GATEWAY = books.GATEWAY
      BY <1>2, <1>3, <1>7, StillThere DEF RestOfRefund
    <2> QED BY <1>4, <1>6, <1>7, <2>1, NothingListed, OnHolds
  <1>8. CASE refund' = [refund EXCEPT ![r].attempts = @ + 1] /\ Continue(h, <<x>>)
    <2>1. PICK row : row = [refund[r] EXCEPT !.attempts = @ + 1]
      OBVIOUS
    <2>2. refund[r] \in RefundRows
      BY <1>3, <1>5 DEF CallsFit, RowTypes
    <2>3. /\ row \in RefundRows /\ row.payment = refund[r].payment /\ row.kind = refund[r].kind
          /\ row.cash = refund[r].cash /\ row.amounts = refund[r].amounts
          /\ row.sent = refund[r].sent /\ row.status = refund[r].status
      BY <2>1, <2>2 DEF RefundRows
    <2>4. refund' = [refund EXCEPT ![r] = row]
      BY <1>8, <2>1
    <2>5. Beside /\ books'.GATEWAY = books.GATEWAY
      BY <1>2, <1>3 DEF Beside, RestOfRefund, CallsFit, OtherTypes
    <2>6. PaymentsStand /\ payment' \in [Orders -> PaymentRows \cup {NoPayment}]
      BY <1>2, <1>3 DEF PaymentsStand, Captured, PaymentsIn, CallsFit, RowTypes
    <2>7. /\ RowsStand /\ Refunding!SentCash' = Refunding!SentCash
          /\ TransferredCash' = TransferredCash
          /\ refund'[r] = row /\ \A q \in RefundIds : q # r => refund'[q] = refund[q]
      BY <1>2, <1>3, <1>5, <2>3, <2>4, <2>5, <2>6, RefundSet DEF RestOfRefund
    <2>8. CapturedCash' = CapturedCash
      <3>1. \A o \in Orders : CapturedOf(o)' = CapturedOf(o)
        BY <1>2 DEF CapturedOf, Captured, PaymentsIn
      <3> QED BY <3>1, CapturedSame
    <2>9. x \in RefundSteps /\ x.op = "callRefund" /\ x.id = r
      BY <1>1, <1>5 DEF RefundSteps
    <2>10. refund'[r] # Refunding!NoRefund
      BY <2>3, <2>7 DEF RefundRows, Refunding!NoRefund
    <2>11. x \in FitSteps(h)'
      BY <2>9, <2>10, RefundFitsNext DEF RefundOps
    <2>12. <<x>> \in ListsOf(FitSteps(h)', LaterSteps(h)') /\ Plain(<<x>>)
      BY <2>9, <2>11, Listed DEF OwedOps
    <2>13. PaymentsInv' /\ Goes(h, <<x>>)
      BY <1>4, <1>6, <1>8, <2>5, <2>7, <2>8, <2>12, OnHolds DEF SumsStay
    <2> QED BY <1>1, <1>4, <2>3, <2>7, <2>13
  <1> QED BY <1>2, <1>7, <1>8

----------------------------------------------------------------------------
(* What the postings do to Razorpay's balance and to the deposits held.    *)

LEMMA PostedLines ==
  ASSUME NEW b, NEW d, NEW c
  PROVE  /\ Posted(b, [debit |-> d, credit |-> c]).GATEWAY = b.GATEWAY + c.GATEWAY - d.GATEWAY
         /\ Posted(b, [debit |-> d, credit |-> c]).DEPOSIT_HELD
              = b.DEPOSIT_HELD + c.DEPOSIT_HELD - d.DEPOSIT_HELD
         /\ Refunding!Posted(b, [debit |-> d, credit |-> c])
              = Posted(b, [debit |-> d, credit |-> c])
         /\ Paying!Posted(b, [debit |-> d, credit |-> c])
              = Posted(b, [debit |-> d, credit |-> c])
  <1>1. "GATEWAY" \in Accounts /\ "DEPOSIT_HELD" \in Accounts
    BY DEF Accounts, Zero
  <1>2. Refunding!Accounts = Accounts /\ Paying!Accounts = Accounts
    BY DEF Accounts, Zero, Refunding!Accounts, Refunding!Zero, Paying!Accounts, Paying!Zero
  <1>3. PICK l : l = [debit |-> d, credit |-> c]
    OBVIOUS
  <1>4. l.debit = d /\ l.credit = c
    BY <1>3
  <1>5. PICK p : p = [a \in Accounts |-> b[a] + c[a] - d[a]]
    OBVIOUS
  <1>6. p.GATEWAY = b.GATEWAY + c.GATEWAY - d.GATEWAY
        /\ p.DEPOSIT_HELD = b.DEPOSIT_HELD + c.DEPOSIT_HELD - d.DEPOSIT_HELD
    BY <1>1, <1>5
  <1>7. Posted(b, l) = p /\ Refunding!Posted(b, l) = p /\ Paying!Posted(b, l) = p
    BY <1>2, <1>4, <1>5 DEF Posted, Refunding!Posted, Paying!Posted
  <1> QED BY <1>3, <1>6, <1>7

LEMMA CaptureMoves ==
  ASSUME NEW b, b.GATEWAY \in Int, b.DEPOSIT_HELD \in Int
  PROVE  /\ Posted(b, CapturePostings(Booking)).GATEWAY = b.GATEWAY - CashOf(Booking)
         /\ Posted(b, CapturePostings(Booking)).DEPOSIT_HELD = b.DEPOSIT_HELD + Booking.deposit
  <1>1. PICK n, x, y, z : /\ n = CashOf(Booking) /\ x = Booking.credit /\ y = LenderShare(Booking.rent)
                          /\ z = CommissionOn(Booking.rent) + Booking.fee
    OBVIOUS
  <1>2. PICK m : m = Booking.deposit
    OBVIOUS
  <1>3. PICK d, c : /\ d = [Zero EXCEPT !.GATEWAY = n, !.PROMOTIONS = x]
                    /\ c = [Zero EXCEPT !.DEPOSIT_HELD = m, !.LENDER_PAYABLE = y,
                                        !.PLATFORM_REVENUE = z]
    OBVIOUS
  <1>4. d.GATEWAY = n /\ d.DEPOSIT_HELD = 0 /\ c.GATEWAY = 0 /\ c.DEPOSIT_HELD = m
    BY <1>3 DEF Zero
  <1>5. CapturePostings(Booking) = [debit |-> d, credit |-> c]
    BY <1>1, <1>2, <1>3 DEF CapturePostings
  <1>6. n \in Int /\ m \in Int
    BY <1>1, <1>2, CashIsInt
  <1> QED BY <1>1, <1>2, <1>4, <1>5, <1>6, PostedLines

LEMMA RefundMoves ==
  ASSUME NEW b, b.GATEWAY \in Int, b.DEPOSIT_HELD \in Int, NEW a \in Amounts, NEW rent
  PROVE  /\ Posted(b, RefundPostings(a, rent)).GATEWAY = b.GATEWAY + CashOf(a)
         /\ Posted(b, RefundPostings(a, rent)).DEPOSIT_HELD = b.DEPOSIT_HELD - a.deposit
         /\ Refunding!Posted(b, Refunding!RefundPostings(a, rent)) = Posted(b, RefundPostings(a, rent))
  <1>1. PICK n, k, m : n = CashOf(a) /\ k = a.credit /\ m = a.deposit
    OBVIOUS
  <1>2. n \in Int /\ m \in Int
    BY <1>1 DEF Amounts, CashOf
  <1>3. PICK back : back = CommissionBack(a, rent)
    OBVIOUS
  <1>4. PICK x, y : x = a.rent - back /\ y = back + a.fee
    OBVIOUS
  <1>5. PICK d, c : /\ d = [Zero EXCEPT !.DEPOSIT_HELD = m, !.LENDER_PAYABLE = x,
                                        !.PLATFORM_REVENUE = y]
                    /\ c = [Zero EXCEPT !.GATEWAY = n, !.PROMOTIONS = k]
    OBVIOUS
  <1>6. d.GATEWAY = 0 /\ d.DEPOSIT_HELD = m /\ c.GATEWAY = n /\ c.DEPOSIT_HELD = 0
    BY <1>5 DEF Zero
  <1>7. RefundPostings(a, rent) = [debit |-> d, credit |-> c]
    BY <1>1, <1>3, <1>4, <1>5 DEF RefundPostings
  <1>8. Refunding!RefundPostings(a, rent) = RefundPostings(a, rent)
    BY DEF Refunding!RefundPostings, RefundPostings, Refunding!CommissionBack, CommissionBack,
           Refunding!CommissionOn, CommissionOn, Refunding!CashOf, CashOf, Refunding!Zero, Zero
  <1> QED BY <1>1, <1>2, <1>6, <1>7, <1>8, PostedLines

LEMMA MovesBetween ==
  ASSUME NEW b, b.GATEWAY \in Int, b.DEPOSIT_HELD \in Int, NEW n \in Int
  PROVE  /\ Refunding!Posted(b, Refunding!GoodwillPostings(n)).GATEWAY = b.GATEWAY + n
         /\ Refunding!Posted(b, Refunding!GoodwillPostings(n)).DEPOSIT_HELD = b.DEPOSIT_HELD
         /\ Paying!Posted(b, Paying!TransferPostings(n)).GATEWAY = b.GATEWAY + n
         /\ Paying!Posted(b, Paying!TransferPostings(n)).DEPOSIT_HELD = b.DEPOSIT_HELD
         /\ Paying!Posted(b, Paying!Reversal(n)).GATEWAY = b.GATEWAY - n
         /\ Paying!Posted(b, Paying!Reversal(n)).DEPOSIT_HELD = b.DEPOSIT_HELD
         /\ Posted(b, DepositKeepPostings(n)).GATEWAY = b.GATEWAY
         /\ Posted(b, DepositKeepPostings(n)).DEPOSIT_HELD = b.DEPOSIT_HELD - n
  <1>1. PICK g, w, l, d : /\ g = [Zero EXCEPT !.GATEWAY = n] /\ w = [Zero EXCEPT !.GOODWILL = n]
                          /\ l = [Zero EXCEPT !.LENDER_PAYABLE = n]
                          /\ d = [Zero EXCEPT !.DEPOSIT_HELD = n]
    OBVIOUS
  <1>2. /\ g.GATEWAY = n /\ g.DEPOSIT_HELD = 0 /\ w.GATEWAY = 0 /\ w.DEPOSIT_HELD = 0
        /\ l.GATEWAY = 0 /\ l.DEPOSIT_HELD = 0 /\ d.GATEWAY = 0 /\ d.DEPOSIT_HELD = n
    BY <1>1 DEF Zero
  <1>3. Refunding!GoodwillPostings(n) = [debit |-> w, credit |-> g]
    BY <1>1 DEF Refunding!GoodwillPostings, Refunding!Move, Refunding!Zero, Zero
  <1>4. Paying!TransferPostings(n) = [debit |-> l, credit |-> g]
    BY <1>1 DEF Paying!TransferPostings, Paying!Move, Paying!Zero, Zero
  <1>5. Paying!Reversal(n) = [debit |-> g, credit |-> l]
    BY <1>1 DEF Paying!Reversal, Paying!ReversalPostings, Paying!Move, Paying!Zero, Zero
  <1>6. DepositKeepPostings(n) = [debit |-> d, credit |-> l]
    BY <1>1 DEF DepositKeepPostings, Move, Zero
  <1> QED BY <1>2, <1>3, <1>4, <1>5, <1>6, PostedLines

DepositOf(row) == IF row.kind = "MANUAL" THEN 0 ELSE row.amounts.deposit

LEMMA RefundRowMoves ==
  ASSUME NEW b, b.GATEWAY \in Int, b.DEPOSIT_HELD \in Int, NEW row \in RefundRows,
         row.kind # "MANUAL" => row.cash = CashOf(row.amounts)
  PROVE  /\ Refunding!Posted(b, Refunding!PostingsOf(row)).GATEWAY = b.GATEWAY + row.cash
         /\ Refunding!Posted(b, Refunding!PostingsOf(row)).DEPOSIT_HELD
              = b.DEPOSIT_HELD - DepositOf(row)
  <1>1. row.cash \in Int /\ row.amounts \in Amounts
    BY DEF RefundRows
  <1>2. PICK n, a : n = row.cash /\ a = row.amounts
    OBVIOUS
  <1>3. CASE row.kind = "MANUAL"
    <2>1. Refunding!PostingsOf(row) = Refunding!GoodwillPostings(n)
      BY <1>2, <1>3 DEF Refunding!PostingsOf
    <2>2. n \in Int /\ DepositOf(row) = 0 /\ b.DEPOSIT_HELD = b.DEPOSIT_HELD - 0
      BY <1>1, <1>2, <1>3 DEF DepositOf
    <2>3. /\ Refunding!Posted(b, Refunding!GoodwillPostings(n)).GATEWAY = b.GATEWAY + n
          /\ Refunding!Posted(b, Refunding!GoodwillPostings(n)).DEPOSIT_HELD = b.DEPOSIT_HELD
      BY <2>2, MovesBetween
    <2> QED BY <1>2, <2>1, <2>2, <2>3
  <1>4. CASE row.kind # "MANUAL"
    <2>1. Refunding!PostingsOf(row) = Refunding!RefundPostings(a, Booking.rent)
      BY <1>2, <1>4 DEF Refunding!PostingsOf
    <2> QED BY <1>1, <1>2, <1>4, <2>1, RefundMoves DEF DepositOf
  <1> QED BY <1>3, <1>4

(* A call whose step moves money goes on: what it owes changes with it.    *)
LEMMA MoneyHolds ==
  ASSUME PaymentsInv, RowsStand, NEW h \in All, todo[h] # <<>>,
         NEW steps \in ListsOf(FitSteps(h)', LaterSteps(h)'),
         steps # <<>> => Head(steps).op # "insertPayment", Continue(h, steps),
         NEW ds \in Int, NEW dt \in Int, NEW dc \in Int, NEW dg \in Int,
         Refunding!SentCash' = Refunding!SentCash + ds,
         TransferredCash' = TransferredCash + dt,
         CapturedCash' = CapturedCash + dc,
         books'.GATEWAY = books.GATEWAY + dg,
         OwedBy(steps, refund', transfer') = OwedOf(h) + ds + dt - dc - dg
  PROVE  PaymentsInv' /\ Goes(h, steps)
  <1>1. Lists /\ Stays
    BY DEF PaymentsInv, CallsFit, RowsStand
  <1>2. /\ Lists' /\ Goes(h, steps)
        /\ OwedBy(todo'[h], refund', transfer') = OwedBy(steps, refund', transfer')
        /\ \A o : Inserts(todo'[h], o) => Inserts(steps, o)
    BY <1>1, GoesOn
  <1>3. \A o : ~Inserts(steps, o)
    BY DEF Inserts
  <1>4. Others(h)
    BY <1>2 DEF Goes
  <1>5. Offsets(h, ds, dt, dc, dg)
    BY <1>2 DEF Offsets, OwedOf
  <1>6. InBalance'
    BY <1>2, <1>4, <1>5, BalanceKept
  <1>7. CallsFit'
    BY <1>2, <1>3, <1>4, FitKept DEF PaymentsInv
  <1> QED BY <1>2, <1>6, <1>7 DEF PaymentsInv

LEMMA OwedByOne ==
  ASSUME NEW s, NEW rf, NEW tr
  PROVE  OwedBy(<<s>>, rf, tr) = OwedFor(s, rf, tr) /\ OwedBy(<<>>, rf, tr) = 0 /\ Head(<<s>>) = s
  BY DEF OwedBy

LEMMA AcceptedHolds ==
  ASSUME PaymentsInv, NEW h \in All, Refunding!Accepted(h), RestOfRefund
  PROVE  /\ PaymentsInv' /\ todo[h] # <<>>
         /\ \E st \in {"PENDING", "PROCESSED"} :
              Goes(h, <<[op |-> "tallyRefund", id |-> Arg(h).id, status |-> st]>>)
  <1>1. PICK s, r : s = Arg(h) /\ r = s.id
    OBVIOUS
  <1>2. /\ At(h, "callRefund") /\ UNCHANGED <<payment, refund, books, faults>>
        /\ accepted' = [accepted EXCEPT ![r] = @ + 1]
    BY <1>1, RefundCalls DEF Refunding!Accepted
  <1>3. PICK st, x :
          st \in {"PENDING", "PROCESSED"} /\ x = [op |-> "tallyRefund", id |-> r, status |-> st] /\ Continue(h, <<x>>)
    BY <1>1, RefundCalls DEF Refunding!Accepted, Refunding!Counted
  <1>4. CallsFit /\ Lists
    BY DEF PaymentsInv, CallsFit
  <1>5. todo[h] # <<>> /\ s.op = "callRefund" /\ s \in Steps /\ Fits(h, s)
    BY <1>1, <1>2, <1>4, NextStep DEF At, Arg
  <1>6. r \in RefundIds /\ refund[r] # Refunding!NoRefund /\ refund[r].cash \in Int
    BY <1>1, <1>4, <1>5, RefundForms, RefundTerm DEF Fits, RefundOps, CallsFit, RowTypes
  <1>7. Beside /\ books.GATEWAY \in Int
    BY <1>2, <1>4 DEF Beside, RestOfRefund, CallsFit, OtherTypes
  <1>8. /\ RowsStand /\ Refunding!SentCash' = Refunding!SentCash + refund[r].cash
        /\ TransferredCash' = TransferredCash /\ CapturedCash' = CapturedCash
    BY <1>2, <1>4, <1>6, <1>7, AcceptedSet DEF RestOfRefund
  <1>9. x \in RefundSteps /\ x.op = "tallyRefund" /\ x.id = r
    BY <1>3, <1>6 DEF RefundSteps
  <1>10. x \in FitSteps(h)'
    BY <1>2, <1>6, <1>9, RefundFitsNext DEF RefundOps
  <1>11. <<x>> \in ListsOf(FitSteps(h)', LaterSteps(h)') /\ Head(<<x>>).op # "insertPayment"
    BY <1>9, <1>10, Listed, OwedByOne
  <1>12. OwedOf(h) = 0
    BY <1>1, <1>5 DEF OwedOf, OwedBy, OwedFor, Arg
  <1>13. PICK n : n = refund[r].cash
    OBVIOUS
  <1>14. OwedBy(<<x>>, refund', transfer') = n
    BY <1>2, <1>9, <1>13, OwedByOne DEF OwedFor
  <1>15. TransferredCash' = TransferredCash + 0 /\ CapturedCash' = CapturedCash + 0
         /\ books'.GATEWAY = books.GATEWAY + 0
    BY <1>2, <1>4, <1>7, <1>8, SumsAreInts DEF CallsFit
  <1>16. n \in Int /\ 0 \in Int /\ n = 0 + n + 0 - 0 - 0
    BY <1>6, <1>13
  <1>17. PaymentsInv' /\ Goes(h, <<x>>)
    BY <1>3, <1>5, <1>8, <1>11, <1>12, <1>13, <1>14, <1>15, <1>16, MoneyHolds
  <1> QED BY <1>1, <1>3, <1>5, <1>17

LEMMA RefusedRefundHolds ==
  ASSUME PaymentsInv, NEW h \in All, Refunding!RefusedRefund(h), RestOfRefund
  PROVE  /\ PaymentsInv' /\ todo[h] # <<>>
         /\ Goes(h, <<[op |-> "failRefund", id |-> Arg(h).id]>>)
         /\ UNCHANGED <<payment, refund, books, accepted>>
  <1>1. PICK s, r, x : s = Arg(h) /\ r = s.id /\ x = [op |-> "failRefund", id |-> r]
    OBVIOUS
  <1>2. At(h, "callRefund") /\ UNCHANGED <<payment, refund, books, accepted>> /\ Refused
        /\ Continue(h, <<x>>)
    BY <1>1, RefundCalls DEF Refunding!RefusedRefund
  <1>3. CallsFit /\ Lists
    BY DEF PaymentsInv, CallsFit
  <1>4. todo[h] # <<>> /\ s.op = "callRefund" /\ s \in Steps /\ Fits(h, s)
    BY <1>1, <1>2, <1>3, NextStep DEF At, Arg
  <1>5. RowsStand /\ SumsStay /\ books'.GATEWAY = books.GATEWAY
    BY <1>2, <1>3, StillThere DEF RestOfRefund
  <1>6. r \in RefundIds /\ refund[r] # Refunding!NoRefund
    BY <1>1, <1>4, RefundForms DEF Fits, RefundOps
  <1>7. x \in RefundSteps /\ x.op = "failRefund" /\ x.id = r
    BY <1>1, <1>6 DEF RefundSteps
  <1>8. x \in FitSteps(h)'
    BY <1>2, <1>6, <1>7, RefundFitsNext DEF RefundOps
  <1>9. <<x>> \in ListsOf(FitSteps(h)', LaterSteps(h)') /\ Plain(<<x>>)
    BY <1>7, <1>8, Listed DEF OwedOps
  <1>10. Arg(h).op \notin OwedOps
    BY <1>1, <1>4 DEF OwedOps
  <1> QED BY <1>1, <1>2, <1>4, <1>5, <1>9, <1>10, OnHolds

LEMMA FailHolds ==
  ASSUME PaymentsInv, NEW h \in All, Refunding!Fail(h), RestOfRefund
  PROVE  /\ PaymentsInv' /\ todo[h] # <<>> /\ Goes(h, <<>>) /\ Arg(h).id \in RefundIds
         /\ \A r \in RefundIds :
              /\ refund'[r].kind = refund[r].kind /\ refund'[r].payment = refund[r].payment
              /\ refund'[r].sent = refund[r].sent
              /\ r # Arg(h).id => refund'[r] = refund[r]
  <1>1. PICK s, r : s = Arg(h) /\ r = s.id
    OBVIOUS
  <1>2. /\ At(h, "failRefund") /\ UNCHANGED <<payment, books, accepted, faults>>
        /\ refund' = [refund EXCEPT ![r].status = "FAILED"] /\ Continue(h, <<>>)
    BY <1>1, RefundCalls DEF Refunding!Fail
  <1>3. CallsFit /\ Lists
    BY DEF PaymentsInv, CallsFit
  <1>4. todo[h] # <<>> /\ s.op = "failRefund" /\ s \in Steps /\ Fits(h, s)
    BY <1>1, <1>2, <1>3, NextStep DEF At, Arg
  <1>5. r \in RefundIds /\ refund[r] # Refunding!NoRefund
    BY <1>1, <1>4, RefundForms DEF Fits, RefundOps
  <1>6. Arg(h).op \notin OwedOps
    BY <1>1, <1>4 DEF OwedOps
  <1>7. PICK row : row = [refund[r] EXCEPT !.status = "FAILED"]
    OBVIOUS
  <1>8. refund[r] \in RefundRows
    BY <1>3, <1>5 DEF CallsFit, RowTypes
  <1>9. /\ row \in RefundRows /\ row.payment = refund[r].payment /\ row.kind = refund[r].kind
        /\ row.cash = refund[r].cash /\ row.amounts = refund[r].amounts
        /\ row.sent = refund[r].sent
    BY <1>7, <1>8 DEF RefundRows
  <1>10. refund' = [refund EXCEPT ![r] = row]
    BY <1>2, <1>7
  <1>11. Beside /\ books'.GATEWAY = books.GATEWAY
    BY <1>2, <1>3 DEF Beside, RestOfRefund, CallsFit, OtherTypes
  <1>12. PaymentsStand /\ payment' \in [Orders -> PaymentRows \cup {NoPayment}]
    BY <1>2, <1>3 DEF PaymentsStand, Captured, PaymentsIn, CallsFit, RowTypes
  <1>13. /\ RowsStand /\ Refunding!SentCash' = Refunding!SentCash
         /\ TransferredCash' = TransferredCash
         /\ refund'[r] = row /\ \A q \in RefundIds : q # r => refund'[q] = refund[q]
    BY <1>2, <1>3, <1>5, <1>9, <1>10, <1>11, <1>12, RefundSet DEF RestOfRefund
  <1>14. CapturedCash' = CapturedCash
    <2>1. \A o \in Orders : CapturedOf(o)' = CapturedOf(o)
      BY <1>2 DEF CapturedOf, Captured, PaymentsIn
    <2> QED BY <2>1, CapturedSame
  <1>15. PaymentsInv' /\ Goes(h, <<>>)
    BY <1>2, <1>4, <1>6, <1>11, <1>13, <1>14, NothingListed, OnHolds DEF SumsStay
  <1> QED BY <1>1, <1>4, <1>5, <1>9, <1>13, <1>15

LEMMA CashInType ==
  ASSUME RowTypes, NEW S \in SUBSET RefundIds
  PROVE  Refunding!CashIn(S) \in Int
  <1>1. IsFiniteSet(S)
    BY Finite, FS_Subset
  <1>2. [r \in S |-> refund[r].cash] \in [S -> Int]
    BY RefundTerm DEF RowTypes
  <1> QED BY <1>1, <1>2, SumType, SameSum DEF Refunding!CashIn

LEMMA TallyHolds ==
  ASSUME PaymentsInv, NEW h \in All, Refunding!Tally(h), RestOfRefund
  PROVE  /\ PaymentsInv' /\ todo[h] # <<>>
         /\ \E sum \in Int : Goes(h, <<[op |-> "saveRefund", id |-> Arg(h).id,
                                        status |-> Arg(h).status, sum |-> sum]>>)
  <1>1. PICK s, r, p : s = Arg(h) /\ r = s.id /\ p = refund[r].payment
    OBVIOUS
  <1>2. PICK S, n, x :
          /\ S = {q \in Refunding!RefundsOf(p) \ {r} : refund[q].sent
                                                      /\ refund[q].status \in Refunding!Counted}
          /\ n = Refunding!CashIn(S) + refund[r].cash
          /\ x = [op |-> "saveRefund", id |-> r, status |-> s.status, sum |-> n]
    OBVIOUS
  <1>3. At(h, "tallyRefund") /\ UNCHANGED <<payment, refund, books, accepted, faults>>
        /\ Continue(h, <<x>>)
    BY <1>1, <1>2, RefundCalls DEF Refunding!Tally
  <1>4. CallsFit /\ Lists
    BY DEF PaymentsInv, CallsFit
  <1>5. todo[h] # <<>> /\ s.op = "tallyRefund" /\ s \in Steps /\ Fits(h, s)
    BY <1>1, <1>3, <1>4, NextStep DEF At, Arg
  <1>6. RowsStand /\ SumsStay /\ books'.GATEWAY = books.GATEWAY
    BY <1>3, <1>4, StillThere DEF RestOfRefund
  <1>7. r \in RefundIds /\ refund[r] # Refunding!NoRefund /\ refund[r].cash \in Int
        /\ s.status \in {"PENDING", "PROCESSED"}
    BY <1>1, <1>4, <1>5, RefundForms, RefundTerm DEF Fits, RefundOps, CallsFit, RowTypes
  <1>8. n \in Int
    <2>1. S \in SUBSET RefundIds
      BY <1>2, Ids DEF Refunding!RefundsOf
    <2> QED BY <1>2, <1>4, <1>7, <2>1, CashInType DEF CallsFit
  <1>9. x \in RefundSteps /\ x.op = "saveRefund" /\ x.id = r
    BY <1>2, <1>7, <1>8 DEF RefundSteps
  <1>10. x \in FitSteps(h)'
    BY <1>3, <1>7, <1>9, RefundFitsNext DEF RefundOps
  <1>11. <<x>> \in ListsOf(FitSteps(h)', LaterSteps(h)') /\ Head(<<x>>).op # "insertPayment"
    BY <1>9, <1>10, Listed, OwedByOne
  <1>12. OwedOf(h) = refund[r].cash
    BY <1>1, <1>5 DEF OwedOf, OwedBy, OwedFor, Arg
  <1>13. OwedBy(<<x>>, refund', transfer') = refund[r].cash
    BY <1>3, <1>9, OwedByOne DEF OwedFor
  <1>14. /\ Refunding!SentCash' = Refunding!SentCash + 0 /\ TransferredCash' = TransferredCash + 0
         /\ CapturedCash' = CapturedCash + 0 /\ books'.GATEWAY = books.GATEWAY + 0
    BY <1>4, <1>6, SumsAreInts DEF CallsFit, OtherTypes, SumsStay
  <1>15. 0 \in Int /\ OwedBy(<<x>>, refund', transfer') = OwedOf(h) + 0 + 0 - 0 - 0
    BY <1>7, <1>12, <1>13
  <1>16. PaymentsInv' /\ Goes(h, <<x>>)
    BY <1>3, <1>5, <1>6, <1>11, <1>14, <1>15, MoneyHolds
  <1> QED BY <1>1, <1>2, <1>5, <1>8, <1>16

LEMMA SaveHolds ==
  ASSUME PaymentsInv, NEW h \in All, Refunding!Save(h), RestOfRefund
  PROVE  /\ PaymentsInv' /\ todo[h] # <<>> /\ Goes(h, <<>>)
         /\ Arg(h).id \in RefundIds
         /\ refund'[Arg(h).id] = [refund[Arg(h).id] EXCEPT !.sent = TRUE, !.status = Arg(h).status]
         /\ \A q \in RefundIds : q # Arg(h).id => refund'[q] = refund[q]
         /\ books'.DEPOSIT_HELD = books.DEPOSIT_HELD - DepositOf(refund[Arg(h).id])
         /\ Captured' = Captured
  <1>1. PICK s, r, p : s = Arg(h) /\ r = s.id /\ p = refund[r].payment
    OBVIOUS
  <1>2. PICK st : st = IF s.sum >= payment[p].amount THEN "REFUNDED" ELSE "PARTIALLY_REFUNDED"
    OBVIOUS
  <1>3. /\ At(h, "saveRefund") /\ UNCHANGED <<accepted, faults>> /\ Continue(h, <<>>)
        /\ refund' = [refund EXCEPT ![r].sent = TRUE, ![r].status = s.status]
        /\ books' = Refunding!Posted(books, Refunding!PostingsOf(refund[r]))
        /\ payment' = [payment EXCEPT ![p].status = st]
    <2>1. At(h, "saveRefund") /\ UNCHANGED <<accepted, faults>> /\ Continue(h, <<>>)
      BY RefundCalls DEF Refunding!Save
    <2>2. Refunding!Arg(h) = s
      BY <1>1, RefundCalls
    <2> QED BY <1>1, <1>2, <2>1, <2>2 DEF Refunding!Save
  <1>4. CallsFit /\ Lists
    BY DEF PaymentsInv, CallsFit
  <1>5. todo[h] # <<>> /\ s.op = "saveRefund" /\ s \in Steps /\ Fits(h, s)
    BY <1>1, <1>3, <1>4, NextStep DEF At, Arg
  <1>6. r \in RefundIds /\ refund[r] # Refunding!NoRefund /\ refund[r].cash \in Int
        /\ s.status \in {"PENDING", "PROCESSED"}
    BY <1>1, <1>4, <1>5, RefundForms, RefundTerm DEF Fits, RefundOps, CallsFit, RowTypes
  <1>7. refund[r] \in RefundRows /\ RefundFits(refund[r])
    BY <1>4, <1>6 DEF CallsFit, RowTypes, RefundRowsFit
  <1>8. p \in Captured /\ p \in Orders /\ payment[p] \in PaymentRows
    BY <1>1, <1>4, <1>7 DEF RefundFits, Captured, PaymentsIn, CallsFit, RowTypes, NoPayment
  <1>9. PICK row : row = [refund[r] EXCEPT !.sent = TRUE, !.status = s.status]
    OBVIOUS
  <1>10. /\ row \in RefundRows /\ row.payment = refund[r].payment /\ row.kind = refund[r].kind
         /\ row.cash = refund[r].cash /\ row.amounts = refund[r].amounts
    BY <1>6, <1>7, <1>9 DEF RefundRows
  <1>11. refund' = [refund EXCEPT ![r] = row]
    BY <1>3, <1>9
  <1>12. PICK pay : pay = [payment[p] EXCEPT !.status = st]
    OBVIOUS
  <1>13. /\ pay \in PaymentRows /\ pay.status = st /\ pay.amount = payment[p].amount
         /\ pay # NoPayment /\ st \in {"PARTIALLY_REFUNDED", "REFUNDED"}
    BY <1>2, <1>8, <1>12 DEF PaymentRows, NoPayment
  <1>14. /\ payment' \in [Orders -> PaymentRows \cup {NoPayment}] /\ payment'[p] = pay
         /\ \A o \in Orders : o # p => payment'[o] = payment[o]
    <2>1. payment' = [payment EXCEPT ![p] = pay]
      BY <1>3, <1>12
    <2> QED BY <1>4, <1>8, <1>13, <2>1 DEF CallsFit, RowTypes
  <1>15. Captured' = Captured
    BY <1>8, <1>13, <1>14 DEF Captured, PaymentsIn
  <1>16. PaymentsStand
    BY <1>8, <1>13, <1>14, <1>15 DEF PaymentsStand, Captured, PaymentsIn, NoPayment
  <1>17. books'.GATEWAY = books.GATEWAY + refund[r].cash
         /\ books'.DEPOSIT_HELD = books.DEPOSIT_HELD - DepositOf(refund[r])
         /\ books.GATEWAY \in Int /\ books.DEPOSIT_HELD \in Int
    <2>1. books.GATEWAY \in Int /\ books.DEPOSIT_HELD \in Int
      BY <1>4 DEF CallsFit, OtherTypes
    <2> QED BY <1>3, <1>7, <2>1, RefundRowMoves DEF RefundFits
  <1>18. DepositOf(refund[r]) \in Int
    BY <1>7 DEF DepositOf, RefundRows, Amounts
  <1>19. Beside
    BY <1>3, <1>6, <1>17, <1>18 DEF Beside, RestOfRefund
  <1>20. /\ RowsStand /\ Refunding!SentCash' = Refunding!SentCash
         /\ TransferredCash' = TransferredCash
         /\ refund'[r] = row /\ \A q \in RefundIds : q # r => refund'[q] = refund[q]
    BY <1>3, <1>4, <1>6, <1>10, <1>11, <1>14, <1>16, <1>19, RefundSet DEF RestOfRefund
  <1>21. CapturedCash' = CapturedCash
    <2>1. \A o \in Orders : CapturedOf(o)' = CapturedOf(o)
      BY <1>8, <1>13, <1>14, <1>15 DEF CapturedOf
    <2> QED BY <2>1, CapturedSame
  <1>22. OwedOf(h) = refund[r].cash
    BY <1>1, <1>5 DEF OwedOf, OwedBy, OwedFor, Arg
  <1>23. PICK n : n = refund[r].cash
    OBVIOUS
  <1>24. /\ Refunding!SentCash' = Refunding!SentCash + 0 /\ TransferredCash' = TransferredCash + 0
         /\ CapturedCash' = CapturedCash + 0 /\ books'.GATEWAY = books.GATEWAY + n
    BY <1>4, <1>17, <1>20, <1>21, <1>23, SumsAreInts DEF CallsFit
  <1>25. 0 \in Int /\ n \in Int /\ OwedBy(<<>>, refund', transfer') = OwedOf(h) + 0 + 0 - 0 - n
    BY <1>6, <1>22, <1>23 DEF OwedBy
  <1>26. <<>> \in ListsOf(FitSteps(h)', LaterSteps(h)')
    BY NothingListed
  <1>27. PaymentsInv' /\ Goes(h, <<>>)
    BY <1>3, <1>5, <1>20, <1>24, <1>25, <1>26, MoneyHolds
  <1> QED BY <1>1, <1>5, <1>6, <1>9, <1>15, <1>17, <1>20, <1>27

LEMMA RetryRefundsHolds ==
  ASSUME PaymentsInv, NEW h \in All, Refunding!RetryFailed(h), RestOfRefund
  PROVE  /\ PaymentsInv' /\ todo[h] # <<>> /\ Arg(h).op = "retryRefunds"
         /\ UNCHANGED <<payment, refund, books, accepted>>
         /\ \E steps : /\ Goes(h, steps)
                       /\ \A i \in 1..Len(steps) :
                            /\ steps[i].op = "attempt" /\ steps[i].id \in RefundIds
                            /\ refund[steps[i].id].status = "FAILED"
                            /\ refund[steps[i].id].sent = FALSE
                       /\ \A i, j \in 1..Len(steps) : steps[i].id = steps[j].id => i = j
  <1>1. PICK F, n, q : F = Refunding!Failed /\ n = Cardinality(F) /\ q = SetToSeq(F)
    OBVIOUS
  <1>2. PICK steps : steps = [i \in 1..n |-> [op |-> "attempt", id |-> q[i]]]
    OBVIOUS
  <1>3. At(h, "retryRefunds") /\ UNCHANGED <<payment, refund, books, accepted, faults>>
        /\ Continue(h, steps)
    BY <1>1, <1>2, RefundCalls, SameSets DEF Refunding!RetryFailed
  <1>4. CallsFit /\ Lists
    BY DEF PaymentsInv, CallsFit
  <1>5. todo[h] # <<>> /\ Arg(h).op = "retryRefunds"
    BY <1>3 DEF At, Arg
  <1>6. RowsStand /\ SumsStay /\ books'.GATEWAY = books.GATEWAY
    BY <1>3, <1>4, StillThere DEF RestOfRefund
  <1>7. F \subseteq RefundIds /\ \A r \in F : refund[r].status = "FAILED" /\ ~refund[r].sent
    BY <1>1, Ids DEF Refunding!Failed, Refunding!Retryable
  <1>8. n \in Nat /\ q \in [1..n -> F] /\ \A i, j \in 1..n : q[i] = q[j] => i = j
    <2>1. IsFiniteSet(F)
      BY <1>7, Finite, FS_Subset
    <2> QED BY <1>1, <2>1, InSomeOrder
  <1>9. \A i \in 1..n : steps[i] \in LaterSteps(h)'
    <2> TAKE i \in 1..n
    <2>1. PICK r, x : r = q[i] /\ x = [op |-> "attempt", id |-> r]
      OBVIOUS
    <2>2. r \in F
      BY <1>8, <2>1
    <2>3. r \in RefundIds /\ refund[r] # Refunding!NoRefund
      BY <1>7, <2>2 DEF Refunding!NoRefund
    <2>4. x \in RefundSteps /\ x.op = "attempt" /\ x.id = r
      BY <2>1, <2>3 DEF RefundSteps
    <2>5. x \in LaterSteps(h)'
      BY <1>3, <2>3, <2>4, RefundFitsNext DEF RefundOps
    <2> QED BY <1>2, <2>1, <2>5
  <1>10. steps \in Seq(LaterSteps(h)') /\ Len(steps) = n
    <2>1. PICK L : L = LaterSteps(h)'
      OBVIOUS
    <2>2. steps \in [1..n -> L]
      BY <1>2, <1>9, <2>1
    <2>3. steps \in Seq(L)
      BY <1>8, <2>2, FromList
    <2> QED BY <1>2, <1>8, <2>1, <2>3
  <1>11. steps \in ListsOf(FitSteps(h)', LaterSteps(h)') /\ Plain(steps)
    <2>1. LaterSteps(h)' \subseteq FitSteps(h)'
      BY DEF LaterSteps
    <2>2. steps # <<>> => Head(steps) \in LaterSteps(h)'
      BY <1>10
    <2> QED BY <1>10, <2>1, <2>2, ListOfLater DEF Plain, LaterSteps, LaterOps, OwedOps
  <1>12. PaymentsInv' /\ Goes(h, steps)
    BY <1>3, <1>5, <1>6, <1>11, OnHolds DEF OwedOps
  <1>13. \A i \in 1..Len(steps) :
            /\ steps[i].op = "attempt" /\ steps[i].id \in RefundIds
            /\ refund[steps[i].id].status = "FAILED" /\ refund[steps[i].id].sent = FALSE
    <2> TAKE i \in 1..Len(steps)
    <2>1. PICK r : r = q[i]
      OBVIOUS
    <2>2. r \in F /\ steps[i].op = "attempt" /\ steps[i].id = r
      BY <1>2, <1>8, <1>10, <2>1
    <2>3. refund[r] \in RefundRows
      BY <1>4, <1>7, <2>2 DEF CallsFit, RowTypes, Refunding!NoRefund
    <2>4. refund[r].sent \in BOOLEAN
      BY <2>3 DEF RefundRows
    <2> QED BY <1>7, <2>2, <2>4
  <1>14. \A i, j \in 1..Len(steps) : steps[i].id = steps[j].id => i = j
    BY <1>2, <1>8, <1>10
  <1> QED BY <1>3, <1>5, <1>12, <1>13, <1>14

LEMMA SettledHolds ==
  ASSUME PaymentsInv, NEW r \in RefundIds, NEW ok \in BOOLEAN, RefundSettled(r, ok)
  PROVE  /\ PaymentsInv' /\ refund[r].sent = TRUE
         /\ \A q \in RefundIds :
              /\ refund'[q].kind = refund[q].kind /\ refund'[q].payment = refund[q].payment
              /\ refund'[q].sent = refund[q].sent
              /\ q # r => refund'[q] = refund[q]
  <1>1. PICK st : st = IF ok THEN "PROCESSED" ELSE "FAILED"
    OBVIOUS
  <1>2. /\ refund[r].sent /\ refund[r].status = "PENDING"
        /\ refund' = [refund EXCEPT ![r].status = st]
        /\ UNCHANGED <<payment, books, accepted, todo, faults>> /\ RestOfRefund
    BY <1>1 DEF RefundSettled, Refunding!Settle, RestOfRefund
  <1>3. CallsFit
    BY DEF PaymentsInv
  <1>4. refund[r] # Refunding!NoRefund /\ refund[r] \in RefundRows
    BY <1>2, <1>3 DEF CallsFit, RowTypes, Refunding!NoRefund
  <1>5. PICK row : row = [refund[r] EXCEPT !.status = st]
    OBVIOUS
  <1>6. /\ row \in RefundRows /\ row.payment = refund[r].payment /\ row.kind = refund[r].kind
        /\ row.cash = refund[r].cash /\ row.amounts = refund[r].amounts
        /\ row.sent = refund[r].sent /\ refund[r].sent = TRUE
    BY <1>1, <1>2, <1>4, <1>5 DEF RefundRows
  <1>7. refund' = [refund EXCEPT ![r] = row]
    BY <1>2, <1>5
  <1>8. Beside /\ books'.GATEWAY = books.GATEWAY
    BY <1>2, <1>3 DEF Beside, RestOfRefund, CallsFit, OtherTypes
  <1>9. PaymentsStand /\ payment' \in [Orders -> PaymentRows \cup {NoPayment}]
    BY <1>2, <1>3 DEF PaymentsStand, Captured, PaymentsIn, CallsFit, RowTypes
  <1>10. /\ RowsStand /\ Refunding!SentCash' = Refunding!SentCash
         /\ TransferredCash' = TransferredCash
         /\ refund'[r] = row /\ \A q \in RefundIds : q # r => refund'[q] = refund[q]
    BY <1>2, <1>3, <1>4, <1>6, <1>7, <1>8, <1>9, RefundSet DEF RestOfRefund
  <1>11. CapturedCash' = CapturedCash
    <2>1. \A o \in Orders : CapturedOf(o)' = CapturedOf(o)
      BY <1>2 DEF CapturedOf, Captured, PaymentsIn
    <2> QED BY <2>1, CapturedSame
  <1>12. PaymentsInv'
    BY <1>2, <1>8, <1>10, <1>11, RestHolds DEF SumsStay
  <1> QED BY <1>6, <1>10, <1>12

----------------------------------------------------------------------------
(* The steps of a transfer                                                 *)

RestOfPayouts == UNCHANGED <<tier, kept, credit, paid, recent, refund, accepted, journal, gatewayVars>>

KeepRents == {s \in Steps : s.op = "keepRent"}

(* The steps that a step of a transfer puts in front, ...                  *)
PayoutSteps(h, steps) ==
  /\ \A i \in 1..Len(steps) :
       steps[i].op \in RowOps \cup {"oweRent", "createKept"}
                         \cup (IF Arg(h).op = "onCancelled" THEN {"keepRent"} ELSE {})
  /\ One(steps, KeepRents)

(* ... and the rest of what it does to the calls, to the deposits held and *)
(* to the transfers of kept rent.                                          *)
PayoutMove(h) ==
  /\ todo[h] # <<>> /\ Others(h) /\ Arg(h).op \notin RefundOps \cup AskOps
  /\ Dropped(h) \/ \E steps : Goes(h, steps) /\ PayoutSteps(h, steps)
  /\ books'.DEPOSIT_HELD = books.DEPOSIT_HELD
  /\ Arg(h).op # "keepRent" /\ status # "COMPLETED" => Shares' \subseteq Shares
  /\ Arg(h).op = "keepRent" => \E t : Shares' \subseteq Shares \cup {t}

LEMMA HeadMayClose ==
  ASSUME NEW h, NEW s, Fits(h, s)
  PROVE  /\ s.op \in CancelOps \cup ReverseOps \cup SettleOps \cup SweepOps => MayClose(h)
         /\ s.op \in CancelOps => status = "CANCELLED"
         /\ s.op \in SettleOps => status = "COMPLETED"
  BY DEF Fits, OpsOf, MayClose, AskOps, RefundOps, SendOps, PayOps, CancelOps, ReverseOps,
         SettleOps, SweepOps

LEMMA TransferFitsNext ==
  ASSUME NEW h, NEW s \in TransferSteps, s.op \in RowOps, transfer'[s.id] # Paying!NoTransfer,
         s.op \notin SendOps => MayClose(h),
         s.op \in {"release", "saveRelease"} => status' = "COMPLETED"
  PROVE  /\ s \in FitSteps(h)'
         /\ s.op \in {"send", "reverse", "release"} => s \in LaterSteps(h)'
  <1>1. s \in Steps
    BY DEF Steps
  <1>2. s.op \in OpsOf(h)
    BY DEF OpsOf, RowOps, SendOps, ReverseOps, SettleOps
  <1>3. Fits(h, s)'
    BY <1>2 DEF Fits, AskOps, RefundOps, RowOps, SendOps, ReverseOps, CancelOps, SettleOps
  <1> QED BY <1>1, <1>3 DEF FitSteps, LaterSteps, LaterOps

LEMMA OnePayoutStep ==
  ASSUME NEW h, NEW s, s.op \in RowOps \cup {"oweRent", "createKept"}
  PROVE  PayoutSteps(h, <<s>>) /\ PayoutSteps(h, <<>>)
  <1>1. Len(<<s>>) = 1 /\ <<s>>[1] = s /\ Len(<<>>) = 0
    OBVIOUS
  <1>2. \A i \in 1..Len(<<s>>) : i = 1
    BY <1>1
  <1>3. 1..Len(<<>>) = {}
    BY <1>1
  <1> QED BY <1>1, <1>2, <1>3 DEF PayoutSteps, One

LEMMA NoPayoutStep ==
  ASSUME NEW h
  PROVE  PayoutSteps(h, <<>>)
  <1>1. 1..Len(<<>>) = {}
    OBVIOUS
  <1> QED BY <1>1 DEF PayoutSteps, One

LEMMA SharesStay ==
  ASSUME \A t \in TransferIds : /\ transfer'[t] # Paying!NoTransfer => transfer[t] # Paying!NoTransfer
                                /\ transfer'[t].onHold = transfer[t].onHold
                                /\ transfer'[t].fromDeposit = transfer[t].fromDeposit
  PROVE  Shares' \subseteq Shares
  BY DEF Shares

(* One that reads, *)
LEMMA ReadsPayout ==
  ASSUME PaymentsInv, NEW h \in All, RestOfPayouts, UNCHANGED <<status, payment, transfer, razorpay, books>>,
         UNCHANGED faults \/ Refused, todo[h] # <<>>,
         Arg(h).op \notin OwedOps \cup RefundOps \cup AskOps,
         NEW steps \in ListsOf(FitSteps(h)', LaterSteps(h)'), Plain(steps), Continue(h, steps),
         PayoutSteps(h, steps)
  PROVE  PaymentsInv' /\ PayoutMove(h)
  <1>1. CallsFit
    BY DEF PaymentsInv
  <1>2. Unmoved
    BY <1>1 DEF Unmoved, RestOfPayouts, bookingRow, gatewayVars, CallsFit, BookingTypes, OtherTypes
  <1>3. RowsStand /\ SumsStay /\ books'.GATEWAY = books.GATEWAY
    BY <1>1, <1>2, UnmovedStands
  <1>4. PaymentsInv' /\ Goes(h, steps)
    BY <1>3, OnHolds
  <1>5. Shares' \subseteq Shares
    BY SharesStay
  <1>6. Others(h)
    BY <1>4 DEF Goes
  <1> QED BY <1>4, <1>5, <1>6 DEF PayoutMove

(* one that changes a row, *)
LEMMA WritesPayout ==
  ASSUME PaymentsInv, NEW h \in All, RestOfPayouts, UNCHANGED <<status, payment, razorpay, books, faults>>,
         todo[h] # <<>>, Arg(h).op \notin OwedOps \cup RefundOps \cup AskOps,
         NEW steps \in ListsOf(FitSteps(h)', LaterSteps(h)'), Plain(steps), Continue(h, steps),
         PayoutSteps(h, steps),
         NEW t \in TransferIds, transfer[t] # Paying!NoTransfer, NEW row \in TransferRows,
         transfer' = [transfer EXCEPT ![t] = row], row.amount = transfer[t].amount,
         row.fromDeposit = transfer[t].fromDeposit,
         row.onHold = transfer[t].onHold \/ status = "COMPLETED"
  PROVE  PaymentsInv' /\ PayoutMove(h)
  <1>1. CallsFit
    BY DEF PaymentsInv
  <1>2. BesideTransfers /\ books'.GATEWAY = books.GATEWAY
    BY <1>1 DEF BesideTransfers, Beside, RestOfPayouts, bookingVars, bookingRow, CallsFit, OtherTypes
  <1>3. /\ RowsStand /\ SumsStay
        /\ transfer'[t] = row /\ \A u \in TransferIds : u # t => transfer'[u] = transfer[u]
    BY <1>1, <1>2, TransferSet
  <1>4. PaymentsInv' /\ Goes(h, steps)
    BY <1>2, <1>3, OnHolds
  <1>5. row.onHold = transfer[t].onHold => Shares' \subseteq Shares
    BY <1>3, SharesStay
  <1>6. Others(h)
    BY <1>4 DEF Goes
  <1>7. Arg(h).op = "keepRent" => status = "CANCELLED"
    BY <1>1, NextStep, HeadMayClose DEF CallsFit, CancelOps
  <1>8. Arg(h).op = "keepRent" => Shares' \subseteq Shares \cup {t}
    BY <1>5, <1>7
  <1> QED BY <1>4, <1>5, <1>6, <1>8 DEF PayoutMove

(* and one that makes one.                                                 *)
LEMMA MakesPayout ==
  ASSUME PaymentsInv, NEW h \in All, RestOfPayouts, UNCHANGED <<status, payment, razorpay, books, faults>>,
         todo[h] # <<>>, Arg(h).op \notin OwedOps \cup RefundOps \cup AskOps,
         NEW amount \in Int, NEW onHold \in BOOLEAN, NEW fromDeposit \in BOOLEAN,
         Paying!CreateAndSend(h, amount, onHold, fromDeposit),
         Arg(h).op = "keepRent" \/ onHold \/ fromDeposit
  PROVE  PaymentsInv' /\ PayoutMove(h)
  <1>1. CallsFit
    BY DEF PaymentsInv
  <1>2. PICK row : row = [amount |-> amount, onHold |-> onHold, fromDeposit |-> fromDeposit,
                          status |-> "AWAITING_ACCOUNT", attempts |-> 0, sent |-> FALSE]
    OBVIOUS
  <1>3. row \in TransferRows /\ row.onHold = onHold /\ row.fromDeposit = fromDeposit
    BY <1>2 DEF TransferRows
  <1>4. PICK t, s :
          /\ t \in TransferIds
          /\ transfer[t] = Paying!NoTransfer /\ transfer' = [transfer EXCEPT ![t] = row]
          /\ s = [op |-> "send", id |-> t] /\ Continue(h, <<s>>)
    BY <1>2, PayoutCalls, Ids DEF Paying!CreateAndSend, Paying!IsNext, Paying!NewTransfer
  <1>5. BesideTransfers /\ books'.GATEWAY = books.GATEWAY
    BY <1>1 DEF BesideTransfers, Beside, RestOfPayouts, bookingVars, bookingRow, CallsFit, OtherTypes
  <1>6. /\ RowsStand /\ SumsStay
        /\ transfer'[t] = row /\ row # Paying!NoTransfer
        /\ \A u \in TransferIds : u # t => transfer'[u] = transfer[u]
    BY <1>1, <1>3, <1>4, <1>5, TransferMade
  <1>7. s \in TransferSteps /\ s.op = "send" /\ s.id = t
    BY <1>4 DEF TransferSteps
  <1>8. s \in FitSteps(h)'
    BY <1>6, <1>7, TransferFitsNext DEF RowOps, SendOps
  <1>9. <<s>> \in ListsOf(FitSteps(h)', LaterSteps(h)') /\ Plain(<<s>>)
    BY <1>7, <1>8, Listed DEF OwedOps
  <1>10. PaymentsInv' /\ Goes(h, <<s>>)
    BY <1>4, <1>5, <1>6, <1>9, OnHolds
  <1>11. Shares' \subseteq Shares \cup {t}
    BY <1>6 DEF Shares
  <1>12. Arg(h).op # "keepRent" => Shares' \subseteq Shares
    BY <1>3, <1>6 DEF Shares
  <1>13. PayoutSteps(h, <<s>>)
    BY <1>7, OnePayoutStep DEF RowOps, SendOps
  <1>14. Others(h)
    BY <1>10 DEF Goes
  <1> QED BY <1>10, <1>11, <1>12, <1>13, <1>14 DEF PayoutMove

(* The actions, one by one.                                                *)
LEMMA HeadRow ==
  ASSUME PaymentsInv, NEW h \in All, todo[h] # <<>>, Arg(h).op \in RowOps
  PROVE  /\ Arg(h).id \in TransferIds /\ transfer[Arg(h).id] # Paying!NoTransfer
         /\ transfer[Arg(h).id] \in TransferRows
         /\ Arg(h).op \notin RefundOps \cup AskOps
         /\ Arg(h).op \notin SendOps => MayClose(h)
         /\ Arg(h).op \in {"release", "saveRelease"} => status = "COMPLETED"
  <1>1. PICK s : s = Arg(h)
    OBVIOUS
  <1>2. s \in Steps /\ Fits(h, s) /\ s.op \in RowOps
    BY <1>1, NextStep DEF PaymentsInv, CallsFit
  <1>3. s.id \in TransferIds /\ transfer[s.id] # Paying!NoTransfer
    BY <1>2, TransferForms DEF Fits
  <1>4. transfer[s.id] \in TransferRows
    BY <1>3 DEF PaymentsInv, CallsFit, RowTypes
  <1>5. /\ s.op \notin RefundOps \cup AskOps
        /\ s.op \notin SendOps => s.op \in ReverseOps \cup SettleOps
        /\ s.op \in {"release", "saveRelease"} => s.op \in SettleOps
    BY <1>2 DEF RowOps, RefundOps, AskOps, SendOps, ReverseOps, SettleOps
  <1> QED BY <1>1, <1>2, <1>3, <1>4, <1>5, HeadMayClose

LEMMA SendHolds ==
  ASSUME PaymentsInv, NEW h \in All, Paying!Send(h), RestOfPayouts
  PROVE  PaymentsInv' /\ PayoutMove(h)
  <1>1. PICK t, s : /\ t = Arg(h).id
                    /\ s = IF account = "ACTIVATED"
                           THEN [op |-> "claimTransfer", id |-> t, onHold |-> transfer[t].onHold,
                                 attempts |-> transfer[t].attempts]
                           ELSE [op |-> "wait", id |-> t]
    OBVIOUS
  <1>2. /\ At(h, "send") /\ Continue(h, <<s>>)
        /\ UNCHANGED <<status, payment, transfer, books, razorpay, faults>>
    BY <1>1, PayoutCalls DEF Paying!Send
  <1>3. todo[h] # <<>> /\ Arg(h).op = "send"
    BY <1>2 DEF At, Arg
  <1>4. t \in TransferIds /\ transfer[t] # Paying!NoTransfer /\ transfer[t] \in TransferRows
    BY <1>1, <1>3, HeadRow DEF RowOps, SendOps
  <1>5. transfer[t].onHold \in BOOLEAN /\ transfer[t].attempts \in Nat
    BY <1>4 DEF TransferRows
  <1>6. s \in TransferSteps /\ s.op \in {"claimTransfer", "wait"} /\ s.id = t
    BY <1>1, <1>4, <1>5 DEF TransferSteps
  <1>7. s \in FitSteps(h)'
    BY <1>2, <1>4, <1>6, TransferFitsNext DEF RowOps, SendOps
  <1>8. <<s>> \in ListsOf(FitSteps(h)', LaterSteps(h)') /\ Plain(<<s>>)
    BY <1>6, <1>7, Listed DEF OwedOps
  <1>9. PayoutSteps(h, <<s>>)
    BY <1>6, OnePayoutStep DEF RowOps, SendOps
  <1> QED BY <1>2, <1>3, <1>8, <1>9, ReadsPayout DEF OwedOps, RefundOps, AskOps

LEMMA WaitHolds ==
  ASSUME PaymentsInv, NEW h \in All, Paying!Wait(h), RestOfPayouts
  PROVE  PaymentsInv' /\ PayoutMove(h)
  <1>1. PICK t, row : t = Arg(h).id /\ row = [transfer[t] EXCEPT !.status = "AWAITING_ACCOUNT"]
    OBVIOUS
  <1>2. /\ At(h, "wait") /\ Continue(h, <<>>) /\ transfer' = [transfer EXCEPT ![t] = row]
        /\ UNCHANGED <<status, payment, razorpay, books, faults>>
    BY <1>1, PayoutCalls DEF Paying!Wait
  <1>3. todo[h] # <<>> /\ Arg(h).op = "wait"
    BY <1>2 DEF At, Arg
  <1>4. t \in TransferIds /\ transfer[t] # Paying!NoTransfer /\ transfer[t] \in TransferRows
    BY <1>1, <1>3, HeadRow DEF RowOps, SendOps
  <1>5. /\ row \in TransferRows /\ row.amount = transfer[t].amount
        /\ row.fromDeposit = transfer[t].fromDeposit /\ row.onHold = transfer[t].onHold
    BY <1>1, <1>4 DEF TransferRows
  <1> QED BY <1>2, <1>3, <1>4, <1>5, NothingListed, NoPayoutStep, WritesPayout
          DEF OwedOps, RefundOps, AskOps

LEMMA ClaimTransferHolds ==
  ASSUME PaymentsInv, NEW h \in All, Paying!Claim(h), RestOfPayouts
  PROVE  PaymentsInv' /\ PayoutMove(h)
  <1>1. PICK t, s, row : /\ t = Arg(h).id /\ row = [transfer[t] EXCEPT !.attempts = @ + 1]
                         /\ s = [op |-> "callTransfer", id |-> t, onHold |-> Arg(h).onHold]
    OBVIOUS
  <1>2. /\ At(h, "claimTransfer") /\ UNCHANGED <<status, payment, razorpay, books, faults>>
        /\ \/ transfer' = [transfer EXCEPT ![t] = row] /\ Continue(h, <<s>>)
           \/ Continue(h, <<>>) /\ UNCHANGED transfer
    BY <1>1, PayoutCalls DEF Paying!Claim
  <1>3. todo[h] # <<>> /\ Arg(h).op = "claimTransfer"
    BY <1>2 DEF At, Arg
  <1>4. t \in TransferIds /\ transfer[t] # Paying!NoTransfer /\ transfer[t] \in TransferRows
    BY <1>1, <1>3, HeadRow DEF RowOps, SendOps
  <1>5. Arg(h).onHold \in BOOLEAN
    BY <1>3, NextStep, TransferForms DEF PaymentsInv, CallsFit
  <1>6. /\ row \in TransferRows /\ row.amount = transfer[t].amount
        /\ row.fromDeposit = transfer[t].fromDeposit /\ row.onHold = transfer[t].onHold
    BY <1>1, <1>4 DEF TransferRows
  <1>7. s \in TransferSteps /\ s.op = "callTransfer" /\ s.id = t
    BY <1>1, <1>4, <1>5 DEF TransferSteps
  <1>8. CASE Continue(h, <<>>) /\ UNCHANGED transfer
    BY <1>2, <1>3, <1>8, NothingListed, NoPayoutStep, ReadsPayout DEF OwedOps, RefundOps, AskOps
  <1>9. CASE transfer' = [transfer EXCEPT ![t] = row] /\ Continue(h, <<s>>)
    <2>1. transfer'[t] # Paying!NoTransfer
      BY <1>4, <1>6, <1>9 DEF PaymentsInv, CallsFit, RowTypes, TransferRows, Paying!NoTransfer
    <2>2. s \in FitSteps(h)'
      BY <1>7, <2>1, TransferFitsNext DEF RowOps, SendOps
    <2>3. <<s>> \in ListsOf(FitSteps(h)', LaterSteps(h)') /\ Plain(<<s>>)
      BY <1>7, <2>2, Listed DEF OwedOps
    <2>4. PayoutSteps(h, <<s>>)
      BY <1>7, OnePayoutStep DEF RowOps, SendOps
    <2> QED BY <1>2, <1>3, <1>4, <1>6, <1>9, <2>3, <2>4, WritesPayout DEF OwedOps, RefundOps, AskOps
  <1> QED BY <1>2, <1>8, <1>9

LEMMA FailTransferHolds ==
  ASSUME PaymentsInv, NEW h \in All, Paying!Fail(h), RestOfPayouts
  PROVE  PaymentsInv' /\ PayoutMove(h)
  <1>1. PICK t, row : t = Arg(h).id /\ row = [transfer[t] EXCEPT !.status = "FAILED"]
    OBVIOUS
  <1>2. /\ At(h, "failTransfer") /\ Continue(h, <<>>) /\ transfer' = [transfer EXCEPT ![t] = row]
        /\ UNCHANGED <<status, payment, razorpay, books, faults>>
    BY <1>1, PayoutCalls DEF Paying!Fail
  <1>3. todo[h] # <<>> /\ Arg(h).op = "failTransfer"
    BY <1>2 DEF At, Arg
  <1>4. t \in TransferIds /\ transfer[t] # Paying!NoTransfer /\ transfer[t] \in TransferRows
    BY <1>1, <1>3, HeadRow DEF RowOps, SendOps
  <1>5. /\ row \in TransferRows /\ row.amount = transfer[t].amount
        /\ row.fromDeposit = transfer[t].fromDeposit /\ row.onHold = transfer[t].onHold
    BY <1>1, <1>4 DEF TransferRows
  <1> QED BY <1>2, <1>3, <1>4, <1>5, NothingListed, NoPayoutStep, WritesPayout
          DEF OwedOps, RefundOps, AskOps

LEMMA RefusedTransferHolds ==
  ASSUME PaymentsInv, NEW h \in All, Paying!RefusedTransfer(h), RestOfPayouts
  PROVE  PaymentsInv' /\ PayoutMove(h)
  <1>1. PICK t, s : t = Arg(h).id /\ s = [op |-> "failTransfer", id |-> t]
    OBVIOUS
  <1>2. /\ At(h, "callTransfer") /\ Continue(h, <<s>>) /\ Refused
        /\ UNCHANGED <<status, payment, transfer, razorpay, books>>
    BY <1>1, PayoutCalls DEF Paying!RefusedTransfer
  <1>3. todo[h] # <<>> /\ Arg(h).op = "callTransfer"
    BY <1>2 DEF At, Arg
  <1>4. t \in TransferIds /\ transfer[t] # Paying!NoTransfer
    BY <1>1, <1>3, HeadRow DEF RowOps, SendOps
  <1>5. s \in TransferSteps /\ s.op = "failTransfer" /\ s.id = t
    BY <1>1, <1>4 DEF TransferSteps
  <1>6. s \in FitSteps(h)'
    BY <1>2, <1>4, <1>5, TransferFitsNext DEF RowOps, SendOps
  <1>7. <<s>> \in ListsOf(FitSteps(h)', LaterSteps(h)') /\ Plain(<<s>>)
    BY <1>5, <1>6, Listed DEF OwedOps
  <1>8. PayoutSteps(h, <<s>>)
    BY <1>5, OnePayoutStep DEF RowOps, SendOps
  <1> QED BY <1>2, <1>3, <1>7, <1>8, ReadsPayout DEF OwedOps, RefundOps, AskOps

(* One that changes what Razorpay has of a transfer, *)
LEMMA MovesPayout ==
  ASSUME PaymentsInv, NEW h \in All, RestOfPayouts, UNCHANGED <<status, payment, transfer, books, faults>>,
         todo[h] # <<>>, Arg(h).op \notin OwedOps \cup RefundOps \cup AskOps,
         NEW steps \in ListsOf(FitSteps(h)', LaterSteps(h)'),
         steps # <<>> => Head(steps).op # "insertPayment", Continue(h, steps), PayoutSteps(h, steps),
         NEW t \in TransferIds, transfer[t] # Paying!NoTransfer, NEW row \in AtRazorpay,
         razorpay' = [razorpay EXCEPT ![t] = row], NEW n \in Int,
         n = row.held + row.lender - razorpay[t].held - razorpay[t].lender,
         OwedBy(steps, refund', transfer') = transfer[t].amount * n
  PROVE  PaymentsInv' /\ PayoutMove(h)
  <1>1. CallsFit
    BY DEF PaymentsInv
  <1>2. BesideTransfers /\ books.GATEWAY \in Int
    BY <1>1 DEF BesideTransfers, Beside, RestOfPayouts, bookingVars, bookingRow, CallsFit, OtherTypes
  <1>3. PICK dt : dt = transfer[t].amount * n
    OBVIOUS
  <1>4. dt \in Int
    <2>1. transfer[t].amount \in Int
      BY <1>1, TransferTerm DEF CallsFit, RowTypes
    <2> QED BY <1>3, <2>1
  <1>5. /\ RowsStand
        /\ Refunding!SentCash' = Refunding!SentCash /\ CapturedCash' = CapturedCash
        /\ TransferredCash' = TransferredCash + dt
    BY <1>1, <1>2, <1>3, RazorpaySet
  <1>6. OwedOf(h) = 0
    BY DEF OwedOf, OwedBy, OwedFor, OwedOps, Arg
  <1>7. Refunding!SentCash' = Refunding!SentCash + 0 /\ CapturedCash' = CapturedCash + 0
        /\ books'.GATEWAY = books.GATEWAY + 0
    BY <1>1, <1>2, <1>5, SumsAreInts DEF CallsFit
  <1>8. 0 \in Int /\ OwedBy(steps, refund', transfer') = OwedOf(h) + 0 + dt - 0 - 0
    BY <1>3, <1>4, <1>6
  <1>9. PaymentsInv' /\ Goes(h, steps)
    BY <1>4, <1>5, <1>7, <1>8, MoneyHolds
  <1>10. Shares' \subseteq Shares
    BY SharesStay
  <1>11. Others(h)
    BY <1>9 DEF Goes
  <1> QED BY <1>9, <1>10, <1>11 DEF PayoutMove

(* and one that posts it.                                                  *)
LEMMA PostsPayout ==
  ASSUME PaymentsInv, NEW h \in All, RestOfPayouts, UNCHANGED <<status, payment, razorpay, faults>>,
         todo[h] # <<>>, Arg(h).op \notin RefundOps \cup AskOps, Arg(h).op # "keepRent",
         Continue(h, <<>>), NEW n \in Int, OwedOf(h) = n,
         books'.GATEWAY = books.GATEWAY + n, books'.DEPOSIT_HELD = books.DEPOSIT_HELD,
         NEW t \in TransferIds, transfer[t] # Paying!NoTransfer, NEW row \in TransferRows,
         transfer' = [transfer EXCEPT ![t] = row], row.amount = transfer[t].amount,
         row.fromDeposit = transfer[t].fromDeposit, row.onHold = transfer[t].onHold
  PROVE  PaymentsInv' /\ PayoutMove(h)
  <1>1. CallsFit /\ books.GATEWAY \in Int /\ books.DEPOSIT_HELD \in Int
    BY DEF PaymentsInv, CallsFit, OtherTypes
  <1>2. BesideTransfers
    BY <1>1 DEF BesideTransfers, Beside, RestOfPayouts, bookingVars, bookingRow
  <1>3. /\ RowsStand /\ SumsStay
        /\ transfer'[t] = row /\ \A u \in TransferIds : u # t => transfer'[u] = transfer[u]
    BY <1>1, <1>2, TransferSet
  <1>4. Refunding!SentCash' = Refunding!SentCash + 0 /\ CapturedCash' = CapturedCash + 0
        /\ TransferredCash' = TransferredCash + 0
    BY <1>1, <1>3, SumsAreInts DEF CallsFit, SumsStay
  <1>5. 0 \in Int /\ OwedBy(<<>>, refund', transfer') = OwedOf(h) + 0 + 0 - 0 - n
    BY DEF OwedBy
  <1>6. <<>> \in ListsOf(FitSteps(h)', LaterSteps(h)') /\ PayoutSteps(h, <<>>)
    BY NothingListed, NoPayoutStep
  <1>7. PaymentsInv' /\ Goes(h, <<>>)
    BY <1>3, <1>4, <1>5, <1>6, MoneyHolds
  <1>8. Shares' \subseteq Shares
    BY <1>3, SharesStay
  <1>9. Others(h)
    BY <1>7 DEF Goes
  <1> QED BY <1>6, <1>7, <1>8, <1>9 DEF PayoutMove

LEMMA CreatedHolds ==
  ASSUME PaymentsInv, NEW h \in All, Paying!Created(h), RestOfPayouts
  PROVE  PaymentsInv' /\ PayoutMove(h)
  <1>1. PICK t, s : t = Arg(h).id /\ s = [op |-> "saveTransfer", id |-> t, onHold |-> Arg(h).onHold]
    OBVIOUS
  <1>2. PICK row : row = IF Arg(h).onHold THEN [razorpay[t] EXCEPT !.held = @ + 1]
                         ELSE [razorpay[t] EXCEPT !.lender = @ + 1]
    OBVIOUS
  <1>3. /\ At(h, "callTransfer") /\ Continue(h, <<s>>) /\ razorpay' = [razorpay EXCEPT ![t] = row]
        /\ UNCHANGED <<status, payment, transfer, books, faults>>
    <2>1. Paying!Arg(h) = Arg(h)
      BY PayoutCalls
    <2>2. At(h, "callTransfer") /\ Continue(h, <<s>>)
          /\ UNCHANGED <<status, payment, transfer, books, faults>>
      BY <1>1, <2>1, PayoutCalls DEF Paying!Created
    <2>3. razorpay' = IF Arg(h).onHold THEN [razorpay EXCEPT ![t].held = @ + 1]
                      ELSE [razorpay EXCEPT ![t].lender = @ + 1]
      BY <1>1, <2>1 DEF Paying!Created
    <2> QED BY <1>2, <2>2, <2>3
  <1>4. todo[h] # <<>> /\ Arg(h).op = "callTransfer"
    BY <1>3 DEF At, Arg
  <1>5. t \in TransferIds /\ transfer[t] # Paying!NoTransfer
    BY <1>1, <1>4, HeadRow DEF RowOps, SendOps
  <1>6. Arg(h).onHold \in BOOLEAN
    BY <1>4, NextStep, TransferForms DEF PaymentsInv, CallsFit
  <1>7. razorpay[t] \in AtRazorpay
    BY <1>5 DEF PaymentsInv, CallsFit, RowTypes
  <1>8. /\ row \in AtRazorpay
        /\ 1 = row.held + row.lender - razorpay[t].held - razorpay[t].lender
    BY <1>2, <1>7 DEF AtRazorpay
  <1>9. s \in TransferSteps /\ s.op = "saveTransfer" /\ s.id = t
    BY <1>1, <1>5, <1>6 DEF TransferSteps
  <1>10. s \in FitSteps(h)'
    BY <1>3, <1>5, <1>9, TransferFitsNext DEF RowOps, SendOps
  <1>11. <<s>> \in ListsOf(FitSteps(h)', LaterSteps(h)') /\ Head(<<s>>).op # "insertPayment"
    BY <1>9, <1>10, Listed, OwedByOne
  <1>12. PayoutSteps(h, <<s>>)
    BY <1>9, OnePayoutStep DEF RowOps, SendOps
  <1>13. OwedBy(<<s>>, refund', transfer') = transfer[t].amount
    BY <1>3, <1>9, OwedByOne DEF OwedFor
  <1>14. transfer[t].amount * 1 = transfer[t].amount /\ 1 \in Int
    BY <1>5, TransferTerm DEF PaymentsInv, CallsFit, RowTypes
  <1> QED BY <1>3, <1>4, <1>5, <1>8, <1>11, <1>12, <1>13, <1>14, MovesPayout
          DEF OwedOps, RefundOps, AskOps

LEMMA SaveTransferHolds ==
  ASSUME PaymentsInv, NEW h \in All, Paying!Save(h), RestOfPayouts
  PROVE  PaymentsInv' /\ PayoutMove(h)
  <1>1. PICK t, n : t = Arg(h).id /\ n = transfer[t].amount
    OBVIOUS
  <1>2. PICK st : st = IF Arg(h).onHold THEN "ON_HOLD" ELSE "RELEASED"
    OBVIOUS
  <1>3. PICK row : row = [transfer[t] EXCEPT !.sent = TRUE, !.status = st]
    OBVIOUS
  <1>4. /\ At(h, "saveTransfer") /\ Continue(h, <<>>)
        /\ transfer' = [transfer EXCEPT ![t].sent = TRUE, ![t].status = st]
        /\ books' = Paying!Posted(books, Paying!TransferPostings(n))
        /\ UNCHANGED <<status, payment, razorpay, faults>>
    <2>1. Paying!Arg(h) = Arg(h)
      BY PayoutCalls
    <2>2. At(h, "saveTransfer") /\ Continue(h, <<>>) /\ UNCHANGED <<status, payment, razorpay, faults>>
      BY PayoutCalls DEF Paying!Save
    <2> QED BY <1>1, <1>2, <2>1, <2>2 DEF Paying!Save
  <1>5. todo[h] # <<>> /\ Arg(h).op = "saveTransfer"
    BY <1>4 DEF At, Arg
  <1>6. t \in TransferIds /\ transfer[t] # Paying!NoTransfer /\ transfer[t] \in TransferRows
    BY <1>1, <1>5, HeadRow DEF RowOps, SendOps
  <1>7. /\ row \in TransferRows /\ row.amount = transfer[t].amount
        /\ row.fromDeposit = transfer[t].fromDeposit /\ row.onHold = transfer[t].onHold
    BY <1>2, <1>3, <1>6 DEF TransferRows
  <1>8. transfer' = [transfer EXCEPT ![t] = row]
    BY <1>3, <1>4
  <1>9. n \in Int /\ books.GATEWAY \in Int /\ books.DEPOSIT_HELD \in Int
    BY <1>1, <1>6 DEF TransferRows, PaymentsInv, CallsFit, OtherTypes
  <1>10. books'.GATEWAY = books.GATEWAY + n /\ books'.DEPOSIT_HELD = books.DEPOSIT_HELD
    BY <1>4, <1>9, MovesBetween
  <1>11. OwedOf(h) = n
    BY <1>1, <1>5 DEF OwedOf, OwedBy, OwedFor, Arg
  <1> QED BY <1>4, <1>5, <1>6, <1>7, <1>8, <1>9, <1>10, <1>11, PostsPayout DEF RefundOps, AskOps

LEMMA SaveReversalHolds ==
  ASSUME PaymentsInv, NEW h \in All, Paying!SaveReversal(h), RestOfPayouts
  PROVE  PaymentsInv' /\ PayoutMove(h)
  <1>1. PICK t, n, m : t = Arg(h).id /\ n = transfer[t].amount /\ m = -n
    OBVIOUS
  <1>2. PICK row : row = [transfer[t] EXCEPT !.status = "REVERSED"]
    OBVIOUS
  <1>3. /\ At(h, "saveReversal") /\ Continue(h, <<>>)
        /\ transfer' = [transfer EXCEPT ![t].status = "REVERSED"]
        /\ books' = Paying!Posted(books, Paying!Reversal(n))
        /\ UNCHANGED <<status, payment, razorpay, faults>>
    <2>1. Paying!Arg(h) = Arg(h)
      BY PayoutCalls
    <2>2. At(h, "saveReversal") /\ Continue(h, <<>>) /\ UNCHANGED <<status, payment, razorpay, faults>>
      BY PayoutCalls DEF Paying!SaveReversal
    <2> QED BY <1>1, <2>1, <2>2 DEF Paying!SaveReversal
  <1>4. todo[h] # <<>> /\ Arg(h).op = "saveReversal"
    BY <1>3 DEF At, Arg
  <1>5. t \in TransferIds /\ transfer[t] # Paying!NoTransfer /\ transfer[t] \in TransferRows
    BY <1>1, <1>4, HeadRow DEF RowOps, SendOps, ReverseOps
  <1>6. /\ row \in TransferRows /\ row.amount = transfer[t].amount
        /\ row.fromDeposit = transfer[t].fromDeposit /\ row.onHold = transfer[t].onHold
    BY <1>2, <1>5 DEF TransferRows
  <1>7. transfer' = [transfer EXCEPT ![t] = row]
    BY <1>2, <1>3
  <1>8. n \in Int /\ m \in Int /\ books.GATEWAY \in Int /\ books.DEPOSIT_HELD \in Int
    BY <1>1, <1>5 DEF TransferRows, PaymentsInv, CallsFit, OtherTypes
  <1>9. books'.GATEWAY = books.GATEWAY - n /\ books'.DEPOSIT_HELD = books.DEPOSIT_HELD
    BY <1>3, <1>8, MovesBetween
  <1>10. books'.GATEWAY = books.GATEWAY + m
    BY <1>1, <1>8, <1>9
  <1>11. OwedOf(h) = m
    BY <1>1, <1>4 DEF OwedOf, OwedBy, OwedFor, Arg
  <1> QED BY <1>3, <1>4, <1>5, <1>6, <1>7, <1>8, <1>9, <1>10, <1>11, PostsPayout DEF RefundOps, AskOps

LEMMA TakeBackHolds ==
  ASSUME PaymentsInv, NEW h \in All, Paying!TakeBack(h), RestOfPayouts
  PROVE  PaymentsInv' /\ PayoutMove(h)
  <1>1. PICK t, s, row : /\ t = Arg(h).id /\ s = [op |-> "saveReversal", id |-> t]
                         /\ row = [razorpay[t] EXCEPT !.held = @ - 1]
    OBVIOUS
  <1>2. /\ At(h, "reverse") /\ UNCHANGED <<status, payment, transfer, books>>
        /\ \/ razorpay' = [razorpay EXCEPT ![t] = row] /\ Continue(h, <<s>>) /\ UNCHANGED faults
           \/ (UNCHANGED faults \/ Refused) /\ Continue(h, <<>>) /\ UNCHANGED razorpay
    BY <1>1, PayoutCalls DEF Paying!TakeBack
  <1>3. todo[h] # <<>> /\ Arg(h).op = "reverse"
    BY <1>2 DEF At, Arg
  <1>4. t \in TransferIds /\ transfer[t] # Paying!NoTransfer /\ MayClose(h)
    BY <1>1, <1>3, HeadRow DEF RowOps, SendOps, ReverseOps
  <1>5. CASE (UNCHANGED faults \/ Refused) /\ Continue(h, <<>>) /\ UNCHANGED razorpay
    BY <1>2, <1>3, <1>5, NothingListed, NoPayoutStep, ReadsPayout DEF OwedOps, RefundOps, AskOps
  <1>6. CASE razorpay' = [razorpay EXCEPT ![t] = row] /\ Continue(h, <<s>>) /\ UNCHANGED faults
    <2>1. razorpay[t] \in AtRazorpay
      BY <1>4 DEF PaymentsInv, CallsFit, RowTypes
    <2>2. row \in AtRazorpay /\ -1 = row.held + row.lender - razorpay[t].held - razorpay[t].lender
      BY <1>1, <2>1 DEF AtRazorpay
    <2>3. s \in TransferSteps /\ s.op = "saveReversal" /\ s.id = t
      BY <1>1, <1>4 DEF TransferSteps
    <2>4. s \in FitSteps(h)'
      BY <1>2, <1>4, <2>3, TransferFitsNext DEF RowOps, ReverseOps
    <2>5. <<s>> \in ListsOf(FitSteps(h)', LaterSteps(h)') /\ Head(<<s>>).op # "insertPayment"
      BY <2>3, <2>4, Listed, OwedByOne
    <2>6. PayoutSteps(h, <<s>>)
      BY <2>3, OnePayoutStep DEF RowOps, ReverseOps
    <2>7. OwedBy(<<s>>, refund', transfer') = -transfer[t].amount
      BY <1>2, <2>3, OwedByOne DEF OwedFor
    <2>8. transfer[t].amount * (-1) = -transfer[t].amount /\ -1 \in Int
      BY <1>4, TransferTerm DEF PaymentsInv, CallsFit, RowTypes
    <2> QED BY <1>2, <1>3, <1>4, <1>6, <2>2, <2>5, <2>6, <2>7, <2>8, MovesPayout
            DEF OwedOps, RefundOps, AskOps
  <1> QED BY <1>2, <1>5, <1>6

LEMMA ReleaseOneHolds ==
  ASSUME PaymentsInv, NEW h \in All, Paying!ReleaseOne(h), RestOfPayouts
  PROVE  PaymentsInv' /\ PayoutMove(h)
  <1>1. PICK t, s, row : /\ t = Arg(h).id /\ s = [op |-> "saveRelease", id |-> t]
                         /\ row = [razorpay[t] EXCEPT !.held = @ - 1, !.lender = @ + 1]
    OBVIOUS
  <1>2. /\ At(h, "release") /\ UNCHANGED <<status, payment, transfer, books>>
        /\ \/ razorpay' = [razorpay EXCEPT ![t] = row] /\ Continue(h, <<s>>) /\ UNCHANGED faults
           \/ (UNCHANGED faults \/ Refused) /\ Continue(h, <<>>) /\ UNCHANGED razorpay
    BY <1>1, PayoutCalls, ZenonT(60) DEF Paying!ReleaseOne
  <1>3. todo[h] # <<>> /\ Arg(h).op = "release"
    BY <1>2 DEF At, Arg
  <1>4. t \in TransferIds /\ transfer[t] # Paying!NoTransfer /\ MayClose(h) /\ status = "COMPLETED"
    BY <1>1, <1>3, HeadRow DEF RowOps, SendOps, ReverseOps
  <1>5. CASE (UNCHANGED faults \/ Refused) /\ Continue(h, <<>>) /\ UNCHANGED razorpay
    BY <1>2, <1>3, <1>5, NothingListed, NoPayoutStep, ReadsPayout DEF OwedOps, RefundOps, AskOps
  <1>6. CASE razorpay' = [razorpay EXCEPT ![t] = row] /\ Continue(h, <<s>>) /\ UNCHANGED faults
    <2>1. razorpay[t] \in AtRazorpay
      BY <1>4 DEF PaymentsInv, CallsFit, RowTypes
    <2>2. row \in AtRazorpay /\ 0 = row.held + row.lender - razorpay[t].held - razorpay[t].lender
      <3>1. PICK x : x = razorpay[t]
        OBVIOUS
      <3>2. x.held \in Int /\ x.lender \in Int /\ x \in AtRazorpay
        BY <2>1, <3>1 DEF AtRazorpay
      <3>3. PICK a, b : a = x.held - 1 /\ b = x.lender + 1
        OBVIOUS
      <3>4. row = [x EXCEPT !.held = a, !.lender = b]
        BY <1>1, <3>1, <3>3
      <3>5. /\ row = [held |-> a, lender |-> b, failed |-> x.failed, event |-> x.event]
            /\ x.failed \in Int /\ x.event \in BOOLEAN
        BY <3>2, <3>4 DEF AtRazorpay
      <3>6. a \in Int /\ b \in Int
        BY <3>2, <3>3
      <3>7. row \in AtRazorpay /\ row.held = a /\ row.lender = b
        BY <3>5, <3>6 DEF AtRazorpay
      <3> QED BY <3>1, <3>2, <3>3, <3>7
    <2>3. s \in TransferSteps /\ s.op = "saveRelease" /\ s.id = t
      BY <1>1, <1>4 DEF TransferSteps
    <2>4. s \in FitSteps(h)'
      BY <1>2, <1>4, <2>3, TransferFitsNext DEF RowOps
    <2>5. <<s>> \in ListsOf(FitSteps(h)', LaterSteps(h)') /\ Head(<<s>>).op # "insertPayment"
      BY <2>3, <2>4, Listed, OwedByOne
    <2>6. PayoutSteps(h, <<s>>)
      BY <2>3, OnePayoutStep DEF RowOps
    <2>7. OwedBy(<<s>>, refund', transfer') = 0
      BY <1>2, <2>3, OwedByOne DEF OwedFor
    <2>8. transfer[t].amount * 0 = 0 /\ 0 \in Int
      BY <1>4, TransferTerm DEF PaymentsInv, CallsFit, RowTypes
    <2> QED BY <1>2, <1>3, <1>4, <1>6, <2>2, <2>5, <2>6, <2>7, <2>8, MovesPayout
            DEF OwedOps, RefundOps, AskOps
  <1> QED BY <1>2, <1>5, <1>6

(* Lists with a step for each of some transfers.                           *)
LaterRows(h) == {s \in LaterSteps(h) : s.op \in {"send", "reverse", "release"}}

LEMMA SomeTransfers ==
  ASSUME CallsFit, NEW S \in SUBSET Paying!Rows
  PROVE  /\ Cardinality(S) \in Nat
         /\ \A i \in 1..Cardinality(S) : /\ SetToSeq(S)[i] \in TransferIds
                                         /\ transfer[SetToSeq(S)[i]] # Paying!NoTransfer
                                         /\ transfer[SetToSeq(S)[i]] \in TransferRows
  <1>1. S \subseteq TransferIds /\ \A t \in S : transfer[t] # Paying!NoTransfer
    BY Ids DEF Paying!Rows
  <1>2. IsFiniteSet(S)
    BY <1>1, Finite, FS_Subset
  <1>3. Cardinality(S) \in Nat /\ SetToSeq(S) \in [1..Cardinality(S) -> S]
    BY <1>2, InSomeOrder
  <1>4. \A i \in 1..Cardinality(S) : SetToSeq(S)[i] \in S
    BY <1>3
  <1>5. \A t \in S : transfer[t] \in TransferRows
    BY <1>1 DEF CallsFit, RowTypes
  <1> QED BY <1>1, <1>3, <1>4, <1>5

LEMMA SendsRows ==
  ASSUME CallsFit, UNCHANGED transfer, NEW S \in SUBSET Paying!Rows, NEW h
  PROVE  [i \in 1..Cardinality(S) |-> [op |-> "send", id |-> SetToSeq(S)[i]]] \in Seq(LaterRows(h)')
  <1>1. PICK n, q, L : n = Cardinality(S) /\ q = SetToSeq(S) /\ L = LaterRows(h)'
    OBVIOUS
  <1>2. n \in Nat /\ \A i \in 1..n : q[i] \in TransferIds /\ transfer[q[i]] # Paying!NoTransfer
    BY <1>1, SomeTransfers
  <1>3. ASSUME NEW i \in 1..n PROVE [op |-> "send", id |-> q[i]] \in L
    <2>1. PICK s : s = [op |-> "send", id |-> q[i]]
      OBVIOUS
    <2>2. s \in TransferSteps /\ s.op = "send" /\ transfer'[s.id] # Paying!NoTransfer
      BY <1>2, <2>1 DEF TransferSteps
    <2>3. s \in LaterSteps(h)'
      BY <2>2, TransferFitsNext DEF RowOps, SendOps
    <2> QED BY <1>1, <2>1, <2>2, <2>3 DEF LaterRows
  <1>4. PICK f : f = [i \in 1..n |-> [op |-> "send", id |-> q[i]]]
    OBVIOUS
  <1>5. f \in [1..n -> L]
    BY <1>3, <1>4
  <1> QED BY <1>1, <1>2, <1>4, <1>5, FromList

LEMMA ReversesRows ==
  ASSUME CallsFit, UNCHANGED transfer, NEW S \in SUBSET Paying!Rows, NEW h, MayClose(h)
  PROVE  [i \in 1..Cardinality(S) |-> Paying!ReverseStep(SetToSeq(S)[i])] \in Seq(LaterRows(h)')
  <1>1. PICK n, q, L : n = Cardinality(S) /\ q = SetToSeq(S) /\ L = LaterRows(h)'
    OBVIOUS
  <1>2. n \in Nat /\ \A i \in 1..n : /\ q[i] \in TransferIds /\ transfer[q[i]] # Paying!NoTransfer
                                     /\ transfer[q[i]] \in TransferRows
    BY <1>1, SomeTransfers
  <1>3. ASSUME NEW i \in 1..n PROVE Paying!ReverseStep(q[i]) \in L
    <2>1. PICK s : s = [op |-> "reverse", id |-> q[i], sent |-> transfer[q[i]].sent]
      OBVIOUS
    <2>2. transfer[q[i]].sent \in BOOLEAN
      BY <1>2 DEF TransferRows
    <2>3. s \in TransferSteps /\ s.op = "reverse" /\ transfer'[s.id] # Paying!NoTransfer
      BY <1>2, <2>1, <2>2 DEF TransferSteps
    <2>4. s \in LaterSteps(h)'
      BY <2>3, TransferFitsNext DEF RowOps, ReverseOps
    <2> QED BY <1>1, <2>1, <2>3, <2>4 DEF LaterRows, Paying!ReverseStep
  <1>4. PICK f : f = [i \in 1..n |-> Paying!ReverseStep(q[i])]
    OBVIOUS
  <1>5. f \in [1..n -> L]
    BY <1>3, <1>4
  <1> QED BY <1>1, <1>2, <1>4, <1>5, FromList

LEMMA ReleasesRows ==
  ASSUME CallsFit, UNCHANGED transfer, NEW S \in SUBSET Paying!Rows, NEW h, MayClose(h),
         status' = "COMPLETED"
  PROVE  [i \in 1..Cardinality(S) |-> Paying!ReleaseStep(SetToSeq(S)[i])] \in Seq(LaterRows(h)')
  <1>1. PICK n, q, L : n = Cardinality(S) /\ q = SetToSeq(S) /\ L = LaterRows(h)'
    OBVIOUS
  <1>2. n \in Nat /\ \A i \in 1..n : /\ q[i] \in TransferIds /\ transfer[q[i]] # Paying!NoTransfer
    BY <1>1, SomeTransfers
  <1>3. ASSUME NEW i \in 1..n PROVE Paying!ReleaseStep(q[i]) \in L
    <2>1. PICK held : held = (transfer[q[i]].status = "ON_HOLD" /\ transfer[q[i]].sent)
      OBVIOUS
    <2>2. PICK s : s = [op |-> "release", id |-> q[i], held |-> held]
      OBVIOUS
    <2>3. held \in BOOLEAN
      BY <2>1
    <2>4. s \in TransferSteps /\ s.op = "release" /\ transfer'[s.id] # Paying!NoTransfer
      BY <1>2, <2>2, <2>3 DEF TransferSteps
    <2>5. s \in LaterSteps(h)'
      BY <2>4, TransferFitsNext DEF RowOps
    <2>6. Paying!ReleaseStep(q[i]) = s
      BY <2>1, <2>2 DEF Paying!ReleaseStep
    <2> QED BY <1>1, <2>4, <2>5, <2>6 DEF LaterRows
  <1>4. PICK f : f = [i \in 1..n |-> Paying!ReleaseStep(q[i])]
    OBVIOUS
  <1>5. f \in [1..n -> L]
    BY <1>3, <1>4
  <1> QED BY <1>1, <1>2, <1>4, <1>5, FromList

LEMMA LaterRowsListed ==
  ASSUME NEW h, NEW q \in Seq(LaterRows(h)')
  PROVE  q \in ListsOf(FitSteps(h)', LaterSteps(h)') /\ Plain(q) /\ PayoutSteps(h, q)
  <1>1. PICK L, F, R : L = LaterSteps(h)' /\ F = FitSteps(h)' /\ R = LaterRows(h)'
    OBVIOUS
  <1>2. L \subseteq F /\ R \subseteq L /\ \A s \in R : s.op \in {"send", "reverse", "release"}
    BY <1>1 DEF LaterRows, LaterSteps
  <1>3. q \in Seq(R) /\ q \in Seq(L)
    BY <1>1, <1>2
  <1>4. q \in ListsOf(F, L)
    BY <1>2, <1>3, ListOfLater
  <1>5. q # <<>> => Head(q) \in R
    BY <1>3
  <1>6. Plain(q)
    BY <1>2, <1>5 DEF Plain, OwedOps
  <1>7. \A i \in 1..Len(q) : q[i] \in R
    BY <1>3
  <1>8. PayoutSteps(h, q)
    BY <1>2, <1>7 DEF PayoutSteps, One, KeepRents, RowOps, SendOps, ReverseOps
  <1> QED BY <1>1, <1>4, <1>6, <1>8

LEMMA KeepRentListed ==
  ASSUME NEW h, NEW q \in Seq(LaterRows(h)'), NEW u \in LaterSteps(h)', u.op = "keepRent",
         Arg(h).op = "onCancelled"
  PROVE  /\ q \o <<u>> \in ListsOf(FitSteps(h)', LaterSteps(h)') /\ Plain(q \o <<u>>)
         /\ PayoutSteps(h, q \o <<u>>)
  <1>1. PICK L, F, R : L = LaterSteps(h)' /\ F = FitSteps(h)' /\ R = LaterRows(h)'
    OBVIOUS
  <1>2. L \subseteq F /\ R \subseteq L /\ \A s \in R : s.op \in {"send", "reverse", "release"}
    BY <1>1 DEF LaterRows, LaterSteps
  <1>3. q \in Seq(R) /\ q \in Seq(L) /\ u \in L
    BY <1>1, <1>2
  <1>4. PICK p : p = q \o <<u>>
    OBVIOUS
  <1>5. /\ p \in Seq(L) /\ Len(p) = Len(q) + 1 /\ Len(q) \in Nat
        /\ p[Len(p)] = u
        /\ \A i \in 1..Len(q) : p[i] = q[i] /\ q[i] \in R
    BY <1>3, <1>4
  <1>6. \A i \in 1..Len(p) : i # Len(p) => i \in 1..Len(q)
    BY <1>5
  <1>7. \A i \in 1..Len(p) : i # Len(p) => p[i] \in R
    BY <1>5, <1>6
  <1>8. p \in ListsOf(F, L)
    BY <1>2, <1>5, ListOfLater
  <1>9. Plain(p)
    <2>1. p # <<>> => Head(p) \in L
      BY <1>5
    <2> QED BY <1>1, <2>1 DEF Plain, LaterSteps, LaterOps, OwedOps
  <1>10. \A i \in 1..Len(p) : p[i].op \in RowOps \cup {"keepRent"}
    BY <1>2, <1>5, <1>7 DEF RowOps, SendOps, ReverseOps
  <1>11. One(p, KeepRents)
    BY <1>2, <1>7 DEF One, KeepRents
  <1> QED BY <1>1, <1>4, <1>8, <1>9, <1>10, <1>11 DEF PayoutSteps

LEMMA ShareIsWhole ==
  ASSUME NEW n \in Int
  PROVE  Paying!LenderShare(n) \in Int
  <1>1. n * Bps + 5000 \in Int
    BY BpsAssumption
  <1>2. PICK m : m = n * Bps + 5000
    OBVIOUS
  <1>3. m \div 10000 \in Int
    BY <1>1, <1>2
  <1> QED BY <1>2, <1>3 DEF Paying!LenderShare, Paying!CommissionOn

LEMMA OwingFitsNext ==
  ASSUME NEW h, NEW s \in Steps, s.op \in {"oweRent", "keepRent", "createKept"},
         s.op = "oweRent" <=> ~MayClose(h),
         s.op = "keepRent" => status' = "CANCELLED", s.op = "createKept" => status' = "COMPLETED"
  PROVE  s \in FitSteps(h)' /\ (s.op = "keepRent" => s \in LaterSteps(h)')
  <1>1. s.op \in OpsOf(h)
    BY DEF OpsOf, PayOps, CancelOps, SettleOps
  <1>2. Fits(h, s)'
    BY <1>1 DEF Fits, AskOps, RefundOps, RowOps, SendOps, ReverseOps, CancelOps, SettleOps
  <1> QED BY <1>2 DEF FitSteps, LaterSteps, LaterOps

LEMMA HeadPays ==
  ASSUME NEW h, NEW s, Fits(h, s), s.op \in PayOps
  PROVE  ~MayClose(h)
  BY DEF Fits, OpsOf, MayClose, AskOps, RefundOps, SendOps, PayOps, CancelOps, ReverseOps,
         SettleOps, SweepOps

LEMMA OnConfirmedHolds ==
  ASSUME PaymentsInv, NEW h \in All, Paying!OnConfirmed(h), RestOfPayouts
  PROVE  PaymentsInv' /\ PayoutMove(h)
  <1>1. PICK s : s = [op |-> "oweRent"]
    OBVIOUS
  <1>2. /\ At(h, "onConfirmed") /\ (Continue(h, <<s>>) \/ Continue(h, <<>>))
        /\ UNCHANGED <<status, payment, transfer, books, razorpay, faults>>
    BY <1>1, PayoutCalls DEF Paying!OnConfirmed
  <1>3. todo[h] # <<>> /\ Arg(h).op = "onConfirmed"
    BY <1>2 DEF At, Arg
  <1>4. ~MayClose(h)
    BY <1>3, NextStep, HeadPays DEF PaymentsInv, CallsFit, PayOps
  <1>5. s \in Steps /\ s.op = "oweRent"
    BY <1>1 DEF Steps, PaymentSteps, PlainOps
  <1>6. s \in FitSteps(h)'
    BY <1>4, <1>5, OwingFitsNext
  <1>7. <<s>> \in ListsOf(FitSteps(h)', LaterSteps(h)') /\ Plain(<<s>>)
    BY <1>5, <1>6, Listed DEF OwedOps
  <1>8. PayoutSteps(h, <<s>>)
    BY <1>5, OnePayoutStep
  <1>9. CASE Continue(h, <<s>>)
    BY <1>2, <1>3, <1>7, <1>8, <1>9, ReadsPayout DEF OwedOps, RefundOps, AskOps
  <1>10. CASE Continue(h, <<>>)
    BY <1>2, <1>3, <1>10, NothingListed, NoPayoutStep, ReadsPayout DEF OwedOps, RefundOps, AskOps
  <1> QED BY <1>2, <1>9, <1>10

LEMMA OweRentHolds ==
  ASSUME PaymentsInv, NEW h \in All, Paying!OweRent(h), RestOfPayouts
  PROVE  PaymentsInv' /\ PayoutMove(h)
  <1>1. PICK n : n = Paying!LenderShare(Booking.rent)
    OBVIOUS
  <1>2. /\ At(h, "oweRent") /\ UNCHANGED <<status, payment, books, razorpay, faults>>
        /\ Paying!CreateAndSend(h, n, TRUE, FALSE) \/ (Throw(h) /\ UNCHANGED transfer)
    BY <1>1, PayoutCalls DEF Paying!OweRent
  <1>3. todo[h] # <<>> /\ Arg(h).op = "oweRent"
    BY <1>2 DEF At, Arg
  <1>4. n \in Int
    BY <1>1, CashIsInt, ShareIsWhole
  <1>5. Arg(h).op \notin OwedOps \cup RefundOps \cup AskOps
    BY <1>3 DEF OwedOps, RefundOps, AskOps
  <1>6. CASE Paying!CreateAndSend(h, n, TRUE, FALSE)
    BY <1>2, <1>3, <1>4, <1>5, <1>6, MakesPayout
  <1>7. CASE Throw(h) /\ UNCHANGED transfer
    <2>1. Unmoved
      BY <1>2, <1>7 DEF Unmoved, RestOfPayouts, bookingRow, gatewayVars, PaymentsInv, CallsFit,
                        BookingTypes, OtherTypes
    <2>2. RowsStand /\ SumsStay /\ books'.GATEWAY = books.GATEWAY
      BY <2>1, UnmovedStands DEF PaymentsInv
    <2>3. PaymentsInv' /\ Dropped(h) /\ Others(h)
      BY <1>3, <1>5, <1>7, <2>2, ThrowHolds
    <2>4. Shares' \subseteq Shares
      BY <1>7, SharesStay
    <2> QED BY <1>2, <1>3, <1>5, <2>3, <2>4 DEF PayoutMove
  <1> QED BY <1>2, <1>6, <1>7

LEMMA OnCancelledHolds ==
  ASSUME PaymentsInv, NEW h \in All, Paying!OnCancelled(h), RestOfPayouts
  PROVE  PaymentsInv' /\ PayoutMove(h)
  <1>1. PICK n, s : n = Booking.rent - Arg(h).refunded /\ s = [op |-> "keepRent", kept |-> n]
    OBVIOUS
  <1>2. PICK S, q :
          /\ S \in SUBSET Paying!Rows
          /\ q = [i \in 1..Cardinality(S) |-> Paying!ReverseStep(SetToSeq(S)[i])]
          /\ At(h, "onCancelled") /\ Continue(h, q \o <<s>>)
          /\ UNCHANGED <<status, payment, transfer, books, razorpay, faults>>
    BY <1>1, PayoutCalls, SameSets DEF Paying!OnCancelled, Paying!Each
  <1>3. todo[h] # <<>> /\ Arg(h).op = "onCancelled"
    BY <1>2 DEF At, Arg
  <1>4. Arg(h) \in Steps /\ Fits(h, Arg(h)) /\ CallsFit
    BY <1>3, NextStep DEF PaymentsInv, CallsFit
  <1>5. MayClose(h) /\ status = "CANCELLED" /\ Arg(h).refunded \in Int
    BY <1>3, <1>4, HeadMayClose, TransferForms DEF CancelOps
  <1>6. s \in Steps /\ s.op = "keepRent"
    <2>1. n \in Int
      BY <1>1, <1>5, CashIsInt
    <2> QED BY <1>1, <2>1 DEF Steps, TransferSteps
  <1>7. s \in LaterSteps(h)'
    BY <1>2, <1>5, <1>6, OwingFitsNext
  <1>8. q \in Seq(LaterRows(h)')
    BY <1>2, <1>4, <1>5, ReversesRows
  <1>9. /\ q \o <<s>> \in ListsOf(FitSteps(h)', LaterSteps(h)') /\ Plain(q \o <<s>>)
        /\ PayoutSteps(h, q \o <<s>>)
    BY <1>3, <1>6, <1>7, <1>8, KeepRentListed
  <1> QED BY <1>2, <1>3, <1>9, ReadsPayout DEF OwedOps, RefundOps, AskOps

LEMMA KeepRentHolds ==
  ASSUME PaymentsInv, NEW h \in All, Paying!KeepRent(h), RestOfPayouts
  PROVE  PaymentsInv' /\ PayoutMove(h)
  <1>1. PICK n : n = Paying!LenderShare(Arg(h).kept)
    OBVIOUS
  <1>2. /\ At(h, "keepRent") /\ UNCHANGED <<status, payment, books, razorpay, faults>>
        /\ Paying!CreateAndSend(h, n, FALSE, FALSE) \/ (Continue(h, <<>>) /\ UNCHANGED transfer)
    BY <1>1, PayoutCalls DEF Paying!KeepRent
  <1>3. todo[h] # <<>> /\ Arg(h).op = "keepRent"
    BY <1>2 DEF At, Arg
  <1>4. n \in Int
    BY <1>1, <1>3, NextStep, TransferForms, ShareIsWhole DEF PaymentsInv, CallsFit
  <1>5. Arg(h).op \notin OwedOps \cup RefundOps \cup AskOps
    BY <1>3 DEF OwedOps, RefundOps, AskOps
  <1>6. CASE Paying!CreateAndSend(h, n, FALSE, FALSE)
    BY <1>2, <1>3, <1>4, <1>5, <1>6, MakesPayout
  <1>7. CASE Continue(h, <<>>) /\ UNCHANGED transfer
    BY <1>2, <1>3, <1>5, <1>7, NothingListed, NoPayoutStep, ReadsPayout
  <1> QED BY <1>2, <1>6, <1>7

LEMMA DropHolds ==
  ASSUME PaymentsInv, NEW h \in All, Paying!Drop(h), RestOfPayouts
  PROVE  PaymentsInv' /\ PayoutMove(h)
  <1>1. PICK t, row : t = Arg(h).id /\ row = [transfer[t] EXCEPT !.status = "REVERSED"]
    OBVIOUS
  <1>2. /\ At(h, "reverse") /\ Continue(h, <<>>) /\ transfer' = [transfer EXCEPT ![t] = row]
        /\ UNCHANGED <<status, payment, razorpay, books, faults>>
    BY <1>1, PayoutCalls DEF Paying!Drop
  <1>3. todo[h] # <<>> /\ Arg(h).op = "reverse"
    BY <1>2 DEF At, Arg
  <1>4. t \in TransferIds /\ transfer[t] # Paying!NoTransfer /\ transfer[t] \in TransferRows
    BY <1>1, <1>3, HeadRow DEF RowOps, ReverseOps
  <1>5. /\ row \in TransferRows /\ row.amount = transfer[t].amount
        /\ row.fromDeposit = transfer[t].fromDeposit /\ row.onHold = transfer[t].onHold
    BY <1>1, <1>4 DEF TransferRows
  <1> QED BY <1>2, <1>3, <1>4, <1>5, NothingListed, NoPayoutStep, WritesPayout
          DEF OwedOps, RefundOps, AskOps

LEMMA ReleaseHolds ==
  ASSUME PaymentsInv, NEW h \in All, Paying!Release(h), RestOfPayouts
  PROVE  PaymentsInv' /\ PayoutMove(h)
  <1>1. PICK S, q :
          /\ S \in SUBSET Paying!Rows
          /\ q = [i \in 1..Cardinality(S) |-> Paying!ReleaseStep(SetToSeq(S)[i])]
          /\ At(h, "releaseAll") /\ Continue(h, q)
          /\ UNCHANGED <<status, payment, transfer, books, razorpay, faults>>
    BY PayoutCalls, SameSets DEF Paying!Release, Paying!Each
  <1>2. todo[h] # <<>> /\ Arg(h).op = "releaseAll"
    BY <1>1 DEF At, Arg
  <1>3. Arg(h) \in Steps /\ Fits(h, Arg(h)) /\ CallsFit
    BY <1>2, NextStep DEF PaymentsInv, CallsFit
  <1>4. MayClose(h) /\ status = "COMPLETED"
    BY <1>2, <1>3, HeadMayClose DEF SettleOps
  <1>5. q \in Seq(LaterRows(h)')
    BY <1>1, <1>3, <1>4, ReleasesRows
  <1>6. q \in ListsOf(FitSteps(h)', LaterSteps(h)') /\ Plain(q) /\ PayoutSteps(h, q)
    BY <1>5, LaterRowsListed
  <1> QED BY <1>1, <1>2, <1>6, ReadsPayout DEF OwedOps, RefundOps, AskOps

LEMMA UnholdHolds ==
  ASSUME PaymentsInv, NEW h \in All, Paying!Unhold(h), RestOfPayouts
  PROVE  PaymentsInv' /\ PayoutMove(h)
  <1>1. PICK t, row : t = Arg(h).id /\ row = [transfer[t] EXCEPT !.onHold = FALSE]
    OBVIOUS
  <1>2. /\ At(h, "release") /\ Continue(h, <<>>) /\ transfer' = [transfer EXCEPT ![t] = row]
        /\ UNCHANGED <<status, payment, razorpay, books, faults>>
    BY <1>1, PayoutCalls DEF Paying!Unhold
  <1>3. todo[h] # <<>> /\ Arg(h).op = "release"
    BY <1>2 DEF At, Arg
  <1>4. /\ t \in TransferIds /\ transfer[t] # Paying!NoTransfer /\ transfer[t] \in TransferRows
        /\ status = "COMPLETED"
    BY <1>1, <1>3, HeadRow DEF RowOps, ReverseOps
  <1>5. /\ row \in TransferRows /\ row.amount = transfer[t].amount
        /\ row.fromDeposit = transfer[t].fromDeposit
    BY <1>1, <1>4 DEF TransferRows
  <1> QED BY <1>2, <1>3, <1>4, <1>5, NothingListed, NoPayoutStep, WritesPayout
          DEF OwedOps, RefundOps, AskOps

LEMMA SaveReleaseHolds ==
  ASSUME PaymentsInv, NEW h \in All, Paying!SaveRelease(h), RestOfPayouts
  PROVE  PaymentsInv' /\ PayoutMove(h)
  <1>1. PICK t, row : t = Arg(h).id /\ row = [transfer[t] EXCEPT !.status = "RELEASED"]
    OBVIOUS
  <1>2. /\ At(h, "saveRelease") /\ Continue(h, <<>>)
        /\ transfer' = [transfer EXCEPT ![t] = row] \/ UNCHANGED transfer
        /\ UNCHANGED <<status, payment, razorpay, books, faults>>
    BY <1>1, PayoutCalls DEF Paying!SaveRelease
  <1>3. todo[h] # <<>> /\ Arg(h).op = "saveRelease"
    BY <1>2 DEF At, Arg
  <1>4. t \in TransferIds /\ transfer[t] # Paying!NoTransfer /\ transfer[t] \in TransferRows
    BY <1>1, <1>3, HeadRow DEF RowOps, ReverseOps
  <1>5. /\ row \in TransferRows /\ row.amount = transfer[t].amount
        /\ row.fromDeposit = transfer[t].fromDeposit /\ row.onHold = transfer[t].onHold
    BY <1>1, <1>4 DEF TransferRows
  <1>6. CASE UNCHANGED transfer
    BY <1>2, <1>3, <1>6, NothingListed, NoPayoutStep, ReadsPayout DEF OwedOps, RefundOps, AskOps
  <1>7. CASE transfer' = [transfer EXCEPT ![t] = row]
    BY <1>2, <1>3, <1>4, <1>5, <1>7, NothingListed, NoPayoutStep, WritesPayout
       DEF OwedOps, RefundOps, AskOps
  <1> QED BY <1>2, <1>6, <1>7

LEMMA SendKeptHolds ==
  ASSUME PaymentsInv, NEW h \in All, Paying!SendKept(h), RestOfPayouts
  PROVE  PaymentsInv' /\ PayoutMove(h)
  <1>1. PICK s : s = [op |-> "createKept", amount |-> Arg(h).amount]
    OBVIOUS
  <1>2. PICK S, q :
          /\ S \in SUBSET Paying!Rows
          /\ q = [i \in 1..Cardinality(S) |-> [op |-> "send", id |-> SetToSeq(S)[i]]]
          /\ At(h, "sendKept")
          /\ Continue(h, q) \/ Continue(h, <<s>>) \/ Continue(h, <<>>)
          /\ UNCHANGED <<status, payment, transfer, books, razorpay, faults>>
    <2>1. PICK old, S : /\ old = {t \in Paying!Rows : transfer[t].fromDeposit}
                        /\ S = {t \in old : transfer[t].status = "AWAITING_ACCOUNT"}
      OBVIOUS
    <2>2. PICK q : q = [i \in 1..Cardinality(S) |-> [op |-> "send", id |-> SetToSeq(S)[i]]]
      OBVIOUS
    <2>3. Paying!Each(S, LAMBDA t : [op |-> "send", id |-> t]) = q
      BY <2>2, SameSets DEF Paying!Each
    <2>4. At(h, "sendKept") /\ UNCHANGED <<status, payment, transfer, books, razorpay, faults>>
      BY PayoutCalls DEF Paying!SendKept
    <2>5. Paying!Return(h) \/ Paying!Continue(h, <<[op |-> "createKept", amount |-> Paying!Arg(h).amount]>>)
          \/ Paying!Continue(h, Paying!Each(S, LAMBDA t : [op |-> "send", id |-> t]))
      BY <2>1 DEF Paying!SendKept
    <2>6. Continue(h, q) \/ Continue(h, <<s>>) \/ Continue(h, <<>>)
      BY <1>1, <2>3, <2>5, PayoutCalls
    <2>7. S \in SUBSET Paying!Rows
      BY <2>1
    <2> QED BY <2>2, <2>4, <2>6, <2>7
  <1>3. todo[h] # <<>> /\ Arg(h).op = "sendKept"
    BY <1>2 DEF At, Arg
  <1>4. Arg(h) \in Steps /\ Fits(h, Arg(h)) /\ CallsFit
    BY <1>3, NextStep DEF PaymentsInv, CallsFit
  <1>5. MayClose(h) /\ status = "COMPLETED" /\ Arg(h).amount \in Int
    BY <1>3, <1>4, HeadMayClose, TransferForms DEF SettleOps
  <1>6. s \in Steps /\ s.op = "createKept"
    BY <1>1, <1>5 DEF Steps, TransferSteps
  <1>7. s \in FitSteps(h)'
    BY <1>2, <1>5, <1>6, OwingFitsNext
  <1>8. <<s>> \in ListsOf(FitSteps(h)', LaterSteps(h)') /\ Plain(<<s>>) /\ PayoutSteps(h, <<s>>)
    BY <1>6, <1>7, Listed, OnePayoutStep DEF OwedOps
  <1>9. q \in ListsOf(FitSteps(h)', LaterSteps(h)') /\ Plain(q) /\ PayoutSteps(h, q)
    BY <1>2, <1>4, SendsRows, LaterRowsListed
  <1>10. Arg(h).op \notin OwedOps \cup RefundOps \cup AskOps
    BY <1>3 DEF OwedOps, RefundOps, AskOps
  <1>11. CASE Continue(h, q)
    BY <1>2, <1>3, <1>9, <1>10, <1>11, ReadsPayout
  <1>12. CASE Continue(h, <<s>>)
    BY <1>2, <1>3, <1>8, <1>10, <1>12, ReadsPayout
  <1>13. CASE Continue(h, <<>>)
    BY <1>2, <1>3, <1>10, <1>13, NothingListed, NoPayoutStep, ReadsPayout
  <1> QED BY <1>2, <1>11, <1>12, <1>13

LEMMA CreateKeptHolds ==
  ASSUME PaymentsInv, NEW h \in All, Paying!CreateKept(h), RestOfPayouts
  PROVE  PaymentsInv' /\ PayoutMove(h)
  <1>1. PICK n : n = Arg(h).amount
    OBVIOUS
  <1>2. /\ At(h, "createKept") /\ UNCHANGED <<status, payment, books, razorpay, faults>>
        /\ Paying!CreateAndSend(h, n, FALSE, TRUE) \/ (Continue(h, <<>>) /\ UNCHANGED transfer)
    BY <1>1, PayoutCalls DEF Paying!CreateKept
  <1>3. todo[h] # <<>> /\ Arg(h).op = "createKept"
    BY <1>2 DEF At, Arg
  <1>4. n \in Int
    BY <1>1, <1>3, NextStep, TransferForms DEF PaymentsInv, CallsFit
  <1>5. Arg(h).op \notin OwedOps \cup RefundOps \cup AskOps
    BY <1>3 DEF OwedOps, RefundOps, AskOps
  <1>6. CASE Paying!CreateAndSend(h, n, FALSE, TRUE)
    BY <1>2, <1>3, <1>4, <1>5, <1>6, MakesPayout
  <1>7. CASE Continue(h, <<>>) /\ UNCHANGED transfer
    BY <1>2, <1>3, <1>5, <1>7, NothingListed, NoPayoutStep, ReadsPayout
  <1> QED BY <1>2, <1>6, <1>7

LEMMA RetryTransfersHolds ==
  ASSUME PaymentsInv, NEW h \in All, Paying!RetryFailed(h), RestOfPayouts
  PROVE  PaymentsInv' /\ PayoutMove(h)
  <1>1. PICK S, U : S = {t \in Paying!Rows : Paying!Retryable(t)} /\ U = Paying!Stuck
    OBVIOUS
  <1>2. S \in SUBSET Paying!Rows /\ U \in SUBSET Paying!Rows
    BY <1>1 DEF Paying!Stuck
  <1>3. PICK q, u : /\ q = [i \in 1..Cardinality(S) |-> [op |-> "send", id |-> SetToSeq(S)[i]]]
                    /\ u = [i \in 1..Cardinality(U) |-> Paying!ReverseStep(SetToSeq(U)[i])]
    OBVIOUS
  <1>4. /\ At(h, "retryTransfers") /\ Continue(h, q \o u)
        /\ UNCHANGED <<status, payment, transfer, books, razorpay, faults>>
    <2>1. Paying!Each(S, LAMBDA t : [op |-> "send", id |-> t]) = q
      BY <1>3, SameSets DEF Paying!Each
    <2>2. Paying!Each(Paying!Stuck, Paying!ReverseStep) = u
      BY <1>1, <1>3, SameSets DEF Paying!Each
    <2>3. At(h, "retryTransfers") /\ UNCHANGED <<status, payment, transfer, books, razorpay, faults>>
      BY PayoutCalls DEF Paying!RetryFailed
    <2>4. Paying!Continue(h, Paying!Each(S, LAMBDA t : [op |-> "send", id |-> t])
                               \o Paying!Each(Paying!Stuck, Paying!ReverseStep))
      BY <1>1 DEF Paying!RetryFailed
    <2> QED BY <2>1, <2>2, <2>3, <2>4, PayoutCalls
  <1>5. todo[h] # <<>> /\ Arg(h).op = "retryTransfers"
    BY <1>4 DEF At, Arg
  <1>6. Arg(h) \in Steps /\ Fits(h, Arg(h)) /\ CallsFit
    BY <1>5, NextStep DEF PaymentsInv, CallsFit
  <1>7. MayClose(h)
    BY <1>5, <1>6, HeadMayClose DEF SweepOps
  <1>8. PICK R : R = LaterRows(h)'
    OBVIOUS
  <1>9. q \in Seq(R) /\ u \in Seq(R)
    BY <1>2, <1>3, <1>4, <1>6, <1>7, <1>8, SendsRows, ReversesRows
  <1>10. q \o u \in Seq(R)
    BY <1>9
  <1>11. q \o u \in ListsOf(FitSteps(h)', LaterSteps(h)') /\ Plain(q \o u) /\ PayoutSteps(h, q \o u)
    BY <1>8, <1>10, LaterRowsListed
  <1> QED BY <1>4, <1>5, <1>11, ReadsPayout DEF OwedOps, RefundOps, AskOps

LEMMA PayoutHolds ==
  ASSUME PaymentsInv, NEW h \in All, PayoutsPart(h)
  PROVE  PaymentsInv' /\ PayoutMove(h)
  <1>1. RestOfPayouts /\ (Paying!PayoutStep(h) \/ Paying!RetryFailed(h))
    BY DEF PayoutsPart, RestOfPayouts
  <1>2. CASE Paying!RetryFailed(h)
    BY <1>1, <1>2, RetryTransfersHolds
  <1>3. CASE Paying!PayoutStep(h)
    <2>1. \/ Paying!Send(h) \/ Paying!Wait(h) \/ Paying!Claim(h) \/ Paying!Created(h)
          \/ Paying!RefusedTransfer(h) \/ Paying!Fail(h) \/ Paying!Save(h)
          \/ Paying!OnConfirmed(h) \/ Paying!OweRent(h) \/ Paying!OnCancelled(h)
          \/ Paying!KeepRent(h) \/ Paying!Drop(h) \/ Paying!TakeBack(h) \/ Paying!SaveReversal(h)
          \/ Paying!Release(h) \/ Paying!Unhold(h) \/ Paying!ReleaseOne(h)
          \/ Paying!SaveRelease(h) \/ Paying!SendKept(h) \/ Paying!CreateKept(h)
      BY <1>3 DEF Paying!PayoutStep
    <2> QED BY <1>1, <2>1, SendHolds, WaitHolds, ClaimTransferHolds, CreatedHolds,
               RefusedTransferHolds, FailTransferHolds, SaveTransferHolds, OnConfirmedHolds,
               OweRentHolds, OnCancelledHolds, KeepRentHolds, DropHolds, TakeBackHolds,
               SaveReversalHolds, ReleaseHolds, UnholdHolds, ReleaseOneHolds, SaveReleaseHolds,
               SendKeptHolds, CreateKeptHolds
  <1> QED BY <1>1, <1>2, <1>3

----------------------------------------------------------------------------
(* The steps of Payments' own calls                                        *)

LEMMA OtherFitsNext ==
  ASSUME NEW h, NEW s \in Steps, s.op \in OpsOf(h), s.op \notin RefundOps \cup RowOps \cup AskOps,
         s.op \in {"confirm", "findRelease", "releaseCredit"} => s.order \in Captured',
         s.op \in {"refundCredit", "postCredit"} => CashOf(s.amounts) = 0,
         s.op \in CancelOps => status' = "CANCELLED", s.op \in SettleOps => status' = "COMPLETED"
  PROVE  s \in FitSteps(h)' /\ (s.op \in LaterOps => s \in LaterSteps(h)')
  <1>1. Fits(h, s)'
    BY DEF Fits
  <1> QED BY <1>1 DEF FitSteps, LaterSteps

LEMMA PairListed ==
  ASSUME NEW h, NEW s \in FitSteps(h)', NEW u \in LaterSteps(h)'
  PROVE  /\ <<s, u>> \in ListsOf(FitSteps(h)', LaterSteps(h)')
         /\ s.op \notin OwedOps \cup {"insertPayment"} => Plain(<<s, u>>)
  <1>1. PICK F, L : F = FitSteps(h)' /\ L = LaterSteps(h)'
    OBVIOUS
  <1>2. L \subseteq F
    BY <1>1 DEF LaterSteps
  <1>3. <<s, u>> \in ListsOf(F, L)
    BY <1>1, <1>2, ListOfTwo
  <1>4. Head(<<s, u>>) = s
    OBVIOUS
  <1> QED BY <1>1, <1>3, <1>4 DEF Plain

LEMMA ReadsPayment ==
  ASSUME PaymentsInv, NEW h \in All, UNCHANGED <<bookingVars, moneyVars, checkouts>>,
         webhooks' \in [raised : SUBSET Events, seen : SUBSET Events, answered : SUBSET Events],
         UNCHANGED faults, todo[h] # <<>>, Arg(h).op \notin OwedOps,
         NEW steps \in ListsOf(FitSteps(h)', LaterSteps(h)'), Plain(steps), Continue(h, steps)
  PROVE  PaymentsInv' /\ Goes(h, steps)
  <1>1. CallsFit
    BY DEF PaymentsInv
  <1>2. Unmoved
    BY <1>1 DEF Unmoved, bookingVars, bookingRow, moneyVars, CallsFit, BookingTypes
  <1>3. RowsStand /\ SumsStay /\ books'.GATEWAY = books.GATEWAY
    BY <1>1, <1>2, UnmovedStands
  <1> QED BY <1>3, OnHolds

LEMMA HeadPayment ==
  ASSUME PaymentsInv, NEW h \in All, todo[h] # <<>>
  PROVE  /\ Arg(h) \in Steps /\ Fits(h, Arg(h))
         /\ Arg(h).op \in PayOps => ~MayClose(h)
         /\ Arg(h).op \in CancelOps => MayClose(h) /\ status = "CANCELLED"
         /\ Arg(h).op \in SettleOps => MayClose(h) /\ status = "COMPLETED"
         /\ Arg(h).op \in SweepOps => h \in Workers
  <1>1. PICK s : s = Arg(h)
    OBVIOUS
  <1>2. s \in Steps /\ Fits(h, s)
    BY <1>1, NextStep DEF PaymentsInv, CallsFit
  <1>3. s.op \in SweepOps => h \in Workers
    BY <1>2 DEF Fits, OpsOf, AskOps, RefundOps, SendOps, PayOps, CancelOps, ReverseOps,
         SettleOps, SweepOps
  <1> QED BY <1>1, <1>2, <1>3, HeadMayClose, HeadPays

LEMMA SameEvents ==
  ASSUME PaymentsInv, UNCHANGED webhooks
  PROVE  webhooks' \in [raised : SUBSET Events, seen : SUBSET Events, answered : SUBSET Events]
  BY DEF PaymentsInv, CallsFit, OtherTypes

LEMMA CaughtHolds ==
  ASSUME PaymentsInv, NEW h \in All, Caught(h), UNCHANGED <<bookingVars, moneyVars, gatewayVars, faults>>
  PROVE  PaymentsInv' /\ todo[h] # <<>> /\ Goes(h, <<>>)
  <1>1. todo[h] # <<>> /\ Arg(h).op = "catch" /\ Continue(h, <<>>)
    BY DEF Caught, Return, At, Arg
  <1> QED BY <1>1, SameEvents, NothingListed, ReadsPayment DEF OwedOps, gatewayVars

LEMMA ReceiveHolds ==
  ASSUME PaymentsInv, NEW h \in All, Receive(h)
  PROVE  /\ PaymentsInv' /\ todo[h] # <<>> /\ UNCHANGED <<bookingVars, moneyVars, checkouts, faults>>
         /\ \/ Goes(h, <<>>)
            \/ \E a, b : /\ a.op \in {"capture", "markFailed"} /\ b.op = "answer"
                         /\ Goes(h, <<a, b>>)
  <1>1. PICK e, s, u : e = Arg(h).event /\ s = Applying(e) /\ u = [op |-> "answer", event |-> e]
    OBVIOUS
  <1>2. /\ At(h, "receive") /\ UNCHANGED <<bookingVars, moneyVars, checkouts, faults>>
        /\ \/ webhooks' = [webhooks EXCEPT !.answered = @ \cup {e}] /\ Continue(h, <<>>)
           \/ webhooks' = [webhooks EXCEPT !.seen = @ \cup {e}] /\ Continue(h, <<s, u>>)
    BY <1>1 DEF Receive, Return
  <1>3. todo[h] # <<>> /\ Arg(h).op = "receive"
    BY <1>2 DEF At, Arg
  <1>4. e \in Events /\ ~MayClose(h)
    BY <1>1, <1>3, HeadPayment, PaymentForms DEF PayOps
  <1>5. webhooks' \in [raised : SUBSET Events, seen : SUBSET Events, answered : SUBSET Events]
    BY <1>2, <1>4 DEF PaymentsInv, CallsFit, OtherTypes
  <1>6. e[1] \in {"payment.captured", "payment.failed"} /\ e[2] \in Orders
    BY <1>4 DEF Events
  <1>7. s \in Steps /\ s.op \in {"capture", "markFailed"} /\ u \in Steps /\ u.op = "answer"
    BY <1>1, <1>4, <1>6 DEF Applying, Steps, PaymentSteps
  <1>8. s \in FitSteps(h)' /\ u \in LaterSteps(h)'
    BY <1>4, <1>7, OtherFitsNext DEF OpsOf, PayOps, RefundOps, RowOps, SendOps, ReverseOps, AskOps,
       CancelOps, SettleOps, LaterOps
  <1>9. <<s, u>> \in ListsOf(FitSteps(h)', LaterSteps(h)') /\ Plain(<<s, u>>)
    BY <1>7, <1>8, PairListed DEF OwedOps
  <1>10. CASE Continue(h, <<>>)
    BY <1>2, <1>3, <1>5, <1>10, NothingListed, ReadsPayment DEF OwedOps
  <1>11. CASE Continue(h, <<s, u>>)
    <2>1. PaymentsInv' /\ Goes(h, <<s, u>>)
      BY <1>2, <1>3, <1>5, <1>9, <1>11, ReadsPayment DEF OwedOps
    <2>2. \E a, b : a.op \in {"capture", "markFailed"} /\ b.op = "answer" /\ Goes(h, <<a, b>>)
      BY ONLY <1>7, <2>1, Zenon
    <2> QED BY <1>2, <1>3, <2>1, <2>2
  <1> QED BY <1>2, <1>10, <1>11

LEMMA AnswerHolds ==
  ASSUME PaymentsInv, NEW h \in All, Answer(h)
  PROVE  PaymentsInv' /\ todo[h] # <<>> /\ Goes(h, <<>>)
  <1>1. PICK e : e = Arg(h).event
    OBVIOUS
  <1>2. /\ At(h, "answer") /\ UNCHANGED <<bookingVars, moneyVars, checkouts, faults>>
        /\ webhooks' = [webhooks EXCEPT !.answered = @ \cup {e}] /\ Continue(h, <<>>)
    BY <1>1 DEF Answer, Return
  <1>3. todo[h] # <<>> /\ Arg(h).op = "answer"
    BY <1>2 DEF At, Arg
  <1>4. e \in Events
    BY <1>1, <1>3, HeadPayment, PaymentForms
  <1>5. webhooks' \in [raised : SUBSET Events, seen : SUBSET Events, answered : SUBSET Events]
    BY <1>2, <1>4 DEF PaymentsInv, CallsFit, OtherTypes
  <1> QED BY <1>2, <1>3, <1>5, NothingListed, ReadsPayment DEF OwedOps

LEMMA RefundCancelledHolds ==
  ASSUME PaymentsInv, NEW h \in All, RefundCancelled(h)
  PROVE  /\ PaymentsInv' /\ todo[h] # <<>> /\ UNCHANGED <<bookingVars, moneyVars, gatewayVars, faults>>
         /\ \/ Goes(h, <<>>)
            \/ /\ RefundsFor("CANCELLATION") = {}
               /\ \E p \in Orders : Goes(h, <<[op |-> "findRelease", order |-> p]>>)
  <1>1. /\ At(h, "refundCancelled") /\ UNCHANGED <<bookingVars, moneyVars, gatewayVars, faults>>
        /\ \/ Continue(h, <<>>)
           \/ /\ RefundsFor("CANCELLATION") = {}
              /\ \E p \in Unrefunded : Continue(h, <<[op |-> "findRelease", order |-> p]>>)
    BY DEF RefundCancelled, Return, AlreadyRefunded
  <1>2. todo[h] # <<>> /\ Arg(h).op = "refundCancelled"
    BY <1>1 DEF At, Arg
  <1>3. MayClose(h) /\ status = "CANCELLED"
    BY <1>2, HeadPayment DEF CancelOps
  <1>4. webhooks' \in [raised : SUBSET Events, seen : SUBSET Events, answered : SUBSET Events]
        /\ UNCHANGED <<bookingVars, moneyVars, checkouts>>
    BY <1>1, SameEvents DEF gatewayVars
  <1>5. CASE Continue(h, <<>>)
    BY <1>1, <1>2, <1>4, <1>5, NothingListed, ReadsPayment DEF OwedOps
  <1>6. ASSUME RefundsFor("CANCELLATION") = {},
               NEW p \in Unrefunded, Continue(h, <<[op |-> "findRelease", order |-> p]>>)
        PROVE  PaymentsInv' /\ p \in Orders /\ Goes(h, <<[op |-> "findRelease", order |-> p]>>)
    <2>1. PICK s : s = [op |-> "findRelease", order |-> p]
      OBVIOUS
    <2>2. p \in Orders /\ p \in Captured'
      BY <1>1 DEF Unrefunded, Captured, PaymentsIn, moneyVars
    <2>3. s \in Steps /\ s.op = "findRelease" /\ s.order = p
      BY <2>1, <2>2 DEF Steps, PaymentSteps
    <2>4. s \in FitSteps(h)'
      BY <1>1, <1>3, <2>2, <2>3, OtherFitsNext DEF OpsOf, CancelOps, RefundOps, RowOps, SendOps,
         ReverseOps, AskOps, SettleOps, bookingVars, bookingRow
    <2>5. <<s>> \in ListsOf(FitSteps(h)', LaterSteps(h)') /\ Plain(<<s>>)
      BY <2>3, <2>4, Listed DEF OwedOps
    <2>6. PaymentsInv' /\ Goes(h, <<s>>)
      BY <1>1, <1>2, <1>4, <1>6, <2>1, <2>5, ReadsPayment DEF OwedOps
    <2> QED BY <2>1, <2>2, <2>6
  <1> QED BY <1>1, <1>2, <1>5, <1>6

LEMMA FindReleaseHolds ==
  ASSUME PaymentsInv, NEW h \in All, FindRelease(h)
  PROVE  /\ PaymentsInv' /\ todo[h] # <<>> /\ UNCHANGED <<bookingVars, moneyVars, gatewayVars, faults>>
         /\ Goes(h, <<[op |-> "releaseCredit", order |-> Arg(h).order, found |-> credit]>>)
  <1>1. PICK s : s = [op |-> "releaseCredit", order |-> Arg(h).order, found |-> credit]
    OBVIOUS
  <1>2. /\ At(h, "findRelease") /\ UNCHANGED <<bookingVars, moneyVars, gatewayVars, faults>>
        /\ Continue(h, <<s>>)
    BY <1>1 DEF FindRelease
  <1>3. todo[h] # <<>> /\ Arg(h).op = "findRelease"
    BY <1>2 DEF At, Arg
  <1>4. MayClose(h) /\ status = "CANCELLED" /\ Arg(h).order \in Orders /\ Arg(h).order \in Captured
    BY <1>3, HeadPayment, PaymentForms DEF CancelOps, Fits
  <1>5. webhooks' \in [raised : SUBSET Events, seen : SUBSET Events, answered : SUBSET Events]
        /\ UNCHANGED <<bookingVars, moneyVars, checkouts>>
    BY <1>2, SameEvents DEF gatewayVars
  <1>6. credit \in Int
    BY DEF PaymentsInv, CallsFit, BookingTypes
  <1>7. s \in Steps /\ s.op = "releaseCredit" /\ s.order \in Captured'
    BY <1>1, <1>2, <1>4, <1>6 DEF Steps, PaymentSteps, Captured, PaymentsIn, moneyVars
  <1>8. s \in FitSteps(h)'
    BY <1>2, <1>4, <1>7, OtherFitsNext DEF OpsOf, CancelOps, RefundOps, RowOps, SendOps,
       ReverseOps, AskOps, SettleOps, bookingVars, bookingRow
  <1>9. <<s>> \in ListsOf(FitSteps(h)', LaterSteps(h)') /\ Plain(<<s>>)
    BY <1>7, <1>8, Listed DEF OwedOps
  <1>10. PaymentsInv' /\ Goes(h, <<s>>)
    BY <1>2, <1>3, <1>5, <1>9, ReadsPayment DEF OwedOps
  <1> QED BY <1>1, <1>2, <1>3, <1>10

LEMMA PolicyAmounts ==
  ASSUME tier \in Tiers \cup {"NONE"}, NEW given \in Int
  PROVE  /\ Refund(tier, Booking) \in Amounts /\ Refund(tier, Booking).deposit = Booking.deposit
         /\ [Refund(tier, Booking) EXCEPT !.credit = given] \in Amounts
         /\ [Refund(tier, Booking) EXCEPT !.credit = given].deposit = Booking.deposit
         /\ [Refund(tier, Booking) EXCEPT !.credit = given].credit = given
  <1>1. Booking.rent \in Nat /\ Booking.fee \in Nat /\ Booking.deposit \in Nat /\ Booking.credit \in Nat
    BY PaymentsAssumption
  <1>2. (Booking.rent + 1) \div 2 \in Int
    <2>1. PICK n : n = Booking.rent + 1
      OBVIOUS
    <2>2. n \in Int
      BY <1>1, <2>1
    <2>3. n \div 2 \in Int
      BY <2>2
    <2> QED BY <2>1, <2>3
  <1>3. RentBack(tier, Booking.rent) \in Int
    BY <1>1, <1>2 DEF RentBack, Half
  <1>4. FeeBack(tier, Booking.fee) \in Int /\ CreditBack(Booking.credit, RentBack(tier, Booking.rent)) \in Int
    BY <1>1, <1>3 DEF FeeBack, CreditBack
  <1>5. PICK a, b, c, d : /\ a = RentBack(tier, Booking.rent) /\ b = FeeBack(tier, Booking.fee)
                          /\ c = Booking.deposit
                          /\ d = CreditBack(Booking.credit, RentBack(tier, Booking.rent))
    OBVIOUS
  <1>6. a \in Int /\ b \in Int /\ c \in Int /\ d \in Int
    BY <1>1, <1>3, <1>4, <1>5
  <1>7. Refund(tier, Booking) = [rent |-> a, fee |-> b, deposit |-> c, credit |-> d]
    BY <1>5 DEF Refund
  <1>8. PICK x : x = Refund(tier, Booking)
    OBVIOUS
  <1>9. x = [rent |-> a, fee |-> b, deposit |-> c, credit |-> d]
    BY <1>7, <1>8
  <1>10. [x EXCEPT !.credit = given] = [rent |-> a, fee |-> b, deposit |-> c, credit |-> given]
    BY <1>9
  <1> QED BY <1>5, <1>6, <1>8, <1>9, <1>10 DEF Amounts

LEMMA ReleaseCreditHolds ==
  ASSUME PaymentsInv, NEW h \in All, ReleaseCredit(h)
  PROVE  /\ PaymentsInv' /\ todo[h] # <<>>
         /\ UNCHANGED <<status, tier, kept, recent, moneyVars, gatewayVars, faults>>
         /\ \E given \in Int, cash \in Int, amounts \in Amounts : \E u :
              /\ given = IF Arg(h).found # NoRelease THEN Arg(h).found
                         ELSE IF credit = NoRelease /\ Refund(tier, Booking).credit > 0
                         THEN Refund(tier, Booking).credit ELSE 0
              /\ credit' = credit
                   \/ (credit = NoRelease /\ credit' = Refund(tier, Booking).credit)
              /\ amounts = [Refund(tier, Booking) EXCEPT !.credit = given]
              /\ cash = CashOf(amounts)
              /\ u.op = "onCancelled"
              /\ \/ /\ cash = 0 /\ given > 0
                    /\ Goes(h, <<[op |-> "refundCredit", amounts |-> amounts]>>)
                 \/ /\ ~(cash = 0 /\ given > 0)
                    /\ Goes(h, <<Refunding!CreateRefund(Arg(h).order, "CANCELLATION", cash, amounts), u>>)
  <1>1. PICK policy, releases, given, amounts, cash :
          /\ policy = Refund(tier, Booking)
          /\ releases = (Arg(h).found = NoRelease /\ credit = NoRelease /\ policy.credit > 0)
          /\ given = IF Arg(h).found # NoRelease THEN Arg(h).found
                     ELSE IF releases THEN policy.credit ELSE 0
          /\ amounts = [policy EXCEPT !.credit = given]
          /\ cash = CashOf(amounts)
    OBVIOUS
  <1>2. PICK r, s, u : /\ r = [op |-> "refundCredit", amounts |-> amounts]
                       /\ s = Refunding!CreateRefund(Arg(h).order, "CANCELLATION", cash, amounts)
                       /\ u = LenderAfter(amounts)
    OBVIOUS
  <1>3. /\ At(h, "releaseCredit")
        /\ UNCHANGED <<status, tier, kept, recent, moneyVars, gatewayVars, faults>>
        /\ credit' = IF releases THEN given ELSE credit
        /\ IF cash = 0 /\ given > 0 THEN Continue(h, <<r>>) ELSE Continue(h, <<s, u>>)
    BY <1>1, <1>2 DEF ReleaseCredit
  <1>4. todo[h] # <<>> /\ Arg(h).op = "releaseCredit"
    BY <1>3 DEF At, Arg
  <1>5. /\ MayClose(h) /\ status = "CANCELLED" /\ Arg(h).order \in Orders /\ Arg(h).order \in Captured
        /\ Arg(h).found \in Int
    BY <1>4, HeadPayment, PaymentForms DEF CancelOps, Fits
  <1>6. CallsFit /\ tier \in Tiers \cup {"NONE"} /\ credit \in Int
    BY DEF PaymentsInv, CallsFit, BookingTypes
  <1>7. policy \in Amounts /\ policy.credit \in Int
    BY <1>1, <1>6, PolicyAmounts DEF Amounts
  <1>8. given \in Int
    BY <1>1, <1>5, <1>7
  <1>9. amounts \in Amounts /\ amounts.deposit = Booking.deposit /\ amounts.rent \in Int
    BY <1>1, <1>6, <1>8, PolicyAmounts DEF Amounts
  <1>10. cash \in Int
    BY <1>1, <1>9 DEF CashOf, Amounts
  <1>11. RowsStand /\ SumsStay /\ books'.GATEWAY = books.GATEWAY
    <2>1. BookingTypes' /\ BookingStands
      BY <1>3, <1>6, <1>8 DEF CallsFit, BookingTypes, BookingStands
    <2>2. /\ UNCHANGED <<payment, refund, accepted, transfer, razorpay, books>>
          /\ checkouts' \in [created : SUBSET Orders, paid : SUBSET Orders]
          /\ checkouts.created \subseteq checkouts'.created
      BY <1>3, <1>6 DEF moneyVars, gatewayVars, CallsFit, OtherTypes
    <2>3. UNCHANGED webhooks /\ UNCHANGED faults
      BY <1>3 DEF gatewayVars
    <2> QED BY <1>6, <2>1, <2>2, <2>3, SameEvents, NoRows
  <1>12. s \in FitSteps(h)'
    <2>1. /\ s \in [op : AskOps, payment : Orders, kind : Kinds, cash : Int, amounts : Amounts]
          /\ s.payment = Arg(h).order /\ s.kind = "CANCELLATION" /\ s.cash = cash
          /\ s.amounts = amounts /\ s.op = "createRefund"
      BY <1>2, <1>5, <1>9, <1>10 DEF Refunding!CreateRefund, AskOps, Kinds
    <2>2. RefundFits(s)
      BY <1>1, <1>5, <1>9, <2>1 DEF RefundFits
    <2>3. s \in FitSteps(h)
      BY <1>5, <2>1, <2>2, AskFits
    <2> QED BY <1>11, <2>3, StepsStay DEF RowsStand
  <1>13. s.op = "createRefund"
    BY <1>2 DEF Refunding!CreateRefund
  <1>14. u \in Steps /\ u.op = "onCancelled"
    BY <1>2, <1>9 DEF LenderAfter, Steps, TransferSteps
  <1>15. u \in LaterSteps(h)'
    BY <1>3, <1>5, <1>14, OtherFitsNext DEF OpsOf, CancelOps, RefundOps, RowOps, SendOps,
       ReverseOps, AskOps, SettleOps, LaterOps
  <1>16. r \in Steps /\ r.op = "refundCredit" /\ r.amounts = amounts
    BY <1>2, <1>9 DEF Steps, PaymentSteps
  <1>17. Arg(h).op \notin OwedOps
    BY <1>4 DEF OwedOps
  <1>18. /\ credit' = credit \/ (credit = NoRelease /\ credit' = policy.credit)
         /\ given = IF Arg(h).found # NoRelease THEN Arg(h).found
                    ELSE IF credit = NoRelease /\ policy.credit > 0 THEN policy.credit ELSE 0
    BY <1>1, <1>3
  <1>19. CASE cash = 0 /\ given > 0
    <2>1. r \in FitSteps(h)'
      BY <1>1, <1>3, <1>5, <1>16, <1>19, OtherFitsNext DEF OpsOf, CancelOps, RefundOps, RowOps,
         SendOps, ReverseOps, AskOps, SettleOps
    <2>2. <<r>> \in ListsOf(FitSteps(h)', LaterSteps(h)') /\ Plain(<<r>>)
      BY <1>16, <2>1, Listed DEF OwedOps
    <2>3. PaymentsInv' /\ Goes(h, <<r>>)
      BY <1>3, <1>4, <1>11, <1>17, <1>19, <2>2, OnHolds
    <2> QED BY <1>1, <1>2, <1>3, <1>4, <1>8, <1>9, <1>10, <1>14, <1>18, <1>19, <2>3
  <1>20. CASE ~(cash = 0 /\ given > 0)
    <2>1. <<s, u>> \in ListsOf(FitSteps(h)', LaterSteps(h)') /\ Plain(<<s, u>>)
      BY <1>12, <1>13, <1>15, PairListed DEF OwedOps
    <2>2. PaymentsInv' /\ Goes(h, <<s, u>>)
      BY <1>3, <1>4, <1>11, <1>17, <1>20, <2>1, OnHolds
    <2> QED BY <1>1, <1>2, <1>3, <1>4, <1>8, <1>9, <1>10, <1>14, <1>18, <1>20, <2>2
  <1> QED BY <1>19, <1>20

(* An order is created and gets its payment row.                           *)
LEMMA CreateOrderHolds ==
  ASSUME PaymentsInv, NEW h \in All, CreateOrder(h)
  PROVE  /\ PaymentsInv' /\ todo[h] # <<>> /\ Others(h) /\ UNCHANGED <<bookingVars, moneyVars>>
         /\ \/ Dropped(h)
            \/ \E s : s.op = "insertPayment" /\ Goes(h, <<s>>)
  <1>1. /\ At(h, "createOrder") /\ UNCHANGED <<bookingVars, moneyVars, webhooks>>
        /\ \/ \E o \in Orders \ checkouts.created :
                /\ checkouts' = [checkouts EXCEPT !.created = @ \cup {o}]
                /\ Continue(h, <<[op |-> "insertPayment", order |-> o]>>) /\ UNCHANGED faults
           \/ Refused /\ Throw(h) /\ UNCHANGED checkouts
    BY DEF CreateOrder
  <1>2. todo[h] # <<>> /\ Arg(h).op = "createOrder"
    BY <1>1 DEF At, Arg
  <1>3. ~MayClose(h) /\ Arg(h).op \notin OwedOps /\ CallsFit
    BY <1>2, HeadPayment DEF PayOps, OwedOps, PaymentsInv
  <1>4. CASE Refused /\ Throw(h) /\ UNCHANGED checkouts
    <2>1. Unmoved
      BY <1>1, <1>3, <1>4, SameEvents DEF Unmoved, bookingVars, moneyVars, CallsFit, BookingTypes
    <2>2. RowsStand /\ SumsStay /\ books'.GATEWAY = books.GATEWAY
      BY <1>3, <2>1, UnmovedStands
    <2> QED BY <1>1, <1>2, <1>3, <1>4, <2>2, ThrowHolds
  <1>5. ASSUME NEW o \in Orders \ checkouts.created, UNCHANGED faults,
               checkouts' = [checkouts EXCEPT !.created = @ \cup {o}],
               Continue(h, <<[op |-> "insertPayment", order |-> o]>>)
        PROVE  PaymentsInv' /\ Others(h) /\ \E s : s.op = "insertPayment" /\ Goes(h, <<s>>)
    <2>1. PICK s : s = [op |-> "insertPayment", order |-> o]
      OBVIOUS
    <2>2. s \in Steps /\ s.op = "insertPayment" /\ s.order = o
      BY <2>1 DEF Steps, PaymentSteps
    <2>3. s \in FitSteps(h)'
      BY <1>3, <2>2, OtherFitsNext DEF OpsOf, PayOps, RefundOps, RowOps, SendOps, ReverseOps,
         AskOps, CancelOps, SettleOps
    <2>4. <<s>> \in ListsOf(FitSteps(h)', LaterSteps(h)')
      BY <2>3, Listed
    <2>5. /\ checkouts' \in [created : SUBSET Orders, paid : SUBSET Orders]
          /\ checkouts'.created = checkouts.created \cup {o}
      BY <1>3, <1>5 DEF CallsFit, OtherTypes
    <2>6. BookingTypes' /\ BookingStands
      BY <1>1, <1>3 DEF CallsFit, BookingTypes, BookingStands, bookingVars, bookingRow
    <2>7. RowsStand /\ SumsStay /\ books'.GATEWAY = books.GATEWAY
      BY <1>1, <1>3, <1>5, <2>5, <2>6, SameEvents, NoRows DEF moneyVars
    <2>8. Lists /\ Stays
      BY <1>3, <2>7 DEF CallsFit, RowsStand
    <2>9. /\ Lists' /\ Goes(h, <<s>>)
          /\ OwedBy(todo'[h], refund', transfer') = OwedBy(<<s>>, refund', transfer')
          /\ \A p : Inserts(todo'[h], p) => Inserts(<<s>>, p)
      BY <1>2, <1>5, <2>1, <2>4, <2>8, GoesOn
    <2>10. OwedOf(h) = 0 /\ OwedOf(h)' = 0 /\ Others(h)
      <3>1. OwedBy(<<s>>, refund', transfer') = 0
        BY <2>2, OwedByOne DEF OwedFor
      <3>2. OwedOf(h)' = 0
        BY <2>9, <3>1 DEF OwedOf
      <3> QED BY <1>2, <1>3, <2>9, <3>2 DEF OwedOf, OwedBy, OwedFor, OwedOps, Arg, Goes
    <2>11. InBalance'
      <3>1. books.GATEWAY \in Int /\ RowTypes
        BY <1>3 DEF CallsFit, OtherTypes
      <3>2. Refunding!SentCash \in Int /\ TransferredCash \in Int /\ CapturedCash \in Int
        BY <2>8, <3>1, SumsAreInts
      <3>3. Offsets(h, 0, 0, 0, 0)
        BY <2>7, <2>10, <3>1, <3>2 DEF Offsets, SumsStay
      <3> QED BY <2>7, <2>9, <2>10, <3>3, BalanceKept
    <2>12. \A p \in Orders : Inserts(todo'[h], p) => p = o
      BY <2>2, <2>9, OwedByOne DEF Inserts
    <2>13. \A g \in All, p \in Orders : g # h /\ Inserts(todo'[g], p) => p # o /\ Inserts(todo[g], p)
      <3> SUFFICES ASSUME NEW g \in All, NEW p \in Orders, g # h, Inserts(todo'[g], p)
                   PROVE  p # o /\ Inserts(todo[g], p)
        OBVIOUS
      <3>1. Inserts(todo[g], p)
        BY <2>10 DEF Others
      <3>2. p \in checkouts.created
        BY <1>3, <3>1 DEF CallsFit, NewOrders
      <3> QED BY <3>1, <3>2
    <2>14. NewOrders'
      <3>1. \A p \in Orders : payment'[p] # NoPayment => p \in checkouts'.created
        BY <1>1, <1>3, <2>5 DEF moneyVars, CallsFit, NewOrders
      <3>2. ASSUME NEW p \in Orders, NEW g \in All, Inserts(todo'[g], p)
            PROVE  /\ p \in checkouts'.created /\ payment'[p] = NoPayment
                   /\ \A f \in All : Inserts(todo'[f], p) => f = g
        <4>1. CASE p = o
          <5>1. payment[o] = NoPayment
            BY <1>3, <1>5 DEF CallsFit, NewOrders
          <5>2. \A f \in All : Inserts(todo'[f], p) => f = h
            BY <2>13, <4>1
          <5> QED BY <1>1, <2>5, <3>2, <4>1, <5>1, <5>2 DEF moneyVars
        <4>2. CASE p # o
          <5>1. \A f \in All : Inserts(todo'[f], p) => f # h /\ Inserts(todo[f], p)
            BY <2>12, <2>13, <4>2
          <5>2. /\ p \in checkouts.created /\ payment[p] = NoPayment
                /\ \A f \in All : Inserts(todo[f], p) => f = g
            BY <1>3, <3>2, <5>1 DEF CallsFit, NewOrders
          <5> QED BY <1>1, <2>5, <5>1, <5>2 DEF moneyVars
        <4> QED BY <4>1, <4>2
      <3> QED BY <3>1, <3>2 DEF NewOrders
    <2>15. PaymentsInv'
      BY <2>7, <2>9, <2>11, <2>14 DEF PaymentsInv, CallsFit, RowsStand
    <2>16. \E x : x.op = "insertPayment" /\ Goes(h, <<x>>)
      BY ONLY <2>2, <2>9, Zenon
    <2> QED BY <2>10, <2>15, <2>16
  <1> QED BY <1>1, <1>2, <1>4, <1>5

LEMMA InsertPaymentHolds ==
  ASSUME PaymentsInv, NEW h \in All, InsertPayment(h)
  PROVE  /\ PaymentsInv' /\ todo[h] # <<>> /\ Goes(h, <<>>) /\ Captured' = Captured
         /\ UNCHANGED <<bookingVars, refund, accepted, account, transfer, razorpay, books, journal,
                        gatewayVars, faults>>
  <1>1. PICK o, row : o = Arg(h).order /\ row = [status |-> "CREATED", amount |-> CashOf(Booking)]
    OBVIOUS
  <1>2. /\ At(h, "insertPayment") /\ payment' = [payment EXCEPT ![o] = row] /\ Continue(h, <<>>)
        /\ UNCHANGED <<bookingVars, refund, accepted, account, transfer, razorpay, books, journal,
                       gatewayVars, faults>>
    BY <1>1 DEF InsertPayment, Return
  <1>3. todo[h] # <<>> /\ Arg(h).op = "insertPayment" /\ o \in Orders /\ CallsFit
    BY <1>1, <1>2, HeadPayment, PaymentForms DEF At, Arg, PaymentsInv
  <1>4. /\ o \in checkouts.created /\ payment[o] = NoPayment
        /\ \A g \in All : Inserts(todo[g], o) => g = h
    <2>1. Inserts(todo[h], o)
      BY <1>1, <1>3 DEF Inserts, Arg
    <2> QED BY <1>3, <2>1 DEF CallsFit, NewOrders
  <1>5. row \in PaymentRows /\ row.status = "CREATED"
    BY <1>1 DEF PaymentRows
  <1>6. /\ payment' \in [Orders -> PaymentRows \cup {NoPayment}] /\ payment'[o] = row
        /\ \A p \in Orders : p # o => payment'[p] = payment[p]
    BY <1>2, <1>3, <1>5 DEF CallsFit, RowTypes
  <1>7. Captured' = Captured /\ \A p \in Orders : CapturedOf(p)' = CapturedOf(p)
    <2>1. o \notin Captured /\ o \notin Captured'
      BY <1>4, <1>5, <1>6 DEF Captured, PaymentsIn, NoPayment
    <2>2. \A p \in Orders : p # o => (p \in Captured' <=> p \in Captured)
      BY <1>6 DEF Captured, PaymentsIn
    <2>3. Captured' = Captured
      BY <2>1, <2>2 DEF Captured, PaymentsIn
    <2> QED BY <1>6, <2>1, <2>3 DEF CapturedOf
  <1>8. Beside
    BY <1>2, <1>3 DEF Beside, CallsFit, OtherTypes
  <1>9. BookingTypes' /\ OtherTypes' /\ BookingStands /\ SameFaults
    BY <1>3, <1>8, BesideStands
  <1>10. RowTypes'
    BY <1>2, <1>3, <1>6 DEF CallsFit, RowTypes
  <1>11. Stays
    BY <1>2, <1>7, <1>9 DEF Stays, BookingStands
  <1>12. RefundRowsFit'
    <2>1. \A r \in RefundIds : refund'[r] # Refunding!NoRefund => RefundFits(refund[r])'
      <3> SUFFICES ASSUME NEW r \in RefundIds, refund'[r] # Refunding!NoRefund
                   PROVE  RefundFits(refund[r])'
        OBVIOUS
      <3>1. PICK x : x = refund[r]
        OBVIOUS
      <3>2. RefundFits(x)
        BY <1>2, <1>3, <3>1 DEF CallsFit, RefundRowsFit
      <3>3. RefundFits(x)'
        BY <1>11, <3>2, RefundStaysFit
      <3>4. refund'[r] = x
        BY <1>2, <3>1
      <3> QED BY <3>3, <3>4 DEF RefundFits
    <2> QED BY <2>1 DEF RefundRowsFit
  <1>13. /\ Lists' /\ Goes(h, <<>>)
         /\ OwedBy(todo'[h], refund', transfer') = OwedBy(<<>>, refund', transfer')
         /\ \A p : Inserts(todo'[h], p) => Inserts(<<>>, p)
    BY <1>2, <1>3, <1>11, NothingListed, GoesOn DEF CallsFit
  <1>14. Others(h) /\ OwedOf(h)' = 0 /\ OwedOf(h) = 0
    BY <1>3, <1>13, OwedByOne DEF Goes, OwedOf, OwedBy, OwedFor, Arg
  <1>15. InBalance'
    <2>1. books.GATEWAY \in Int /\ RowTypes /\ Lists
      BY <1>3 DEF CallsFit, OtherTypes
    <2>2. Refunding!SentCash \in Int /\ TransferredCash \in Int /\ CapturedCash \in Int
      BY <2>1, SumsAreInts
    <2>3. /\ Refunding!SentCash' = Refunding!SentCash /\ TransferredCash' = TransferredCash
          /\ CapturedCash' = CapturedCash
      <3>1. \A r \in RefundIds : Refunding!SentOf(r)' = Refunding!SentOf(r)
        BY <1>2 DEF Refunding!SentOf
      <3>2. \A t \in TransferIds : TransferredOf(t)' = TransferredOf(t)
        BY <1>2 DEF TransferredOf
      <3> QED BY <1>7, <3>1, <3>2, SentSame, TransferredSame, CapturedSame
    <2>4. Offsets(h, 0, 0, 0, 0)
      BY <1>2, <1>14, <2>1, <2>2, <2>3 DEF Offsets
    <2> QED BY <1>9, <1>10, <1>11, <1>13, <1>14, <2>4, BalanceStays DEF SameFaults
  <1>16. NewOrders'
    <2>1. \A g \in All, p \in Orders : Inserts(todo'[g], p) => p # o /\ Inserts(todo[g], p)
      <3> SUFFICES ASSUME NEW g \in All, NEW p \in Orders, Inserts(todo'[g], p)
                   PROVE  p # o /\ Inserts(todo[g], p)
        OBVIOUS
      <3>1. g # h
        BY <1>13 DEF Inserts
      <3>2. Inserts(todo[g], p)
        BY <1>14, <3>1 DEF Others
      <3> QED BY <1>4, <3>1, <3>2
    <2>2. checkouts' = checkouts
      BY <1>2 DEF gatewayVars
    <2>3. \A p \in Orders : payment'[p] # NoPayment => p \in checkouts'.created
      BY <1>3, <1>4, <1>6, <2>2 DEF CallsFit, NewOrders
    <2>4. ASSUME NEW p \in Orders, NEW g \in All, Inserts(todo'[g], p)
          PROVE  /\ p \in checkouts'.created /\ payment'[p] = NoPayment
                 /\ \A f \in All : Inserts(todo'[f], p) => f = g
      <3>1. p # o /\ Inserts(todo[g], p)
        BY <2>1, <2>4
      <3>2. /\ p \in checkouts.created /\ payment[p] = NoPayment
            /\ \A f \in All : Inserts(todo[f], p) => f = g
        BY <1>3, <3>1 DEF CallsFit, NewOrders
      <3> QED BY <1>6, <2>1, <2>2, <3>1, <3>2
    <2> QED BY <2>3, <2>4 DEF NewOrders
  <1> QED BY <1>2, <1>3, <1>7, <1>9, <1>10, <1>12, <1>13, <1>15, <1>16 DEF PaymentsInv, CallsFit

(* A captured payment confirms the booking, or is refunded.                *)
LEMMA CaptureHolds ==
  ASSUME PaymentsInv, NEW h \in All, Capture(h)
  PROVE  /\ PaymentsInv' /\ todo[h] # <<>> /\ Others(h)
         /\ UNCHANGED <<bookingVars, refund, accepted, account, transfer, razorpay, journal,
                        gatewayVars, faults>>
         /\ \/ Goes(h, <<>>) /\ UNCHANGED <<payment, books>> /\ Captured' = Captured
            \/ \E s, o : /\ s = [op |-> "confirm", order |-> o] /\ Goes(h, <<s>>)
                         /\ o \in Orders \ Captured /\ Captured' = Captured \cup {o}
                         /\ books'.DEPOSIT_HELD = books.DEPOSIT_HELD + Booking.deposit
  <1>1. PICK o, s : o = Arg(h).order /\ s = [op |-> "confirm", order |-> o]
    OBVIOUS
  <1>2. /\ At(h, "capture")
        /\ UNCHANGED <<bookingVars, refund, accepted, account, transfer, razorpay, journal,
                       gatewayVars, faults>>
        /\ \/ /\ Capturable(payment[o])
              /\ payment' = [payment EXCEPT ![o].status = "CAPTURED"]
              /\ books' = Posted(books, CapturePostings(Booking))
              /\ Continue(h, <<s>>)
           \/ Continue(h, <<>>) /\ UNCHANGED <<payment, books>>
    BY <1>1 DEF Capture, Return
  <1>3. todo[h] # <<>> /\ Arg(h).op = "capture" /\ o \in Orders /\ CallsFit /\ ~MayClose(h)
    BY <1>1, <1>2, HeadPayment, PaymentForms DEF At, Arg, PaymentsInv, PayOps
  <1>4. CASE Continue(h, <<>>) /\ UNCHANGED <<payment, books>>
    <2>1. UNCHANGED <<bookingVars, moneyVars, checkouts>> /\ UNCHANGED webhooks
      BY <1>2, <1>4 DEF moneyVars, gatewayVars
    <2>2. PaymentsInv' /\ Goes(h, <<>>)
      BY <1>2, <1>3, <1>4, <2>1, SameEvents, NothingListed, ReadsPayment DEF OwedOps
    <2>3. Captured' = Captured
      BY <1>4 DEF Captured, PaymentsIn
    <2> QED BY <1>2, <1>3, <1>4, <2>2, <2>3 DEF Goes
  <1>5. CASE /\ Capturable(payment[o])
             /\ payment' = [payment EXCEPT ![o].status = "CAPTURED"]
             /\ books' = Posted(books, CapturePostings(Booking))
             /\ Continue(h, <<s>>)
    <2>1. PICK row : row = [payment[o] EXCEPT !.status = "CAPTURED"]
      OBVIOUS
    <2>2. payment[o] \in PaymentRows /\ payment[o] # NoPayment
      BY <1>3, <1>5 DEF CallsFit, RowTypes, Capturable, NoPayment
    <2>3. /\ row \in PaymentRows /\ row.status = "CAPTURED" /\ row.amount = CashOf(Booking)
          /\ payment' = [payment EXCEPT ![o] = row]
      BY <1>5, <2>1, <2>2 DEF PaymentRows
    <2>4. o \notin Captured
      BY <1>5 DEF Captured, PaymentsIn, Capturable
    <2>5. /\ books.GATEWAY \in Int /\ books.DEPOSIT_HELD \in Int
      BY <1>3 DEF CallsFit, OtherTypes
    <2>6. PICK n : n = CashOf(Booking)
      OBVIOUS
    <2>7. /\ n \in Int /\ Booking.deposit \in Int
          /\ books'.GATEWAY = books.GATEWAY - n
          /\ books'.DEPOSIT_HELD = books.DEPOSIT_HELD + Booking.deposit
      BY <1>5, <2>5, <2>6, CaptureMoves, CashIsInt
    <2>8. Beside
      BY <1>2, <2>5, <2>7 DEF Beside
    <2>9. /\ RowsStand
          /\ Refunding!SentCash' = Refunding!SentCash /\ TransferredCash' = TransferredCash
          /\ CapturedCash' = CapturedCash + CapturedOf(o)' - CapturedOf(o)
          /\ payment'[o] = row /\ \A p \in Orders : p # o => payment'[p] = payment[p]
      BY <1>2, <1>3, <2>2, <2>3, <2>4, <2>8, PaymentSet
    <2>10. o \in Captured' /\ Captured' = Captured \cup {o}
      BY <1>3, <2>3, <2>9 DEF Captured, PaymentsIn
    <2>11. CapturedOf(o) = 0 /\ CapturedOf(o)' = n
      BY <2>3, <2>4, <2>6, <2>9, <2>10 DEF CapturedOf
    <2>12. /\ Refunding!SentCash' = Refunding!SentCash + 0
           /\ TransferredCash' = TransferredCash + 0 /\ CapturedCash' = CapturedCash + n
           /\ books'.GATEWAY = books.GATEWAY + (0 - n)
      BY <1>3, <2>5, <2>7, <2>9, <2>11, SumsAreInts DEF CallsFit
    <2>13. s \in Steps /\ s.op = "confirm" /\ s.order = o
      BY <1>1, <1>3 DEF Steps, PaymentSteps
    <2>14. s \in FitSteps(h)'
      BY <1>3, <2>10, <2>13, OtherFitsNext DEF OpsOf, PayOps, RefundOps, RowOps, SendOps, ReverseOps,
         AskOps, CancelOps, SettleOps
    <2>15. <<s>> \in ListsOf(FitSteps(h)', LaterSteps(h)') /\ Head(<<s>>).op # "insertPayment"
      BY <2>13, <2>14, Listed, OwedByOne
    <2>16. OwedBy(<<s>>, refund', transfer') = 0
      BY <2>13, OwedByOne DEF OwedFor
    <2>17. OwedOf(h) = 0
      BY <1>3 DEF OwedOf, OwedBy, OwedFor, Arg
    <2>18. 0 = 0 + 0 + 0 - n - (0 - n) /\ 0 - n \in Int /\ 0 \in Int
      BY <2>7
    <2>19. PaymentsInv' /\ Goes(h, <<s>>)
      BY <1>3, <1>5, <2>7, <2>9, <2>12, <2>15, <2>16, <2>17, <2>18, MoneyHolds,
         ZenonT(60)
    <2>20. \E x, p : /\ x = [op |-> "confirm", order |-> p] /\ Goes(h, <<x>>)
                     /\ p \in Orders \ Captured /\ Captured' = Captured \cup {p}
                     /\ books'.DEPOSIT_HELD = books.DEPOSIT_HELD + Booking.deposit
      BY <1>1, <1>3, <2>4, <2>7, <2>10, <2>19
    <2> QED BY <1>2, <1>3, <2>19, <2>20 DEF Goes
  <1> QED BY <1>2, <1>4, <1>5

LEMMA ConfirmHolds ==
  ASSUME PaymentsInv, NEW h \in All, Confirm(h)
  PROVE  /\ PaymentsInv' /\ todo[h] # <<>> /\ Arg(h).op = "confirm"
         /\ UNCHANGED <<tier, kept, credit, recent, moneyVars, gatewayVars, faults>>
         /\ \/ /\ status = "AWAITING_PAYMENT" /\ status' = "CONFIRMED"
               /\ \E s, u : s.op = "onConfirmed" /\ u.op = "catch" /\ Goes(h, <<s, u>>)
            \/ /\ status # "AWAITING_PAYMENT" /\ status' = status
               /\ \E s \in Asking("LATE_PAYMENT") : /\ s.payment = Arg(h).order
                                                    /\ s.cash = CashOf([Booking EXCEPT !.credit = 0])
                                                    /\ Goes(h, <<s>>)
  <1>1. PICK s, u, x : s = [op |-> "onConfirmed"] /\ u = [op |-> "catch"] /\ x = LateRefund(Arg(h).order)
    OBVIOUS
  <1>2. /\ At(h, "confirm") /\ UNCHANGED <<tier, kept, credit, recent, moneyVars, gatewayVars, faults>>
        /\ \/ status = "AWAITING_PAYMENT" /\ status' = "CONFIRMED" /\ Continue(h, <<s, u>>)
           \/ status # "AWAITING_PAYMENT" /\ status' = status /\ Continue(h, <<x>>)
    BY <1>1 DEF Confirm, Waiting
  <1>3. todo[h] # <<>> /\ Arg(h).op = "confirm" /\ CallsFit /\ ~MayClose(h)
    BY <1>2, HeadPayment DEF At, Arg, PaymentsInv, PayOps
  <1>4. Arg(h).order \in Orders /\ Arg(h).order \in Captured
    BY <1>3, HeadPayment, PaymentForms DEF Fits
  <1>5. RowsStand /\ SumsStay /\ books'.GATEWAY = books.GATEWAY
    <2>1. BookingTypes' /\ BookingStands
      BY <1>2, <1>3 DEF CallsFit, BookingTypes, BookingStands, Statuses
    <2>2. checkouts' \in [created : SUBSET Orders, paid : SUBSET Orders] /\ UNCHANGED webhooks
          /\ checkouts.created \subseteq checkouts'.created
      BY <1>2, <1>3 DEF CallsFit, OtherTypes, gatewayVars
    <2> QED BY <1>2, <1>3, <2>1, <2>2, SameEvents, NoRows DEF moneyVars
  <1>6. Arg(h).op \notin OwedOps
    BY <1>3 DEF OwedOps
  <1>7. CASE status = "AWAITING_PAYMENT" /\ status' = "CONFIRMED" /\ Continue(h, <<s, u>>)
    <2>1. s \in Steps /\ s.op = "onConfirmed" /\ u \in Steps /\ u.op = "catch"
      BY <1>1 DEF Steps, PaymentSteps, PlainOps
    <2>2. s \in FitSteps(h)' /\ u \in LaterSteps(h)'
      BY <1>3, <2>1, OtherFitsNext DEF OpsOf, PayOps, RefundOps, RowOps, SendOps, ReverseOps,
         AskOps, CancelOps, SettleOps, LaterOps
    <2>3. <<s, u>> \in ListsOf(FitSteps(h)', LaterSteps(h)') /\ Plain(<<s, u>>)
      BY <2>1, <2>2, PairListed DEF OwedOps
    <2>4. PaymentsInv' /\ Goes(h, <<s, u>>)
      BY <1>3, <1>5, <1>6, <1>7, <2>3, OnHolds
    <2>5. \E a, b : a.op = "onConfirmed" /\ b.op = "catch" /\ Goes(h, <<a, b>>)
      BY ONLY <2>1, <2>4, Zenon
    <2> QED BY <1>2, <1>3, <1>7, <2>4, <2>5
  <1>8. CASE status # "AWAITING_PAYMENT" /\ status' = status /\ Continue(h, <<x>>)
    <2>1. PICK a : a = [Booking EXCEPT !.credit = 0]
      OBVIOUS
    <2>2. Booking = [rent |-> Booking.rent, fee |-> Booking.fee, deposit |-> Booking.deposit,
                     credit |-> Booking.credit]
          /\ Booking.rent \in Nat /\ Booking.fee \in Nat /\ Booking.deposit \in Nat
      BY PaymentsAssumption
    <2>3. a = [rent |-> Booking.rent, fee |-> Booking.fee, deposit |-> Booking.deposit, credit |-> 0]
      BY <2>1, <2>2
    <2>4. a \in Amounts /\ a.deposit = Booking.deposit /\ CashOf(a) \in Int
      BY <2>2, <2>3 DEF Amounts, CashOf
    <2>5. x = [op |-> "createRefund", payment |-> Arg(h).order, kind |-> "LATE_PAYMENT",
               cash |-> CashOf(a), amounts |-> a]
      BY <1>1, <2>1 DEF LateRefund, Refunding!CreateRefund
    <2>6. /\ x \in [op : AskOps, payment : Orders, kind : Kinds, cash : Int, amounts : Amounts]
          /\ x.payment = Arg(h).order /\ x.kind = "LATE_PAYMENT" /\ x.op = "createRefund"
          /\ x.cash = CashOf(a) /\ x.amounts = a
      BY <1>4, <2>4, <2>5 DEF AskOps, Kinds
    <2>7. RefundFits(x)
      BY <1>4, <2>4, <2>6 DEF RefundFits
    <2>8. x \in FitSteps(h)
      BY <2>6, <2>7, AskFits
    <2>9. x \in FitSteps(h)'
      BY <1>5, <2>8, StepsStay DEF RowsStand
    <2>10. <<x>> \in ListsOf(FitSteps(h)', LaterSteps(h)') /\ Plain(<<x>>)
      BY <2>6, <2>9, Listed DEF OwedOps
    <2>11. PaymentsInv' /\ Goes(h, <<x>>)
      BY <1>3, <1>5, <1>6, <1>8, <2>10, OnHolds
    <2>12. x \in Asking("LATE_PAYMENT")
      BY <2>6 DEF Asking, RefundSteps, AskOps
    <2>13. x.cash = CashOf([Booking EXCEPT !.credit = 0])
      BY <2>1, <2>6
    <2>14. \E y \in Asking("LATE_PAYMENT") : /\ y.payment = Arg(h).order
                                            /\ y.cash = CashOf([Booking EXCEPT !.credit = 0])
                                            /\ Goes(h, <<y>>)
      BY ONLY <2>6, <2>11, <2>12, <2>13, Zenon
    <2> QED BY <1>2, <1>3, <1>8, <2>11, <2>14
  <1> QED BY <1>2, <1>7, <1>8

LEMMA MarkFailedHolds ==
  ASSUME PaymentsInv, NEW h \in All, MarkFailed(h)
  PROVE  /\ PaymentsInv' /\ todo[h] # <<>> /\ Goes(h, <<>>) /\ Captured' = Captured
         /\ UNCHANGED <<bookingVars, refund, accepted, account, transfer, razorpay, books, journal,
                        gatewayVars, faults>>
  <1>1. PICK o : o = Arg(h).order
    OBVIOUS
  <1>2. /\ At(h, "markFailed") /\ Continue(h, <<>>)
        /\ payment' = IF payment[o].status = "CREATED"
                      THEN [payment EXCEPT ![o].status = "FAILED"] ELSE payment
        /\ UNCHANGED <<bookingVars, refund, accepted, account, transfer, razorpay, books, journal,
                       gatewayVars, faults>>
    BY <1>1 DEF MarkFailed, Return
  <1>3. todo[h] # <<>> /\ Arg(h).op = "markFailed" /\ o \in Orders /\ CallsFit
    BY <1>1, <1>2, HeadPayment, PaymentForms DEF At, Arg, PaymentsInv
  <1>4. CASE payment[o].status # "CREATED"
    <2>1. UNCHANGED <<bookingVars, moneyVars, checkouts>> /\ UNCHANGED webhooks
      BY <1>2, <1>4 DEF moneyVars, gatewayVars
    <2>2. PaymentsInv' /\ Goes(h, <<>>)
      BY <1>2, <1>3, <2>1, SameEvents, NothingListed, ReadsPayment DEF OwedOps
    <2>3. Captured' = Captured
      BY <1>2, <1>4 DEF Captured, PaymentsIn
    <2> QED BY <1>2, <1>3, <2>2, <2>3
  <1>5. CASE payment[o].status = "CREATED"
    <2>1. PICK row : row = [payment[o] EXCEPT !.status = "FAILED"]
      OBVIOUS
    <2>2. payment[o] \in PaymentRows /\ payment[o] # NoPayment
      BY <1>3, <1>5 DEF CallsFit, RowTypes, NoPayment
    <2>3. /\ row \in PaymentRows /\ row.status = "FAILED"
          /\ payment' = [payment EXCEPT ![o] = row]
      BY <1>2, <1>5, <2>1, <2>2 DEF PaymentRows
    <2>4. o \notin Captured
      BY <1>5 DEF Captured, PaymentsIn
    <2>5. Beside /\ books'.GATEWAY = books.GATEWAY
      BY <1>2, <1>3 DEF Beside, CallsFit, OtherTypes
    <2>6. /\ RowsStand
          /\ Refunding!SentCash' = Refunding!SentCash /\ TransferredCash' = TransferredCash
          /\ payment'[o] = row /\ \A p \in Orders : p # o => payment'[p] = payment[p]
      BY <1>2, <1>3, <2>2, <2>3, <2>4, <2>5, PaymentSet
    <2>7. o \notin Captured'
      BY <2>3, <2>6 DEF Captured, PaymentsIn
    <2>8. Captured' = Captured
      BY <2>4, <2>6, <2>7 DEF Captured, PaymentsIn
    <2>9. \A p \in Orders : CapturedOf(p)' = CapturedOf(p)
      BY <2>4, <2>6, <2>7, <2>8 DEF CapturedOf
    <2>10. SumsStay
      BY <2>6, <2>9, CapturedSame DEF SumsStay
    <2>11. PaymentsInv' /\ Goes(h, <<>>)
      BY <1>2, <1>3, <2>5, <2>6, <2>10, NothingListed, OnHolds DEF OwedOps
    <2> QED BY <1>2, <1>3, <2>8, <2>11
  <1> QED BY <1>4, <1>5

(* A step that only posts to the books: no account of Razorpay's moves.    *)
LEMMA PostsPayment ==
  ASSUME PaymentsInv, NEW h \in All, todo[h] # <<>>, Arg(h).op \notin OwedOps,
         UNCHANGED <<bookingVars, payment, refund, accepted, account, transfer, razorpay,
                     gatewayVars, faults>>,
         books'.GATEWAY = books.GATEWAY, books'.DEPOSIT_HELD \in Int, Continue(h, <<>>)
  PROVE  PaymentsInv' /\ Goes(h, <<>>) /\ Captured' = Captured
  <1>1. CallsFit
    BY DEF PaymentsInv
  <1>2. Beside
    BY <1>1 DEF Beside, CallsFit, OtherTypes
  <1>3. BookingTypes' /\ OtherTypes' /\ BookingStands /\ SameFaults
    BY <1>1, <1>2, BesideStands
  <1>4. RowTypes' /\ PaymentsStand /\ RefundsStand /\ TransfersStand
    BY <1>1 DEF CallsFit, RowTypes, PaymentsStand, RefundsStand, TransfersStand, Captured, PaymentsIn
  <1>5. RowsStand
    BY <1>1, <1>3, <1>4, StandTogether DEF SameFaults, gatewayVars
  <1>6. SumsStay
    <2>1. \A r \in RefundIds : Refunding!SentOf(r)' = Refunding!SentOf(r)
      BY DEF Refunding!SentOf
    <2>2. \A t \in TransferIds : TransferredOf(t)' = TransferredOf(t)
      BY DEF TransferredOf
    <2>3. \A o \in Orders : CapturedOf(o)' = CapturedOf(o)
      BY DEF CapturedOf, Captured, PaymentsIn
    <2> QED BY <2>1, <2>2, <2>3, SentSame, TransferredSame, CapturedSame DEF SumsStay
  <1>7. Captured' = Captured
    BY DEF Captured, PaymentsIn
  <1> QED BY <1>5, <1>6, <1>7, NothingListed, OnHolds

LEMMA RefundCreditHolds ==
  ASSUME PaymentsInv, NEW h \in All, RefundCredit(h)
  PROVE  /\ PaymentsInv' /\ todo[h] # <<>> /\ UNCHANGED <<bookingVars, moneyVars, gatewayVars, faults>>
         /\ Arg(h).op = "refundCredit"
         /\ \/ Goes(h, <<>>)
            \/ \E s, u : /\ s.op = "postCredit" /\ s.amounts = Arg(h).amounts
                         /\ u.op = "onCancelled" /\ Goes(h, <<s, u>>)
  <1>1. PICK s, u, a : s = [Arg(h) EXCEPT !.op = "postCredit"] /\ u = LenderAfter(a) /\ a = Arg(h).amounts
    OBVIOUS
  <1>2. /\ At(h, "refundCredit") /\ UNCHANGED <<bookingVars, moneyVars, gatewayVars, faults>>
        /\ Continue(h, <<>>) \/ Continue(h, <<s, u>>)
    BY <1>1 DEF RefundCredit, Return
  <1>3. todo[h] # <<>> /\ Arg(h).op = "refundCredit"
    BY <1>2 DEF At, Arg
  <1>4. /\ MayClose(h) /\ status = "CANCELLED" /\ CashOf(a) = 0
        /\ Arg(h) \in [op : {"refundCredit", "postCredit"}, amounts : Amounts]
    BY <1>1, <1>3, HeadPayment, PaymentForms DEF CancelOps, Fits
  <1>5. webhooks' \in [raised : SUBSET Events, seen : SUBSET Events, answered : SUBSET Events]
        /\ UNCHANGED <<bookingVars, moneyVars, checkouts>>
    BY <1>2, SameEvents DEF gatewayVars
  <1>6. s \in [op : {"refundCredit", "postCredit"}, amounts : Amounts]
        /\ s.op = "postCredit" /\ s.amounts = a
    BY <1>1, <1>4
  <1>7. s \in Steps /\ s.op = "postCredit" /\ s.amounts = a
    BY <1>6 DEF Steps, PaymentSteps
  <1>8. u \in Steps /\ u.op = "onCancelled"
    <2>1. a.rent \in Int
      BY <1>1, <1>4 DEF Amounts
    <2> QED BY <1>1, <2>1 DEF LenderAfter, Steps, TransferSteps
  <1>9. s \in FitSteps(h)' /\ u \in LaterSteps(h)'
    BY <1>2, <1>4, <1>7, <1>8, OtherFitsNext DEF OpsOf, CancelOps, RefundOps, RowOps, SendOps,
       ReverseOps, AskOps, SettleOps, LaterOps, bookingVars, bookingRow
  <1>10. <<s, u>> \in ListsOf(FitSteps(h)', LaterSteps(h)') /\ Plain(<<s, u>>)
    BY <1>7, <1>9, PairListed DEF OwedOps
  <1>11. CASE Continue(h, <<>>)
    BY <1>2, <1>3, <1>5, <1>11, NothingListed, ReadsPayment DEF OwedOps
  <1>12. CASE Continue(h, <<s, u>>)
    <2>1. PaymentsInv' /\ Goes(h, <<s, u>>)
      BY <1>2, <1>3, <1>5, <1>10, <1>12, ReadsPayment DEF OwedOps
    <2>2. s.amounts = Arg(h).amounts
      BY <1>1, <1>7
    <2>3. \E x, y : /\ x.op = "postCredit" /\ x.amounts = Arg(h).amounts
                   /\ y.op = "onCancelled" /\ Goes(h, <<x, y>>)
      BY ONLY <1>7, <1>8, <2>1, <2>2, Zenon
    <2> QED BY <1>2, <1>3, <2>1, <2>3
  <1> QED BY <1>2, <1>11, <1>12

LEMMA PostCreditHolds ==
  ASSUME PaymentsInv, NEW h \in All, PostCredit(h)
  PROVE  /\ PaymentsInv' /\ todo[h] # <<>> /\ Goes(h, <<>>) /\ Captured' = Captured
         /\ Arg(h).op = "postCredit" /\ Arg(h).amounts \in Amounts
         /\ CashOf(Arg(h).amounts) = 0
         /\ books'.DEPOSIT_HELD = books.DEPOSIT_HELD - Arg(h).amounts.deposit
         /\ journal' = journal \cup {"REFUND_CREDIT"}
         /\ UNCHANGED <<bookingVars, payment, refund, accepted, account, transfer, razorpay,
                        gatewayVars, faults>>
  <1>1. PICK a : a = Arg(h).amounts
    OBVIOUS
  <1>2. /\ At(h, "postCredit") /\ books' = Posted(books, RefundPostings(a, Booking.rent))
        /\ journal' = journal \cup {"REFUND_CREDIT"} /\ Continue(h, <<>>)
        /\ UNCHANGED <<bookingVars, payment, refund, accepted, account, transfer, razorpay,
                       gatewayVars, faults>>
    BY <1>1 DEF PostCredit, Return
  <1>3. todo[h] # <<>> /\ Arg(h).op = "postCredit"
    BY <1>2 DEF At, Arg
  <1>4. a \in Amounts /\ CashOf(a) = 0
    BY <1>1, <1>3, HeadPayment, PaymentForms DEF Fits
  <1>5. books.GATEWAY \in Int /\ books.DEPOSIT_HELD \in Int /\ a.deposit \in Int
    BY <1>4 DEF PaymentsInv, CallsFit, OtherTypes, Amounts
  <1>6. books'.GATEWAY = books.GATEWAY /\ books'.DEPOSIT_HELD = books.DEPOSIT_HELD - a.deposit
    BY <1>2, <1>4, <1>5, RefundMoves
  <1>7. books'.DEPOSIT_HELD \in Int
    BY <1>5, <1>6
  <1>8. PaymentsInv' /\ Goes(h, <<>>) /\ Captured' = Captured
    BY <1>2, <1>3, <1>6, <1>7, PostsPayment DEF OwedOps
  <1> QED BY <1>1, <1>2, <1>3, <1>4, <1>6, <1>8

LEMMA KeepDepositHolds ==
  ASSUME PaymentsInv, NEW h \in All, KeepDeposit(h)
  PROVE  /\ PaymentsInv' /\ todo[h] # <<>> /\ Goes(h, <<>>) /\ Captured' = Captured
         /\ Arg(h).op = "keepDeposit" /\ status = "COMPLETED" /\ KeptOfDeposit \in Nat
         /\ \/ /\ "DEPOSIT_KEPT" \notin journal /\ journal' = journal \cup {"DEPOSIT_KEPT"}
               /\ books'.DEPOSIT_HELD = books.DEPOSIT_HELD - KeptOfDeposit
            \/ "DEPOSIT_KEPT" \in journal /\ journal' = journal /\ UNCHANGED books
         /\ UNCHANGED <<bookingVars, payment, refund, accepted, account, transfer, razorpay,
                        gatewayVars, faults>>
  <1>1. PICK n : n = KeptOfDeposit
    OBVIOUS
  <1>2. /\ At(h, "keepDeposit") /\ Continue(h, <<>>)
        /\ \/ /\ "DEPOSIT_KEPT" \notin journal /\ journal' = journal \cup {"DEPOSIT_KEPT"}
              /\ books' = Posted(books, DepositKeepPostings(n))
           \/ "DEPOSIT_KEPT" \in journal /\ journal' = journal /\ UNCHANGED books
        /\ UNCHANGED <<bookingVars, payment, refund, accepted, account, transfer, razorpay,
                       gatewayVars, faults>>
    BY <1>1 DEF KeepDeposit, NotYetKept, Return
  <1>3. todo[h] # <<>> /\ Arg(h).op = "keepDeposit"
    BY <1>2 DEF At, Arg
  <1>4. status = "COMPLETED" /\ n \in Nat
    <2>1. kept \in Nat /\ Booking.deposit \in Nat
      BY CashIsInt DEF PaymentsInv, CallsFit, BookingTypes
    <2> QED BY <1>1, <1>3, <2>1, HeadPayment DEF KeptOfDeposit, SettleOps
  <1>5. books.GATEWAY \in Int /\ books.DEPOSIT_HELD \in Int /\ n \in Int
    BY <1>4 DEF PaymentsInv, CallsFit, OtherTypes
  <1>6. /\ Posted(books, DepositKeepPostings(n)).GATEWAY = books.GATEWAY
        /\ Posted(books, DepositKeepPostings(n)).DEPOSIT_HELD = books.DEPOSIT_HELD - n
    BY <1>5, MovesBetween
  <1>7. books'.GATEWAY = books.GATEWAY /\ books'.DEPOSIT_HELD \in Int
    BY <1>2, <1>5, <1>6
  <1>8. PaymentsInv' /\ Goes(h, <<>>) /\ Captured' = Captured
    BY <1>2, <1>3, <1>7, PostsPayment DEF OwedOps
  <1> QED BY <1>1, <1>2, <1>3, <1>4, <1>6, <1>8

(* A completed booking is settled.                                         *)
LEMMA SettleLists ==
  ASSUME NEW h, NEW k \in FitSteps(h)', NEW r \in LaterSteps(h)', NEW s \in LaterSteps(h)',
         NEW d \in LaterSteps(h)', k.op \notin OwedOps \cup {"insertPayment"}
  PROVE  /\ <<k, r, s, d>> \in ListsOf(FitSteps(h)', LaterSteps(h)') /\ Plain(<<k, r, s, d>>)
         /\ <<k, r, s>> \in ListsOf(FitSteps(h)', LaterSteps(h)') /\ Plain(<<k, r, s>>)
  <1>1. PICK F, L : F = FitSteps(h)' /\ L = LaterSteps(h)'
    OBVIOUS
  <1>2. L \subseteq F
    BY <1>1 DEF LaterSteps
  <1>3. PICK q, p : q = <<k, r, s, d>> /\ p = <<k, r, s>>
    OBVIOUS
  <1>4. q \in Seq(F) /\ Tail(q) = <<r, s, d>> /\ <<r, s, d>> \in Seq(L) /\ Head(q) = k
    BY <1>1, <1>2, <1>3
  <1>5. p \in Seq(F) /\ Tail(p) = <<r, s>> /\ <<r, s>> \in Seq(L) /\ Head(p) = k
    BY <1>1, <1>2, <1>3
  <1>6. q \in ListsOf(F, L) /\ p \in ListsOf(F, L)
    BY <1>4, <1>5 DEF ListsOf
  <1> QED BY <1>1, <1>3, <1>4, <1>5, <1>6 DEF Plain

SettleParts == {"keepDeposit", "releaseAll", "sendKept"}

(* What settle puts in front: the return of the deposit comes last.        *)
SettleSteps(steps) ==
  \A i \in 1..Len(steps) : \/ steps[i].op \in SettleParts
                           \/ i = Len(steps) /\ steps[i] \in Asking("DEPOSIT_RETURN")
                              /\ RefundsFor("DEPOSIT_RETURN") = {}

LEMMA SettleShapes ==
  ASSUME NEW k, NEW r, NEW s, NEW d, {k.op, r.op, s.op} \subseteq SettleParts
  PROVE  /\ SettleSteps(<<k, r, s>>) /\ SettleSteps(<<r, s>>)
         /\ d \in Asking("DEPOSIT_RETURN") /\ RefundsFor("DEPOSIT_RETURN") = {} =>
              SettleSteps(<<k, r, s, d>>) /\ SettleSteps(<<r, s, d>>)
  <1>1. PICK P, A, none : /\ P = SettleParts /\ A = Asking("DEPOSIT_RETURN")
                          /\ none = (RefundsFor("DEPOSIT_RETURN") = {})
    OBVIOUS
  <1>2. k.op \in P /\ r.op \in P /\ s.op \in P
    BY <1>1
  <1>3. /\ \A i \in 1..3 : <<k, r, s>>[i].op \in P
        /\ \A i \in 1..2 : <<r, s>>[i].op \in P
        /\ \A i \in 1..3 : <<r, s, d>>[i].op \in P \/ i = 3
        /\ \A i \in 1..4 : <<k, r, s, d>>[i].op \in P \/ i = 4
    BY ONLY <1>2
  <1>4. SettleSteps(<<k, r, s>>) /\ SettleSteps(<<r, s>>)
    BY <1>1, <1>3 DEF SettleSteps
  <1>5. ASSUME d \in A, none
        PROVE  SettleSteps(<<k, r, s, d>>) /\ SettleSteps(<<r, s, d>>)
    <2>1. /\ \A i \in 1..3 : <<r, s, d>>[i].op \in P \/ (i = 3 /\ <<r, s, d>>[i] \in A /\ none)
          /\ \A i \in 1..4 : <<k, r, s, d>>[i].op \in P \/ (i = 4 /\ <<k, r, s, d>>[i] \in A /\ none)
      BY ONLY <1>3, <1>5
    <2> QED BY <1>1, <2>1 DEF SettleSteps
  <1> QED BY <1>1, <1>4, <1>5

LEMMA Joined ==
  ASSUME NEW S, NEW p \in Seq(S), NEW q \in Seq(S), NEW t \in Seq(S), Len(t) = Len(p) + Len(q),
         \A i \in 1..Len(p) : t[i] = p[i], \A i \in 1..Len(q) : t[Len(p) + i] = q[i]
  PROVE  p \o q = t
  <1>1. PICK u, m, n : u = p \o q /\ m = Len(p) /\ n = Len(q)
    OBVIOUS
  <1>2. /\ u \in Seq(S) /\ Len(u) = m + n /\ m \in Nat /\ n \in Nat /\ m + n \in Nat
        /\ \A i \in 1..(m + n) : u[i] = IF i <= m THEN p[i] ELSE q[i - m]
    BY <1>1, ConcatProperties
  <1>3. \A i \in 1..(m + n) : u[i] = t[i]
    <2> TAKE i \in 1..(m + n)
    <2>1. CASE i <= m
      BY <1>1, <1>2, <2>1
    <2>2. CASE ~(i <= m)
      <3>1. i - m \in 1..n /\ m + (i - m) = i
        BY <1>2, <2>2
      <3>2. t[m + (i - m)] = q[i - m]
        BY <1>1, <3>1
      <3> QED BY <1>2, <2>2, <3>1, <3>2
    <2> QED BY <2>1, <2>2
  <1>4. u = t
    BY <1>1, <1>2, <1>3, SeqEqual
  <1> QED BY <1>1, <1>4

LEMMA JoinedParts ==
  ASSUME NEW k, NEW r, NEW s, NEW d
  PROVE  /\ <<k>> \o <<r, s>> \o <<>> = <<k, r, s>>
         /\ <<k>> \o <<r, s>> \o <<d>> = <<k, r, s, d>>
         /\ <<>> \o <<r, s>> \o <<d>> = <<r, s, d>>
  <1>1. PICK S : S = {k, r, s, d}
    OBVIOUS
  <1>2. PICK a, b, c, e, f, g :
          a = <<k>> /\ b = <<r, s>> /\ c = <<d>> /\ e = <<k, r, s>> /\ f = <<k, r, s, d>> /\ g = <<r, s, d>>
    OBVIOUS
  <1>3. /\ a \in Seq(S) /\ b \in Seq(S) /\ c \in Seq(S) /\ e \in Seq(S) /\ f \in Seq(S)
        /\ g \in Seq(S) /\ <<>> \in Seq(S)
    BY <1>1, <1>2
  <1>4. /\ Len(a) = 1 /\ Len(b) = 2 /\ Len(c) = 1 /\ Len(e) = 3 /\ Len(f) = 4 /\ Len(g) = 3
        /\ a[1] = k /\ b[1] = r /\ b[2] = s /\ c[1] = d
        /\ e[1] = k /\ e[2] = r /\ e[3] = s
        /\ f[1] = k /\ f[2] = r /\ f[3] = s /\ f[4] = d
        /\ g[1] = r /\ g[2] = s /\ g[3] = d
    BY <1>2
  <1>5. a \o b = e
    <2>1. /\ Len(e) = Len(a) + Len(b)
          /\ \A i \in 1..Len(a) : e[i] = a[i]
          /\ \A i \in 1..Len(b) : e[Len(a) + i] = b[i]
      BY ONLY <1>4
    <2> QED BY <1>3, <2>1, Joined
  <1>6. e \o c = f
    <2>1. /\ Len(f) = Len(e) + Len(c)
          /\ \A i \in 1..Len(e) : f[i] = e[i]
          /\ \A i \in 1..Len(c) : f[Len(e) + i] = c[i]
      BY ONLY <1>4
    <2> QED BY <1>3, <2>1, Joined
  <1>7. b \o c = g
    <2>1. /\ Len(g) = Len(b) + Len(c)
          /\ \A i \in 1..Len(b) : g[i] = b[i]
          /\ \A i \in 1..Len(c) : g[Len(b) + i] = c[i]
      BY ONLY <1>4
    <2> QED BY <1>3, <2>1, Joined
  <1>8. e \o <<>> = e /\ <<>> \o b = b
    BY <1>3
  <1> QED BY ONLY <1>2, <1>5, <1>6, <1>7, <1>8

LEMMA SettleHolds ==
  ASSUME PaymentsInv, NEW h \in All, Settle(h)
  PROVE  /\ PaymentsInv' /\ todo[h] # <<>> /\ Arg(h).op = "settle"
         /\ UNCHANGED <<bookingVars, moneyVars, gatewayVars, faults>>
         /\ \E steps : Goes(h, steps) /\ SettleSteps(steps)
  <1>1. PICK k, r, s : /\ k = [op |-> "keepDeposit"] /\ r = [op |-> "releaseAll"]
                       /\ s = [op |-> "sendKept", amount |-> KeptOfDeposit]
    OBVIOUS
  <1>2. /\ At(h, "settle") /\ UNCHANGED <<bookingVars, moneyVars, gatewayVars, faults>>
        /\ \/ Continue(h, <<>>)
           \/ \E p \in Unrefunded : \E a, b :
                /\ Continue(h, a \o <<r, s>> \o b)
                /\ a = <<k>> \/ a = <<>>
                /\ (DepositOwed /\ b = <<DepositReturn(p)>>) \/ b = <<>>
    <2>1. CASE status # "COMPLETED" \/ Unrefunded = {}
      BY <2>1 DEF Settle, Return
    <2>2. CASE ~(status # "COMPLETED" \/ Unrefunded = {})
      <3>1. PICK p \in Unrefunded :
              Continue(h, (IF KeptOfDeposit > 0 THEN <<k>> ELSE <<>>) \o <<r, s>>
                            \o (IF DepositOwed THEN <<DepositReturn(p)>> ELSE <<>>))
        BY <1>1, <2>2 DEF Settle
      <3>2. PICK a, b : /\ a = IF KeptOfDeposit > 0 THEN <<k>> ELSE <<>>
                        /\ b = IF DepositOwed THEN <<DepositReturn(p)>> ELSE <<>>
        OBVIOUS
      <3>3. Continue(h, a \o <<r, s>> \o b) /\ (a = <<k>> \/ a = <<>>)
            /\ ((DepositOwed /\ b = <<DepositReturn(p)>>) \/ b = <<>>)
        BY <3>1, <3>2
      <3> QED BY <3>3 DEF Settle
    <2> QED BY <2>1, <2>2
  <1>3. todo[h] # <<>> /\ Arg(h).op = "settle"
    BY <1>2 DEF At, Arg
  <1>4. MayClose(h) /\ status = "COMPLETED"
    BY <1>3, HeadPayment DEF SettleOps
  <1>5. KeptOfDeposit \in Nat /\ Booking.deposit \in Nat
    <2>1. kept \in Nat /\ Booking.deposit \in Nat
      BY CashIsInt DEF PaymentsInv, CallsFit, BookingTypes
    <2> QED BY <2>1 DEF KeptOfDeposit
  <1>6. webhooks' \in [raised : SUBSET Events, seen : SUBSET Events, answered : SUBSET Events]
        /\ UNCHANGED <<bookingVars, moneyVars, checkouts>> /\ UNCHANGED faults
        /\ Arg(h).op \notin OwedOps /\ status' = "COMPLETED"
    BY <1>2, <1>3, <1>4, SameEvents DEF gatewayVars, OwedOps, bookingVars, bookingRow
  <1>7. /\ k \in Steps /\ k.op = "keepDeposit" /\ r \in Steps /\ r.op = "releaseAll"
        /\ s \in Steps /\ s.op = "sendKept"
    <2>1. s \in [op : {"sendKept", "createKept"}, amount : Int]
      BY <1>1, <1>5
    <2> QED BY <1>1, <2>1 DEF Steps, PaymentSteps, TransferSteps, PlainOps
  <1>8. k \in FitSteps(h)' /\ r \in LaterSteps(h)' /\ s \in LaterSteps(h)'
    BY <1>4, <1>6, <1>7, OtherFitsNext DEF OpsOf, CancelOps, RefundOps, RowOps, SendOps,
       ReverseOps, AskOps, SettleOps, LaterOps
  <1>9. {k.op, r.op, s.op} \subseteq SettleParts
    BY <1>7 DEF SettleParts
  <1>10. CASE Continue(h, <<>>)
    <2>1. PaymentsInv' /\ Goes(h, <<>>)
      BY <1>3, <1>6, <1>10, NothingListed, ReadsPayment
    <2>2. SettleSteps(<<>>)
      BY DEF SettleSteps
    <2>3. \E steps : Goes(h, steps) /\ SettleSteps(steps)
      BY ONLY <2>1, <2>2, Zenon
    <2> QED BY <1>2, <1>3, <2>1, <2>3
  <1>11. ASSUME NEW q \in ListsOf(FitSteps(h)', LaterSteps(h)'), Plain(q), Continue(h, q),
                SettleSteps(q)
         PROVE  PaymentsInv' /\ \E steps : Goes(h, steps) /\ SettleSteps(steps)
    <2>1. PaymentsInv' /\ Goes(h, q)
      BY <1>3, <1>6, <1>11, ReadsPayment
    <2>2. \E steps : Goes(h, steps) /\ SettleSteps(steps)
      BY ONLY <1>11, <2>1, Zenon
    <2> QED BY <2>1, <2>2
  <1>12. ASSUME NEW p \in Unrefunded, NEW a, NEW b, Continue(h, a \o <<r, s>> \o b),
                a = <<k>> \/ a = <<>>, (DepositOwed /\ b = <<DepositReturn(p)>>) \/ b = <<>>
         PROVE  PaymentsInv' /\ \E steps : Goes(h, steps) /\ SettleSteps(steps)
    <2>1. PICK d : d = DepositReturn(p)
      OBVIOUS
    <2>2. d \in LaterSteps(h)' /\ d \in Asking("DEPOSIT_RETURN")
      <3>1. PICK x : x = [rent |-> 0, fee |-> 0, deposit |-> Booking.deposit - KeptOfDeposit,
                          credit |-> 0]
        OBVIOUS
      <3>2. x \in Amounts /\ CashOf(x) \in Int /\ x.deposit = Booking.deposit - KeptOfDeposit
        BY <1>5, <3>1 DEF Amounts, CashOf
      <3>3. p \in Orders /\ p \in Captured
        BY DEF Unrefunded, Captured, PaymentsIn
      <3>4. d = [op |-> "createRefund", payment |-> p, kind |-> "DEPOSIT_RETURN",
                 cash |-> CashOf(x), amounts |-> x]
        BY <2>1, <3>1 DEF DepositReturn, Refunding!CreateRefund
      <3>5. /\ d \in [op : AskOps, payment : Orders, kind : Kinds, cash : Int, amounts : Amounts]
            /\ d.payment = p /\ d.kind = "DEPOSIT_RETURN" /\ d.op = "createRefund"
            /\ d.cash = CashOf(x) /\ d.amounts = x
        BY <3>2, <3>3, <3>4 DEF AskOps, Kinds
      <3>6. RefundFits(d)
        BY <1>4, <3>2, <3>3, <3>5 DEF RefundFits
      <3>7. d \in LaterSteps(h)
        BY <1>4, <3>5, <3>6, AskFits
      <3>8. Stays
        BY <1>6 DEF Stays, Captured, PaymentsIn, bookingVars, bookingRow, moneyVars
      <3>9. d \in LaterSteps(h)'
        BY <3>7, <3>8, StepsStay
      <3>10. d \in Asking("DEPOSIT_RETURN")
        BY <3>5 DEF Asking, RefundSteps, AskOps
      <3> QED BY <3>9, <3>10
    <2>3. r \in FitSteps(h)'
      BY <1>8 DEF LaterSteps
    <2>4. DepositOwed => RefundsFor("DEPOSIT_RETURN") = {}
      BY DEF DepositOwed
    <2>5. CASE a = <<k>> /\ b = <<>>
      <3>1. a \o <<r, s>> \o b = <<k, r, s>>
        BY <2>5, JoinedParts
      <3>2. PICK q : q = <<k, r, s>>
        OBVIOUS
      <3>3. q \in ListsOf(FitSteps(h)', LaterSteps(h)') /\ Plain(q) /\ SettleSteps(q)
        BY <1>7, <1>8, <1>9, <2>2, <3>2, SettleLists, SettleShapes DEF OwedOps
      <3> QED BY <1>11, <1>12, <3>1, <3>2, <3>3
    <2>6. CASE a = <<>> /\ b = <<>>
      <3>1. a \o <<r, s>> \o b = <<r, s>>
        BY ONLY <2>6
      <3>2. PICK q : q = <<r, s>>
        OBVIOUS
      <3>3. q \in ListsOf(FitSteps(h)', LaterSteps(h)') /\ Plain(q) /\ SettleSteps(q)
        BY <1>7, <1>8, <1>9, <2>3, <3>2, PairListed, SettleShapes DEF OwedOps
      <3> QED BY <1>11, <1>12, <3>1, <3>2, <3>3
    <2>7. CASE a = <<k>> /\ DepositOwed /\ b = <<d>>
      <3>1. a \o <<r, s>> \o b = <<k, r, s, d>>
        BY <2>7, JoinedParts
      <3>2. PICK q : q = <<k, r, s, d>>
        OBVIOUS
      <3>3. q \in ListsOf(FitSteps(h)', LaterSteps(h)') /\ Plain(q) /\ SettleSteps(q)
        BY <1>7, <1>8, <1>9, <2>2, <2>4, <2>7, <3>2, SettleLists, SettleShapes DEF OwedOps
      <3> QED BY <1>11, <1>12, <3>1, <3>2, <3>3
    <2>8. CASE a = <<>> /\ DepositOwed /\ b = <<d>>
      <3>1. a \o <<r, s>> \o b = <<r, s, d>>
        BY <2>8, JoinedParts
      <3>2. PICK q : q = <<r, s, d>>
        OBVIOUS
      <3>3. q \in ListsOf(FitSteps(h)', LaterSteps(h)') /\ Plain(q) /\ SettleSteps(q)
        BY <1>7, <1>8, <1>9, <2>2, <2>3, <2>4, <2>8, <3>2, SettleLists, SettleShapes DEF OwedOps
      <3> QED BY <1>11, <1>12, <3>1, <3>2, <3>3
    <2> QED BY <1>12, <2>1, <2>5, <2>6, <2>7, <2>8
  <1> QED BY <1>2, <1>3, <1>10, <1>12

LEMMA SweepMissedHolds ==
  ASSUME PaymentsInv, NEW h \in All, SweepMissed(h)
  PROVE  /\ PaymentsInv' /\ todo[h] # <<>> /\ Arg(h).op = "sweepMissed" /\ h \in Workers
         /\ UNCHANGED <<bookingVars, moneyVars, gatewayVars, faults>>
         /\ \/ Goes(h, <<>>)
            \/ /\ ClosedForAMinute /\ RefundsFor("CANCELLATION") = {}
               /\ \E s \in Steps : s.op = "refundCancelled" /\ Goes(h, <<s>>)
  <1>1. PICK s : s = [op |-> "refundCancelled"]
    OBVIOUS
  <1>2. /\ At(h, "sweepMissed") /\ UNCHANGED <<bookingVars, moneyVars, gatewayVars, faults>>
        /\ Continue(h, <<>>) \/ (Missed /\ Continue(h, <<s>>))
    BY <1>1 DEF SweepMissed
  <1>3. todo[h] # <<>> /\ Arg(h).op = "sweepMissed"
    BY <1>2 DEF At, Arg
  <1>4. h \in Workers /\ MayClose(h)
    BY <1>3, HeadPayment DEF SweepOps, MayClose
  <1>5. webhooks' \in [raised : SUBSET Events, seen : SUBSET Events, answered : SUBSET Events]
        /\ UNCHANGED <<bookingVars, moneyVars, checkouts>> /\ UNCHANGED faults
        /\ Arg(h).op \notin OwedOps
    BY <1>2, <1>3, SameEvents DEF gatewayVars, OwedOps
  <1>6. CASE Continue(h, <<>>)
    BY <1>2, <1>3, <1>4, <1>5, <1>6, NothingListed, ReadsPayment
  <1>7. CASE Missed /\ Continue(h, <<s>>)
    <2>1. s \in Steps /\ s.op = "refundCancelled"
      BY <1>1 DEF Steps, PaymentSteps, PlainOps
    <2>2. status' = "CANCELLED" /\ ClosedForAMinute /\ RefundsFor("CANCELLATION") = {}
      BY <1>5, <1>7 DEF Missed, bookingVars, bookingRow
    <2>3. s \in FitSteps(h)'
      BY <1>4, <2>1, <2>2, OtherFitsNext DEF OpsOf, CancelOps, RefundOps, RowOps, SendOps,
         ReverseOps, AskOps, SettleOps
    <2>4. <<s>> \in ListsOf(FitSteps(h)', LaterSteps(h)') /\ Plain(<<s>>)
      BY <2>1, <2>3, Listed DEF OwedOps
    <2>5. PaymentsInv' /\ Goes(h, <<s>>)
      BY <1>3, <1>5, <1>7, <2>4, ReadsPayment
    <2>6. \E x \in Steps : x.op = "refundCancelled" /\ Goes(h, <<x>>)
      BY ONLY <2>1, <2>5, Zenon
    <2> QED BY <1>2, <1>3, <1>4, <2>2, <2>5, <2>6
  <1> QED BY <1>2, <1>6, <1>7

LEMMA SweepUnsettledHolds ==
  ASSUME PaymentsInv, NEW h \in All, SweepUnsettled(h)
  PROVE  /\ PaymentsInv' /\ todo[h] # <<>> /\ Arg(h).op = "sweepUnsettled" /\ h \in Workers
         /\ UNCHANGED <<bookingVars, moneyVars, gatewayVars, faults>>
         /\ \/ Goes(h, <<>>)
            \/ /\ ClosedForAMinute
               /\ \E s \in Steps : s.op = "settle" /\ Goes(h, <<s>>)
  <1>1. PICK s : s = [op |-> "settle"]
    OBVIOUS
  <1>2. /\ At(h, "sweepUnsettled") /\ UNCHANGED <<bookingVars, moneyVars, gatewayVars, faults>>
        /\ Continue(h, <<>>) \/ (status = "COMPLETED" /\ ClosedForAMinute /\ Continue(h, <<s>>))
    BY <1>1 DEF SweepUnsettled
  <1>3. todo[h] # <<>> /\ Arg(h).op = "sweepUnsettled"
    BY <1>2 DEF At, Arg
  <1>4. h \in Workers /\ MayClose(h)
    BY <1>3, HeadPayment DEF SweepOps, MayClose
  <1>5. webhooks' \in [raised : SUBSET Events, seen : SUBSET Events, answered : SUBSET Events]
        /\ UNCHANGED <<bookingVars, moneyVars, checkouts>> /\ UNCHANGED faults
        /\ Arg(h).op \notin OwedOps
    BY <1>2, <1>3, SameEvents DEF gatewayVars, OwedOps
  <1>6. CASE Continue(h, <<>>)
    BY <1>2, <1>3, <1>4, <1>5, <1>6, NothingListed, ReadsPayment
  <1>7. CASE status = "COMPLETED" /\ ClosedForAMinute /\ Continue(h, <<s>>)
    <2>1. s \in Steps /\ s.op = "settle"
      BY <1>1 DEF Steps, PaymentSteps, PlainOps
    <2>2. status' = "COMPLETED"
      BY <1>5, <1>7 DEF bookingVars, bookingRow
    <2>3. s \in FitSteps(h)'
      BY <1>4, <2>1, <2>2, OtherFitsNext DEF OpsOf, CancelOps, RefundOps, RowOps, SendOps,
         ReverseOps, AskOps, SettleOps
    <2>4. <<s>> \in ListsOf(FitSteps(h)', LaterSteps(h)') /\ Plain(<<s>>)
      BY <2>1, <2>3, Listed DEF OwedOps
    <2>5. PaymentsInv' /\ Goes(h, <<s>>)
      BY <1>3, <1>5, <1>7, <2>4, ReadsPayment
    <2>6. \E x \in Steps : x.op = "settle" /\ Goes(h, <<x>>)
      BY ONLY <2>1, <2>5, Zenon
    <2> QED BY <1>2, <1>3, <1>4, <1>7, <2>5, <2>6
  <1> QED BY <1>2, <1>6, <1>7

----------------------------------------------------------------------------
(* The calls that start, and what happens outside of them                  *)

LEMMA StartsHolds ==
  ASSUME PaymentsInv, NEW h \in All,
         NEW steps \in ListsOf(FitSteps(h)', LaterSteps(h)'), Plain(steps), Starts(h, steps),
         UNCHANGED <<bookingRow, moneyVars, gatewayVars, faults>>
  PROVE  /\ PaymentsInv' /\ todo[h] = <<>> /\ todo'[h] = steps /\ Others(h)
         /\ recent' = recent \ {h}
  <1>1. CallsFit
    BY DEF PaymentsInv
  <1>2. Unmoved
    BY <1>1, SameEvents DEF Unmoved, moneyVars, gatewayVars, CallsFit, BookingTypes, OtherTypes, Starts
  <1>3. RowsStand /\ SumsStay /\ books'.GATEWAY = books.GATEWAY
    BY <1>1, <1>2, UnmovedStands
  <1> QED BY <1>3, StartHolds DEF Starts

LEMMA NotClosing ==
  ASSUME NEW h \in Requests \ {Closer}
  PROVE  h \in All /\ ~MayClose(h)
  BY HandlersAssumption DEF All, MayClose

LEMMA CheckoutHolds ==
  ASSUME PaymentsInv, NEW h \in All, Checkout(h)
  PROVE  /\ PaymentsInv' /\ todo[h] = <<>> /\ Others(h) /\ recent' = recent \ {h} /\ ~MayClose(h)
         /\ UNCHANGED <<bookingRow, moneyVars, gatewayVars, faults>>
         /\ \E s : s.op = "createOrder" /\ todo'[h] = <<s>>
  <1>1. PICK s : s = [op |-> "createOrder"]
    OBVIOUS
  <1>2. /\ h \in Requests \ {Closer} /\ Starts(h, <<s>>)
        /\ UNCHANGED <<bookingRow, moneyVars, gatewayVars, faults>>
    BY <1>1 DEF Checkout
  <1>3. ~MayClose(h)
    BY <1>2, NotClosing
  <1>4. s \in Steps /\ s.op = "createOrder"
    BY <1>1 DEF Steps, PaymentSteps, PlainOps
  <1>5. s \in FitSteps(h)'
    BY <1>3, <1>4, OtherFitsNext DEF OpsOf, PayOps, RefundOps, RowOps, SendOps, ReverseOps,
       AskOps, CancelOps, SettleOps
  <1>6. <<s>> \in ListsOf(FitSteps(h)', LaterSteps(h)') /\ Plain(<<s>>)
    BY <1>4, <1>5, Listed DEF OwedOps
  <1>7. PaymentsInv' /\ todo[h] = <<>> /\ todo'[h] = <<s>> /\ Others(h) /\ recent' = recent \ {h}
    BY <1>2, <1>6, StartsHolds
  <1>8. \E x : x.op = "createOrder" /\ todo'[h] = <<x>>
    BY ONLY <1>4, <1>7, Zenon
  <1> QED BY <1>2, <1>3, <1>7, <1>8

LEMMA VerifyHolds ==
  ASSUME PaymentsInv, NEW h \in All, NEW o \in Orders, Verify(h, o)
  PROVE  /\ PaymentsInv' /\ todo[h] = <<>> /\ Others(h) /\ recent' = recent \ {h} /\ ~MayClose(h)
         /\ UNCHANGED <<bookingRow, moneyVars, gatewayVars, faults>>
         /\ \E s : s.op = "capture" /\ todo'[h] = <<s>>
  <1>1. PICK s : s = [op |-> "capture", order |-> o]
    OBVIOUS
  <1>2. /\ h \in Requests \ {Closer} /\ Starts(h, <<s>>)
        /\ UNCHANGED <<bookingRow, moneyVars, gatewayVars, faults>>
    BY <1>1 DEF Verify
  <1>3. ~MayClose(h)
    BY <1>2, NotClosing
  <1>4. s \in Steps /\ s.op = "capture"
    BY <1>1 DEF Steps, PaymentSteps
  <1>5. s \in FitSteps(h)'
    BY <1>3, <1>4, OtherFitsNext DEF OpsOf, PayOps, RefundOps, RowOps, SendOps, ReverseOps,
       AskOps, CancelOps, SettleOps
  <1>6. <<s>> \in ListsOf(FitSteps(h)', LaterSteps(h)') /\ Plain(<<s>>)
    BY <1>4, <1>5, Listed DEF OwedOps
  <1>7. PaymentsInv' /\ todo[h] = <<>> /\ todo'[h] = <<s>> /\ Others(h) /\ recent' = recent \ {h}
    BY <1>2, <1>6, StartsHolds
  <1>8. \E x : x.op = "capture" /\ todo'[h] = <<x>>
    BY ONLY <1>4, <1>7, Zenon
  <1> QED BY <1>2, <1>3, <1>7, <1>8

LEMMA WebhookHolds ==
  ASSUME PaymentsInv, NEW h \in All, NEW e \in Events, Webhook(h, e)
  PROVE  /\ PaymentsInv' /\ todo[h] = <<>> /\ Others(h) /\ recent' = recent \ {h} /\ ~MayClose(h)
         /\ UNCHANGED <<bookingRow, moneyVars, gatewayVars, faults>>
         /\ \E s : s.op = "receive" /\ todo'[h] = <<s>>
  <1>1. PICK s : s = [op |-> "receive", event |-> e]
    OBVIOUS
  <1>2. /\ h \in Requests \ {Closer} /\ Starts(h, <<s>>)
        /\ UNCHANGED <<bookingRow, moneyVars, gatewayVars, faults>>
    BY <1>1 DEF Webhook
  <1>3. ~MayClose(h)
    BY <1>2, NotClosing
  <1>4. s \in Steps /\ s.op = "receive"
    BY <1>1 DEF Steps, PaymentSteps
  <1>5. s \in FitSteps(h)'
    BY <1>3, <1>4, OtherFitsNext DEF OpsOf, PayOps, RefundOps, RowOps, SendOps, ReverseOps,
       AskOps, CancelOps, SettleOps
  <1>6. <<s>> \in ListsOf(FitSteps(h)', LaterSteps(h)') /\ Plain(<<s>>)
    BY <1>4, <1>5, Listed DEF OwedOps
  <1>7. PaymentsInv' /\ todo[h] = <<>> /\ todo'[h] = <<s>> /\ Others(h) /\ recent' = recent \ {h}
    BY <1>2, <1>6, StartsHolds
  <1>8. \E x : x.op = "receive" /\ todo'[h] = <<x>>
    BY ONLY <1>4, <1>7, Zenon
  <1> QED BY <1>2, <1>3, <1>7, <1>8

LEMMA GoodwillHolds ==
  ASSUME PaymentsInv, NEW h \in All, NEW p \in Unrefunded, NEW amount \in GoodwillGiven,
         GiveGoodwill(h, p, amount)
  PROVE  /\ PaymentsInv' /\ todo[h] = <<>> /\ Others(h) /\ recent' = recent \ {h} /\ ~MayClose(h)
         /\ UNCHANGED <<bookingRow, moneyVars, gatewayVars, faults>>
         /\ \E s : s.op = "createRefund" /\ s.kind = "MANUAL" /\ todo'[h] = <<s>>
  <1>1. PICK s, a : a = Refunding!NoAmounts /\ s = Refunding!CreateRefund(p, "MANUAL", amount, a)
    OBVIOUS
  <1>2. /\ h \in Requests \ {Closer} /\ Starts(h, <<s>>)
        /\ UNCHANGED <<bookingRow, moneyVars, gatewayVars, faults>>
    BY <1>1 DEF GiveGoodwill
  <1>3. ~MayClose(h)
    BY <1>2, NotClosing
  <1>4. p \in Orders /\ p \in Captured /\ amount \in Int
    BY PaymentsAssumption DEF Unrefunded, Captured, PaymentsIn
  <1>5. a \in Amounts
    BY <1>1 DEF Refunding!NoAmounts, Amounts
  <1>6. /\ s \in [op : AskOps, payment : Orders, kind : Kinds, cash : Int, amounts : Amounts]
        /\ s.payment = p /\ s.kind = "MANUAL" /\ s.op = "createRefund"
    BY <1>1, <1>4, <1>5 DEF Refunding!CreateRefund, AskOps, Kinds
  <1>7. RefundFits(s)
    BY <1>4, <1>6 DEF RefundFits
  <1>8. s \in FitSteps(h)
    BY <1>6, <1>7, AskFits
  <1>9. Stays
    BY <1>2 DEF Stays, Captured, PaymentsIn, bookingRow, moneyVars
  <1>10. s \in FitSteps(h)'
    BY <1>8, <1>9, StepsStay
  <1>11. <<s>> \in ListsOf(FitSteps(h)', LaterSteps(h)') /\ Plain(<<s>>)
    BY <1>6, <1>10, Listed DEF OwedOps
  <1>12. PaymentsInv' /\ todo[h] = <<>> /\ todo'[h] = <<s>> /\ Others(h) /\ recent' = recent \ {h}
    BY <1>2, <1>11, StartsHolds
  <1>13. \E x : x.op = "createRefund" /\ x.kind = "MANUAL" /\ todo'[h] = <<x>>
    BY ONLY <1>6, <1>12, Zenon
  <1> QED BY <1>2, <1>3, <1>12, <1>13

LEMMA SweepHolds ==
  ASSUME PaymentsInv, NEW h \in All, Sweep(h)
  PROVE  /\ PaymentsInv' /\ todo[h] = <<>> /\ Others(h) /\ recent' = recent \ {h} /\ h \in Workers
         /\ UNCHANGED <<bookingRow, moneyVars, gatewayVars, faults>>
         /\ todo'[h] = <<[op |-> "sweepMissed"], [op |-> "sweepUnsettled"],
                         [op |-> "retryRefunds"], [op |-> "retryTransfers"]>>
  <1>1. PICK a, b, c, d : /\ a = [op |-> "sweepMissed"] /\ b = [op |-> "sweepUnsettled"]
                          /\ c = [op |-> "retryRefunds"] /\ d = [op |-> "retryTransfers"]
    OBVIOUS
  <1>2. /\ h \in Workers /\ Starts(h, <<a, b, c, d>>)
        /\ UNCHANGED <<bookingRow, moneyVars, gatewayVars, faults>>
    BY <1>1 DEF Sweep
  <1>3. {a, b, c, d} \subseteq Steps /\ {a.op, b.op, c.op, d.op} \subseteq SweepOps
        /\ a.op = "sweepMissed" /\ {b.op, c.op, d.op} \subseteq LaterOps
    BY <1>1 DEF Steps, PaymentSteps, PlainOps, SweepOps, LaterOps
  <1>4. \A s \in {a, b, c, d} : s \in FitSteps(h)' /\ (s.op \in LaterOps => s \in LaterSteps(h)')
    <2> TAKE s \in {a, b, c, d}
    <2>1. s \in Steps /\ s.op \in SweepOps
      BY <1>3
    <2>2. s.op \in OpsOf(h)
      BY <1>2, <2>1 DEF OpsOf
    <2>3. /\ s.op \notin RefundOps \cup RowOps \cup AskOps \cup CancelOps \cup SettleOps
          /\ s.op \notin {"confirm", "findRelease", "releaseCredit", "refundCredit", "postCredit"}
      BY <2>1 DEF SweepOps, RefundOps, RowOps, SendOps, ReverseOps, AskOps, CancelOps, SettleOps
    <2> QED BY <2>1, <2>2, <2>3, OtherFitsNext
  <1>5. a \in FitSteps(h)' /\ b \in LaterSteps(h)' /\ c \in LaterSteps(h)' /\ d \in LaterSteps(h)'
    BY <1>3, <1>4
  <1>6. <<a, b, c, d>> \in ListsOf(FitSteps(h)', LaterSteps(h)') /\ Plain(<<a, b, c, d>>)
    BY <1>3, <1>5, SettleLists DEF OwedOps
  <1> QED BY <1>1, <1>2, <1>6, StartsHolds

(* The booking closes, *)
LEMMA CloseHolds ==
  ASSUME PaymentsInv, Cancel \/ Complete
  PROVE  /\ PaymentsInv' /\ Closer \in Requests /\ Closer \in All /\ todo[Closer] = <<>>
         /\ Others(Closer) /\ recent' = InProgress \cup {Closer} /\ status = "CONFIRMED"
         /\ UNCHANGED <<credit, moneyVars, gatewayVars, faults>>
         /\ \E s \in Steps : /\ todo'[Closer] = <<s>>
                             /\ \/ s.op = "refundCancelled" /\ status' = "CANCELLED" /\ UNCHANGED kept
                                \/ s.op = "settle" /\ status' = "COMPLETED" /\ UNCHANGED tier
  <1>1. PICK s : /\ Begin(Closer, <<s>>)
                 /\ \/ s = [op |-> "refundCancelled"] /\ status' = "CANCELLED" /\ UNCHANGED kept
                    \/ s = [op |-> "settle"] /\ status' = "COMPLETED" /\ UNCHANGED tier
    BY DEF Cancel, Complete
  <1>2. /\ Closer \in Requests /\ status = "CONFIRMED"
        /\ recent' = InProgress \cup {Closer} /\ UNCHANGED <<credit, moneyVars, gatewayVars, faults>>
    BY DEF Cancel, Complete, Closes
  <1>3. tier' \in Tiers \cup {"NONE"} /\ kept' \in Nat
    BY PaymentsAssumption DEF Cancel, Complete, PaymentsInv, CallsFit, BookingTypes
  <1>4. Closer \in All /\ MayClose(Closer) /\ recent' \subseteq All
    BY <1>2 DEF All, MayClose, InProgress
  <1>5. CallsFit
    BY DEF PaymentsInv
  <1>6. RowsStand /\ SumsStay /\ books'.GATEWAY = books.GATEWAY
    <2>1. BookingTypes' /\ BookingStands
      BY <1>1, <1>2, <1>3, <1>4, <1>5 DEF CallsFit, BookingTypes, BookingStands, Statuses
    <2>2. checkouts' \in [created : SUBSET Orders, paid : SUBSET Orders] /\ UNCHANGED webhooks
          /\ checkouts.created \subseteq checkouts'.created
      BY <1>2, <1>5 DEF CallsFit, OtherTypes, gatewayVars
    <2> QED BY <1>2, <1>5, <2>1, <2>2, SameEvents, NoRows DEF moneyVars
  <1>7. /\ s \in Steps
        /\ \/ s.op = "refundCancelled" /\ status' = "CANCELLED" /\ UNCHANGED kept
           \/ s.op = "settle" /\ status' = "COMPLETED" /\ UNCHANGED tier
    BY <1>1 DEF Steps, PaymentSteps, PlainOps
  <1>8. s \in FitSteps(Closer)'
    BY <1>4, <1>7, OtherFitsNext DEF OpsOf, CancelOps, RefundOps, RowOps, SendOps,
       ReverseOps, AskOps, SettleOps
  <1>9. <<s>> \in ListsOf(FitSteps(Closer)', LaterSteps(Closer)') /\ Plain(<<s>>)
    BY <1>7, <1>8, Listed DEF OwedOps
  <1>10. PaymentsInv' /\ todo[Closer] = <<>> /\ todo'[Closer] = <<s>> /\ Others(Closer)
    BY <1>1, <1>4, <1>6, <1>9, StartHolds
  <1> QED BY <1>2, <1>4, <1>7, <1>10

LEMMA CloseUnpaidHolds ==
  ASSUME PaymentsInv, NEW to \in UnpaidCloses, CloseUnpaid(to)
  PROVE  PaymentsInv'
  <1>1. CallsFit
    BY DEF PaymentsInv
  <1>2. BookingTypes' /\ BookingStands
    <2>1. status' \in Statuses
      BY PaymentsAssumption DEF CloseUnpaid, Statuses
    <2>2. tier' \in Tiers \cup {"NONE"} /\ kept' \in Nat /\ recent' \subseteq All
      BY <1>1 DEF CloseUnpaid, CallsFit, BookingTypes, InProgress, All
    <2>3. credit' \in Int
      BY PaymentsAssumption DEF CloseUnpaid, NoRelease
    <2> QED BY <2>1, <2>2, <2>3 DEF BookingTypes, BookingStands, CloseUnpaid
  <1>3. checkouts' \in [created : SUBSET Orders, paid : SUBSET Orders] /\ UNCHANGED webhooks
        /\ checkouts.created \subseteq checkouts'.created
    BY <1>1 DEF CallsFit, OtherTypes, gatewayVars, CloseUnpaid
  <1>4. RowsStand /\ SumsStay /\ books'.GATEWAY = books.GATEWAY
    BY <1>1, <1>2, <1>3, SameEvents, NoRows DEF CloseUnpaid, moneyVars
  <1> QED BY <1>4, RestHolds DEF CloseUnpaid

(* the borrower pays, or tries to, *)
LEMMA PayHolds ==
  ASSUME PaymentsInv, NEW o \in Orders, Pay(o) \/ FailedAttempt(o)
  PROVE  PaymentsInv'
  <1>1. CallsFit
    BY DEF PaymentsInv
  <1>2. /\ webhooks' \in [raised : SUBSET Events, seen : SUBSET Events, answered : SUBSET Events]
        /\ checkouts' \in [created : SUBSET Orders, paid : SUBSET Orders]
        /\ checkouts'.created = checkouts.created
    <2>1. <<"payment.captured", o>> \in Events /\ <<"payment.failed", o>> \in Events
      BY DEF Events
    <2> QED BY <1>1, <2>1 DEF CallsFit, OtherTypes, Pay, FailedAttempt
  <1>3. UNCHANGED <<bookingVars, moneyVars, todo, faults>>
    BY DEF Pay, FailedAttempt
  <1>4. BookingTypes' /\ BookingStands
    BY <1>1, <1>3 DEF CallsFit, BookingTypes, BookingStands, bookingVars, bookingRow
  <1>5. RowsStand /\ SumsStay /\ books'.GATEWAY = books.GATEWAY
    BY <1>1, <1>2, <1>3, <1>4, NoRows DEF moneyVars
  <1> QED BY <1>3, <1>5, RestHolds

(* and the processes restart.                                              *)
LEMMA CrashHolds ==
  ASSUME PaymentsInv, Crash
  PROVE  /\ PaymentsInv' /\ UNCHANGED <<bookingVars, moneyVars, gatewayVars>>
         /\ DOMAIN todo' = All /\ \A h \in All : todo'[h] = <<>>
  <1>1. CallsFit
    BY DEF PaymentsInv
  <1>2. /\ UNCHANGED <<bookingVars, moneyVars, gatewayVars>>
        /\ faults' = [faults EXCEPT !.crashes = @ + 1] /\ todo' = [h \in All |-> <<>>]
    BY DEF Crash, Restart
  <1>3. faults' \in [crashes : Nat, failures : Nat] /\ faults'.crashes # 0
    BY <1>1, <1>2 DEF CallsFit, OtherTypes
  <1>4. BookingTypes' /\ RowTypes' /\ OtherTypes' /\ RefundRowsFit'
    <2>1. UNCHANGED <<status, tier, kept, credit, recent, payment, refund, accepted, account, transfer,
                      razorpay, books, journal, checkouts, webhooks>>
      BY <1>2 DEF bookingVars, bookingRow, moneyVars, gatewayVars
    <2>2. BookingTypes' /\ RowTypes' /\ OtherTypes'
      BY <1>1, <1>3, <2>1 DEF CallsFit, BookingTypes, RowTypes, OtherTypes
    <2>3. RefundRowsFit'
      BY <1>1, <2>1 DEF CallsFit, RefundRowsFit, RefundFits, Captured, PaymentsIn, KeptOfDeposit
    <2> QED BY <2>2, <2>3
  <1>5. Lists'
    BY <1>2, NothingListed DEF Lists
  <1>6. NewOrders'
    BY <1>1, <1>2 DEF CallsFit, NewOrders, Inserts, moneyVars, gatewayVars
  <1>7. InBalance'
    BY <1>3 DEF InBalance
  <1> QED BY <1>2, <1>4, <1>5, <1>6, <1>7 DEF PaymentsInv, CallsFit

----------------------------------------------------------------------------
(* Every step                                                              *)

LEMMA RefundsHold ==
  ASSUME PaymentsInv, NEW h \in All, RefundsPart(h)
  PROVE  PaymentsInv'
  <1>1. RestOfRefund /\ (Refunding!RefundStep(h) \/ Refunding!RetryFailed(h))
    BY DEF RefundsPart, RestOfRefund
  <1> QED BY <1>1, CheckHolds, InsertHolds, AttemptHolds, ClaimHolds, AcceptedHolds,
             RefusedRefundHolds, FailHolds, TallyHolds, SaveHolds, RetryRefundsHolds
          DEF Refunding!RefundStep

LEMMA StepHolds ==
  ASSUME PaymentsInv, NEW h \in All, Step(h)
  PROVE  PaymentsInv'
  <1>1. CASE PaymentStep(h)
    BY <1>1, CreateOrderHolds, InsertPaymentHolds, CaptureHolds, ConfirmHolds, MarkFailedHolds,
       ReceiveHolds, AnswerHolds, RefundCancelledHolds, FindReleaseHolds, ReleaseCreditHolds,
       RefundCreditHolds, PostCreditHolds, SettleHolds, KeepDepositHolds, CaughtHolds
       DEF PaymentStep
  <1>2. CASE SweepStep(h)
    BY <1>2, SweepMissedHolds, SweepUnsettledHolds DEF SweepStep
  <1> QED BY <1>1, <1>2, RefundsHold, PayoutHolds DEF Step

LEMMA NextHolds ==
  ASSUME PaymentsInv, Next
  PROVE  PaymentsInv'
  <1>1. CASE \E h \in All : Checkout(h) \/ Step(h) \/ Sweep(h)
    BY <1>1, CheckoutHolds, StepHolds, SweepHolds
  <1>2. CASE \E h \in All, o \in Orders : Verify(h, o)
    BY <1>2, VerifyHolds
  <1>3. CASE \E h \in All, e \in Events : Webhook(h, e)
    BY <1>3, WebhookHolds
  <1>4. CASE \E h \in All, p \in Unrefunded, amount \in GoodwillGiven : GiveGoodwill(h, p, amount)
    BY <1>4, GoodwillHolds
  <1>5. CASE (\E o \in Orders : Pay(o)) \/ (AttemptsFail /\ \E o \in Orders : FailedAttempt(o))
    BY <1>5, PayHolds
  <1>6. CASE \E to \in UnpaidCloses : CloseUnpaid(to)
    BY <1>6, CloseUnpaidHolds
  <1>7. CASE \E r \in Refunding!RefundIds, ok \in BOOLEAN : RefundSettled(r, ok)
    BY <1>7, Ids, SettledHolds
  <1>8. CASE Cancel \/ Complete
    BY <1>8, CloseHolds
  <1>9. CASE Crash
    BY <1>9, CrashHolds
  <1> QED BY <1>1, <1>2, <1>3, <1>4, <1>5, <1>6, <1>7, <1>8, <1>9 DEF Next

LEMMA NothingMoves ==
  ASSUME PaymentsInv, UNCHANGED vars
  PROVE  PaymentsInv'
  <1>1. UNCHANGED <<bookingVars, moneyVars, gatewayVars, todo, faults>> /\ CallsFit
    BY DEF vars, PaymentsInv
  <1>2. Unmoved
    BY <1>1, SameEvents DEF Unmoved, bookingVars, bookingRow, moneyVars, gatewayVars, CallsFit,
       BookingTypes
  <1>3. RowsStand /\ SumsStay /\ books'.GATEWAY = books.GATEWAY
    BY <1>1, <1>2, UnmovedStands
  <1> QED BY <1>1, <1>3, RestHolds

LEMMA InitHolds ==
  ASSUME Init
  PROVE  PaymentsInv
  <1>1. /\ todo = [h \in All |-> <<>>] /\ faults = [crashes |-> 0, failures |-> 0]
        /\ payment = [p \in Orders |-> NoPayment]
        /\ refund = [r \in RefundIds |-> Refunding!NoRefund]
        /\ accepted = [r \in RefundIds |-> 0]
        /\ transfer = [t \in TransferIds |-> Paying!NoTransfer]
        /\ razorpay = [t \in TransferIds |-> Paying!Nothing]
    BY Ids DEF Init, HandlersInit
  <1>2. BookingTypes
    BY DEF Init, BookingTypes, Statuses, NoRelease
  <1>3. RowTypes
    <2>1. Paying!Nothing \in AtRazorpay
      BY DEF Paying!Nothing, AtRazorpay
    <2> QED BY <1>1, <2>1 DEF RowTypes
  <1>4. OtherTypes
    BY <1>1 DEF Init, OtherTypes, Zero
  <1>5. RefundRowsFit
    BY <1>1 DEF RefundRowsFit
  <1>6. NewOrders
    BY <1>1 DEF NewOrders, Inserts
  <1>7. Lists
    <2>1. \A h \in All : <<>> \in Seq(FitSteps(h))
      OBVIOUS
    <2> QED BY <1>1, <2>1 DEF Lists, ListsOf
  <1>8. InBalance
    <2>1. Refunding!SentCash = 0
      <3>1. \A r \in RefundIds : Refunding!SentOf(r) = 0
        <4> TAKE r \in RefundIds
        <4>1. refund[r].cash \in Int /\ accepted[r] = 0
          BY <1>1, <1>3, RefundTerm DEF RowTypes
        <4> QED BY <4>1 DEF Refunding!SentOf
      <3>2. [r \in RefundIds |-> Refunding!SentOf(r)] = [r \in RefundIds |-> 0]
        BY <3>1
      <3> QED BY <3>2, Finite, Ids, SameSum, SumOfZeros DEF Refunding!SentCash
    <2>2. TransferredCash = 0
      <3>1. \A t \in TransferIds : TransferredOf(t) = 0
        <4> TAKE t \in TransferIds
        <4>1. transfer[t].amount \in Int /\ razorpay[t].held = 0 /\ razorpay[t].lender = 0
          <5>1. transfer[t].amount \in Int
            BY <1>3 DEF RowTypes, TransferRows, Paying!NoTransfer
          <5> QED BY <1>1, <5>1 DEF Paying!Nothing
        <4> QED BY <4>1 DEF TransferredOf
      <3>2. [t \in TransferIds |-> TransferredOf(t)] = [t \in TransferIds |-> 0]
        BY <3>1
      <3> QED BY <3>2, Finite, Ids, SumOfZeros DEF TransferredCash
    <2>3. CapturedCash = 0
      <3>1. \A o \in Orders : CapturedOf(o) = 0
        BY <1>1 DEF CapturedOf, Captured, PaymentsIn, NoPayment
      <3>2. [o \in Orders |-> CapturedOf(o)] = [o \in Orders |-> 0]
        BY <3>1
      <3> QED BY <3>2, Finite, SumOfZeros DEF CapturedCash
    <2>4. Owed = 0
      <3>1. \A h \in All : OwedOf(h) = 0
        BY <1>1 DEF OwedOf, OwedBy
      <3>2. [h \in All |-> OwedOf(h)] = [h \in All |-> 0]
        BY <3>1
      <3> QED BY <3>2, Finite, SumOfZeros DEF Owed
    <2>5. books.GATEWAY = 0
      BY DEF Init, Zero
    <2> QED BY <2>1, <2>2, <2>3, <2>4, <2>5 DEF InBalance
  <1> QED BY <1>2, <1>3, <1>4, <1>5, <1>6, <1>7, <1>8 DEF PaymentsInv, CallsFit

(* The calls of the payments service fit what they are about, and the      *)
(* books are what Razorpay did but for what a call in progress still owes  *)
(* them: in every state, whatever the constants are.                       *)
THEOREM PaymentsStayFit == Spec => []PaymentsInv
  <1>1. Init => PaymentsInv
    BY InitHolds
  <1>2. PaymentsInv /\ [Next]_vars => PaymentsInv'
    BY NextHolds, NothingMoves
  <1> QED BY <1>1, <1>2, PTL DEF Spec

(* When no call is in progress and none was cut short, the ledger's        *)
(* balance at Razorpay is what Razorpay sent back, transferred and took    *)
(* (payments.service.ts, refunds.service.ts and payouts.service.ts post    *)
(* what Razorpay did after it did it).                                     *)
THEOREM BooksFollow == Spec => []BooksFollowRazorpay
  <1>1. PaymentsInv => BooksFollowRazorpay
    <2> SUFFICES ASSUME PaymentsInv, Undisturbed
                 PROVE  books.GATEWAY = Refunding!SentCash + TransferredCash - CapturedCash
      BY DEF BooksFollowRazorpay
    <2>1. Owed = 0
      <3>1. \A h \in All : OwedOf(h) = 0
        BY DEF Undisturbed, AtRest, Free, OwedOf, OwedBy
      <3>2. [h \in All |-> OwedOf(h)] = [h \in All |-> 0]
        BY <3>1
      <3> QED BY <3>2, Finite, SumOfZeros DEF Owed
    <2>2. books.GATEWAY = Refunding!SentCash + TransferredCash - CapturedCash - Owed
      BY DEF PaymentsInv, InBalance, Undisturbed
    <2>3. Refunding!SentCash \in Int /\ TransferredCash \in Int /\ CapturedCash \in Int
      BY SumsAreInts DEF PaymentsInv, CallsFit
    <2> QED BY <2>1, <2>2, <2>3
  <1> QED BY <1>1, PaymentsStayFit, PTL

=============================================================================

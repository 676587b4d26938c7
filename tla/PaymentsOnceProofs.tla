------------------------- MODULE PaymentsOnceProofs -------------------------
(***************************************************************************)
(* What Payments does once at most, whatever calls overlap: one refund per *)
(* reason, the deposit given away once, one share of the rent kept, and a  *)
(* purpose for every payment.                                              *)
(*                                                                         *)
(* OneCloser says that one call at a time is about to refund a             *)
(* cancellation or to return a deposit.  DepositInv says what is left of   *)
(* the deposit, ShareInv who may pay the lender a share of the rent kept,  *)
(* and Explained where a payment is that has not confirmed the booking.    *)
(* Each of them holds on top of PaymentsInv, of every booking but where    *)
(* its theorem says.                                                       *)
(***************************************************************************)
EXTENDS PaymentsProofs

----------------------------------------------------------------------------
(* One call at most makes a given step.                                    *)

Has(q, S) == \E i \in 1..Len(q) : q[i] \in S

Busy(S) == \E h \in All : Has(todo[h], S)

AtMostOne(S) ==
  /\ \A h \in All : One(todo[h], S)
  /\ \A h, g \in All : Has(todo[h], S) /\ Has(todo[g], S) => h = g

(* One refund per reason: what a call has to do before the row is written. *)
Reasons == {"CANCELLATION", "DEPOSIT_RETURN"}

FirstOp(kind) == IF kind = "CANCELLATION" THEN "refundCancelled" ELSE "settle"

DecidedOps(kind) == IF kind = "CANCELLATION" THEN {"findRelease", "releaseCredit"} ELSE {}

Decided(kind) == {s \in Steps : s.op \in DecidedOps(kind)} \cup Asking(kind)

Makers(kind) == {s \in Steps : s.op = FirstOp(kind)} \cup Decided(kind)

RefundOnce(kind) ==
  /\ AtMostOne(Makers(kind))
  /\ Busy(Decided(kind)) => RefundsFor(kind) = {}
  /\ \A r, u \in RefundsFor(kind) : r = u

SweepLast(q) ==
  \A i, j \in 1..Len(q) : i < j /\ q[i].op \in SweepOps => q[j].op \in SweepOps

CloserIsRecent ==
  Closer \in Requests /\ todo[Closer] # <<>> =>
    Closer \in recent /\ status \in {"CANCELLED", "COMPLETED"}

OneCloser ==
  /\ \A h \in All : SweepLast(todo[h])
  /\ CloserIsRecent
  /\ \A kind \in Reasons : RefundOnce(kind)

----------------------------------------------------------------------------
(* The deposit *)

About(r) == {s \in RefundSteps : s.op \in RefundOps /\ s.id = r}

Apart(r) ==
  /\ AtMostOne(About(r))
  /\ \A h \in All : Has(todo[h], About(r)) =>
       /\ refund[r].sent = FALSE
       /\ h \notin Workers => refund[r].status = "PENDING"

Late(o) ==
  {s \in PaymentSteps : s.op = "confirm" /\ s.order = o}
    \cup {s \in Asking("LATE_PAYMENT") : s.payment = o}

LateRows(o) == {r \in RefundIds : refund[r].kind = "LATE_PAYMENT" /\ refund[r].payment = o}

LateOnce(o) ==
  /\ AtMostOne(Late(o))
  /\ Busy(Late(o)) => o \in Captured /\ LateRows(o) = {}
  /\ \A r, u \in LateRows(o) : r = u

InTime(o) == o \in Captured /\ LateRows(o) = {} /\ ~Busy(Late(o))

Paid == status \in {"CONFIRMED", "CANCELLED", "COMPLETED"}

(* A booking is over without money when it was cancelled before it was     *)
(* paid: then nothing of what follows is said of it.                       *)
PaidFits ==
  /\ paid \in BOOLEAN
  /\ paid => Paid
  /\ status \in {"CONFIRMED", "COMPLETED"} => paid

Off == status = "CANCELLED" /\ ~paid

PaidInTime == Paid => \E o \in Orders : InTime(o)

HeldOf(o) ==
  IF o \in Captured /\ \A r \in LateRows(o) : refund[r].sent = FALSE
  THEN Booking.deposit ELSE 0

Held == SumFunction([o \in Orders |-> HeldOf(o)])

SentFor(kind) == \E r \in RefundsFor(kind) : refund[r].sent = TRUE

GivenBack ==
  (IF SentFor("CANCELLATION") THEN Booking.deposit ELSE 0)
    + (IF SentFor("DEPOSIT_RETURN") THEN Booking.deposit - KeptOfDeposit ELSE 0)
    + (IF "DEPOSIT_KEPT" \in journal THEN KeptOfDeposit ELSE 0)

CreditsBack == {NoRelease, Refund(tier, Booking).credit}

HeadCredit(s) ==
  /\ s.op = "releaseCredit" => s.found \in CreditsBack
  /\ s.op \in {"refundCredit", "postCredit"} => s.amounts.deposit = 0

CreditStands ==
  /\ status \in {"AWAITING_PAYMENT", "CONFIRMED"} => credit = NoRelease
  /\ status = "CANCELLED" => credit \in CreditsBack

CreditFits ==
  CreditStands /\ \A h \in All : todo[h] # <<>> => HeadCredit(Head(todo[h]))

KeptWhenOver == "DEPOSIT_KEPT" \in journal => status = "COMPLETED"

HeldOnBooks == books.DEPOSIT_HELD = Held - GivenBack

DepositInv ==
  /\ \A r \in RefundIds : Apart(r)
  /\ \A o \in Orders : LateOnce(o)
  /\ PaidInTime
  /\ CreditFits
  /\ KeptWhenOver
  /\ HeldOnBooks

----------------------------------------------------------------------------
(* The lender's share of the rent kept: a call is to pay it only when the  *)
(* refund of the cancellation is written, or is what it writes next.       *)

LenderOps == {"onCancelled", "keepRent"}

CreditOps == {"refundCredit", "postCredit"}

Sharing == {s \in Steps : s.op \in LenderOps}

AsksSome(q) == q # <<>> /\ Head(q) \in Asking("CANCELLATION") /\ Head(q).cash > 0

Refunded == RefundsFor("CANCELLATION") # {}

(* What the policy gives back in cash, when what was paid with credit goes *)
(* back as credit.                                                         *)
CashBack == CashOf(Refund(tier, Booking)) > 0

NoCash == status = "CANCELLED" /\ ~CashBack

SharesFit ==
  /\ status \notin {"CANCELLED", "COMPLETED"} => Shares = {}
  /\ status = "CANCELLED" /\ Shares # {} => Refunded /\ ~Busy(Sharing)
  /\ status = "CANCELLED" => \A t, u \in Shares : t = u

ShareInv ==
  /\ AtMostOne(Sharing)
  /\ \A h \in All : Has(todo[h], Sharing) => Refunded \/ AsksSome(todo[h])
  /\ \A h \in All : todo[h] # <<>> => Head(todo[h]).op \notin CreditOps
  /\ SharesFit

----------------------------------------------------------------------------
(* The purpose of a payment.  One is unexplained when no refund took from  *)
(* it and no call is about to confirm the booking by it or to ask for its  *)
(* late refund: there is none before the booking is paid, and one after.   *)

Spent == {"PARTIALLY_REFUNDED", "REFUNDED"}

Wrong == {s \in Asking("LATE_PAYMENT") : s.cash # CashOf(Booking)}

RowsOf(o) == {r \in RefundIds : refund[r].kind # "NONE" /\ refund[r].payment = o}

HasIt(h, o) == todo[h] # <<>> /\ Head(todo[h]) \in Late(o)

Unexplained == {o \in Captured : RowsOf(o) = {} /\ \A h \in All : ~HasIt(h, o)}

Explained ==
  /\ ~Busy(Wrong)
  /\ \A o \in Orders : payment[o].status \in Spent => RowsOf(o) # {}
  /\ faults.crashes = 0 => \A o, u \in Unexplained : paid /\ o = u

----------------------------------------------------------------------------
(* Each step of a call, as a move: what is left of the call once its next  *)
(* step, or more of it, is gone, with new steps in front.                  *)

Moves(h, steps) ==
  /\ Others(h)
  /\ Len(steps) \in Nat /\ Len(todo[h]) \in Nat
  /\ todo[h] # <<>> => Len(todo[h]) > 0 /\ todo[h][1] = Arg(h)
  /\ \E k \in 0..Len(todo[h]) :
       /\ todo[h] # <<>> => k > 0
       /\ Len(todo'[h]) = Len(steps) + Len(todo[h]) - k
       /\ \A i \in 1..Len(todo'[h]) :
            todo'[h][i] = IF i <= Len(steps) THEN steps[i] ELSE todo[h][i - Len(steps) + k]

LEMMA Shifted ==
  ASSUME NEW F, NEW p \in Seq(F), NEW G, NEW q \in Seq(G), NEW k \in 1..Len(q)
  PROVE  LET r == p \o SubSeq(q, k + 1, Len(q))
         IN  /\ Len(r) = Len(p) + Len(q) - k
             /\ \A i \in 1..Len(r) : r[i] = IF i <= Len(p) THEN p[i] ELSE q[i - Len(p) + k]
  <1>1. PICK n, m : n = Len(p) /\ m = Len(q)
    OBVIOUS
  <1>2. n \in Nat /\ m \in Nat /\ k \in 1..m
    BY <1>1
  <1>3. PICK t : t = SubSeq(q, k + 1, m)
    OBVIOUS
  <1>4. t \in Seq(G) /\ Len(t) = m - k /\ \A i \in 1..(m - k) : t[i] = q[k + i]
    BY <1>1, <1>2, <1>3
  <1>5. PICK r : r = p \o t
    OBVIOUS
  <1>6. p \in Seq(F \cup G) /\ t \in Seq(F \cup G)
    BY <1>4
  <1>7. Len(r) = n + m - k /\ \A i \in 1..(n + m - k) : r[i] = IF i <= n THEN p[i] ELSE t[i - n]
    <2>1. Len(r) = Len(p) + Len(t)
          /\ \A i \in 1..(Len(p) + Len(t)) : r[i] = IF i <= Len(p) THEN p[i] ELSE t[i - Len(p)]
      BY <1>5, <1>6, ConcatProperties
    <2>2. Len(p) + Len(t) = n + m - k
      BY <1>1, <1>2, <1>4
    <2> QED BY <1>1, <2>1, <2>2
  <1>8. \A i \in 1..(n + m - k) : i <= n \/ (i - n \in 1..(m - k) /\ k + (i - n) = i - n + k)
    BY <1>2
  <1>9. \A i \in 1..(n + m - k) : r[i] = IF i <= n THEN p[i] ELSE q[i - n + k]
    BY <1>4, <1>7, <1>8
  <1> QED BY <1>1, <1>3, <1>5, <1>7, <1>9

LEMMA CallSeq ==
  ASSUME Lists, NEW h \in All
  PROVE  /\ todo[h] \in Seq(FitSteps(h)) /\ Len(todo[h]) \in Nat
         /\ todo[h] = <<>> <=> Len(todo[h]) = 0
         /\ todo[h] # <<>> => Len(todo[h]) > 0 /\ todo[h][1] = Arg(h)
  <1>1. PICK q, F : q = todo[h] /\ F = FitSteps(h) /\ q \in Seq(F)
    BY DEF Lists, ListsOf
  <1>2. Len(q) \in Nat /\ (q = <<>> <=> Len(q) = 0) /\ (q # <<>> => Len(q) > 0 /\ q[1] = Head(q))
    BY <1>1
  <1> QED BY <1>1, <1>2 DEF Arg

LEMMA GoesMoves ==
  ASSUME Lists, NEW h \in All, NEW steps, Goes(h, steps)
  PROVE  Moves(h, steps)
  <1>1. PICK q, G : q = todo[h] /\ G = FitSteps(h) /\ q \in Seq(G)
    BY CallSeq
  <1>2. PICK F : F = FitSteps(h)'
    OBVIOUS
  <1>3. steps \in Seq(F)
    BY <1>2 DEF Goes, ListsOf
  <1>4. q # <<>> /\ Len(q) \in Nat /\ Len(q) > 0 /\ Len(steps) \in Nat /\ q[1] = Arg(h)
    BY <1>1, <1>3, CallSeq DEF Goes
  <1>5. Tail(q) = SubSeq(q, 1 + 1, Len(q)) /\ 1 \in 1..Len(q) /\ 1 \in 0..Len(q)
    BY <1>4 DEF Tail
  <1>6. PICK r : r = steps \o SubSeq(q, 1 + 1, Len(q))
    OBVIOUS
  <1>7. /\ Len(r) = Len(steps) + Len(q) - 1
        /\ \A i \in 1..Len(r) : r[i] = IF i <= Len(steps) THEN steps[i] ELSE q[i - Len(steps) + 1]
    BY <1>1, <1>3, <1>5, <1>6, Shifted
  <1>8. todo'[h] = r /\ Others(h)
    BY <1>1, <1>5, <1>6 DEF Goes
  <1> QED BY <1>1, <1>4, <1>5, <1>7, <1>8 DEF Moves

LEMMA DropMoves ==
  ASSUME Lists, NEW h \in All, todo[h] # <<>>, Dropped(h), Others(h)
  PROVE  Moves(h, <<>>)
  <1>1. PICK q, G : q = todo[h] /\ G = FitSteps(h) /\ q \in Seq(G)
    BY CallSeq
  <1>2. PICK k \in 1..Len(q) : todo'[h] = SubSeq(q, k + 1, Len(q))
    BY <1>1 DEF Dropped
  <1>3. q # <<>> /\ Len(q) \in Nat /\ Len(q) > 0 /\ q[1] = Arg(h) /\ k \in 0..Len(q) /\ k > 0
    BY <1>1, <1>2, CallSeq
  <1>4. PICK r : r = SubSeq(q, k + 1, Len(q))
    OBVIOUS
  <1>5. Len(r) = Len(q) - k /\ \A i \in 1..Len(r) : r[i] = q[i + k] /\ ~(i <= 0) /\ i - 0 + k = i + k
    BY <1>1, <1>2, <1>3, <1>4
  <1>6. Len(<<>>) = 0 /\ 0 + Len(q) - k = Len(q) - k
    BY <1>3
  <1>7. \A i \in 1..Len(r) : r[i] = IF i <= 0 THEN <<>>[i] ELSE q[i - 0 + k]
    BY <1>5
  <1> QED BY <1>1, <1>2, <1>3, <1>4, <1>5, <1>6, <1>7 DEF Moves

LEMMA StartMoves ==
  ASSUME Lists, Lists', NEW h \in All, todo[h] = <<>>, NEW steps, todo'[h] = steps, Others(h)
  PROVE  Moves(h, steps)
  <1>1. Len(todo[h]) = 0 /\ Len(steps) \in Nat
    <2>1. Len(todo[h]) = 0
      BY CallSeq
    <2>2. PICK F : F = FitSteps(h)' /\ steps \in Seq(F)
      BY DEF Lists, ListsOf
    <2> QED BY <2>1, <2>2
  <1>2. \A i \in 1..Len(steps) : i <= Len(steps)
    BY <1>1
  <1>3. 0 \in 0..0 /\ Len(steps) + 0 - 0 = Len(steps)
    BY <1>1
  <1> QED BY <1>1, <1>2, <1>3 DEF Moves

(* The steps that a call still has to make, it had or are new.             *)
LEMMA MovedIndex ==
  ASSUME NEW h, NEW steps, Moves(h, steps), NEW i \in 1..Len(todo'[h])
  PROVE  \/ i \in 1..Len(steps) /\ todo'[h][i] = steps[i]
         \/ \E j \in 1..Len(todo[h]) : /\ todo'[h][i] = todo[h][j] /\ i > Len(steps)
                                       /\ todo[h] # <<>> => j > 1
  <1>1. PICK n, m : n = Len(steps) /\ m = Len(todo[h]) /\ n \in Nat /\ m \in Nat
    BY DEF Moves
  <1>2. PICK k \in 0..m : /\ todo[h] # <<>> => k > 0
                          /\ Len(todo'[h]) = n + m - k
                          /\ todo'[h][i] = IF i <= n THEN steps[i] ELSE todo[h][i - n + k]
    BY <1>1 DEF Moves
  <1>3. CASE i <= n
    BY <1>1, <1>2, <1>3
  <1>4. CASE ~(i <= n)
    <2>1. i - n + k \in 1..m /\ i > n /\ (k > 0 => i - n + k > 1)
      BY <1>1, <1>2, <1>4
    <2> QED BY <1>1, <1>2, <1>4, <2>1
  <1> QED BY <1>3, <1>4

LEMMA MovedHas ==
  ASSUME NEW h, NEW steps, Moves(h, steps), NEW S, Has(todo'[h], S)
  PROVE  Has(steps, S) \/ Has(todo[h], S)
  BY MovedIndex DEF Has

(* One call at most makes a given step, if a new one comes only when no    *)
(* call had it or in the place of the one that had it.                     *)
LEMMA MovedOnce ==
  ASSUME NEW S, AtMostOne(S), NEW h \in All, NEW steps, Moves(h, steps), One(steps, S),
         Has(steps, S) => ~Busy(S) \/ (todo[h] # <<>> /\ Arg(h) \in S)
  PROVE  AtMostOne(S)'
  <1>1. Others(h)
    BY DEF Moves
  <1>2. PICK n, m : n = Len(steps) /\ m = Len(todo[h]) /\ n \in Nat /\ m \in Nat
    BY DEF Moves
  <1>3. ASSUME Has(steps, S), NEW j \in 1..m, todo[h][j] \in S PROVE todo[h] # <<>> => j = 1
    <2>1. Busy(S)
      BY <1>2, <1>3 DEF Busy, Has
    <2>2. todo[h] # <<>> /\ Arg(h) \in S
      BY <1>3, <2>1
    <2>3. m > 0 /\ todo[h][1] = Arg(h) /\ 1 \in 1..m
      BY <1>2, <2>2 DEF Moves
    <2> QED BY <1>2, <1>3, <2>2, <2>3 DEF AtMostOne, One
  <1>4. ASSUME Has(steps, S), NEW g \in All, g # h PROVE ~Has(todo[g], S)
    <2>1. CASE ~Busy(S)
      BY <2>1 DEF Busy
    <2>2. CASE todo[h] # <<>> /\ Arg(h) \in S
      <3>1. m > 0 /\ todo[h][1] = Arg(h) /\ 1 \in 1..m
        BY <1>2, <2>2 DEF Moves
      <3>2. Has(todo[h], S)
        BY <1>2, <2>2, <3>1 DEF Has
      <3> QED BY <1>4, <3>2 DEF AtMostOne
    <2> QED BY <1>4, <2>1, <2>2
  <1>5. One(todo'[h], S)
    <2>1. PICK k \in 0..m : /\ todo[h] # <<>> => k > 0
                            /\ Len(todo'[h]) = n + m - k
                            /\ \A i \in 1..Len(todo'[h]) :
                                 todo'[h][i] = IF i <= n THEN steps[i] ELSE todo[h][i - n + k]
      BY <1>2 DEF Moves
    <2>2. PICK q, r, l : q = todo[h] /\ r = todo'[h] /\ l = n + m - k
      OBVIOUS
    <2>3. \A i \in 1..l : i <= n \/ i - n + k \in 1..m
      BY <1>2, <2>2
    <2> SUFFICES ASSUME NEW i \in 1..l, NEW j \in 1..l, r[i] \in S, r[j] \in S PROVE i = j
      BY <2>1, <2>2 DEF One
    <2>4. \A x, y \in 1..m : q[x] \in S /\ q[y] \in S => x = y
      BY <1>2, <2>2 DEF AtMostOne, One
    <2>5. \A x, y \in 1..n : steps[x] \in S /\ steps[y] \in S => x = y
      BY <1>2 DEF One
    <2>6. /\ r[i] = IF i <= n THEN steps[i] ELSE q[i - n + k]
          /\ r[j] = IF j <= n THEN steps[j] ELSE q[j - n + k]
      BY <2>1, <2>2
    <2>7. \A x \in 1..l : x <= n /\ steps[x] \in S => Has(steps, S)
      BY <1>2, <2>2 DEF Has
    <2>8. \A y \in 1..l : y > n /\ q[y - n + k] \in S => ~Has(steps, S)
      <3> SUFFICES ASSUME NEW y \in 1..l, y > n, q[y - n + k] \in S, Has(steps, S) PROVE FALSE
        OBVIOUS
      <3>1. y - n + k \in 1..m
        BY <1>2, <2>2
      <3>2. q # <<>>
        BY <2>2, <1>3, <3>1, <1>2 DEF Moves
      <3>3. k > 0 /\ y - n + k # 1
        BY <1>2, <2>1, <2>2, <3>1, <3>2
      <3> QED BY <1>3, <2>2, <3>1, <3>2, <3>3
    <2>9. CASE i <= n /\ j <= n
      BY <1>2, <2>2, <2>5, <2>6, <2>9
    <2>10. CASE i > n /\ j > n
      BY <1>2, <2>2, <2>3, <2>4, <2>6, <2>10, SMTT(60)
    <2>11. CASE (i <= n /\ j > n) \/ (i > n /\ j <= n)
      BY <1>2, <2>2, <2>6, <2>7, <2>8, <2>11
    <2> QED BY <1>2, <2>2, <2>9, <2>10, <2>11
  <1>6. \A g \in All : One(todo'[g], S)
    BY <1>1, <1>5 DEF Others, AtMostOne
  <1>7. ASSUME NEW g \in All, g # h, Has(todo[g], S) PROVE ~Has(todo'[h], S)
    <2>1. ~Has(steps, S)
      BY <1>4, <1>7
    <2>2. ~Has(todo[h], S)
      BY <1>7 DEF AtMostOne
    <2> QED BY <2>1, <2>2, MovedHas
  <1>8. \A f, g \in All : Has(todo'[f], S) /\ Has(todo'[g], S) => f = g
    <2> TAKE f, g \in All
    <2>1. (f # h => todo'[f] = todo[f]) /\ (g # h => todo'[g] = todo[g])
      BY <1>1 DEF Others
    <2>2. Has(todo[f], S) /\ Has(todo[g], S) => f = g
      BY DEF AtMostOne
    <2> QED BY <1>7, <2>1, <2>2
  <1> QED BY <1>6, <1>8 DEF AtMostOne

----------------------------------------------------------------------------
(* One refund for each reason.  A step may put in front what leads to such *)
(* a refund if no other call is about to make it, ...                      *)
Makes(h, steps, kind) ==
  /\ One(steps, Makers(kind))
  /\ Has(steps, Makers(kind)) =>
       ~Busy(Makers(kind)) \/ (todo[h] # <<>> /\ Arg(h) \in Makers(kind))
  /\ Has(steps, Decided(kind)) => RefundsFor(kind) = {}

(* ... and writes the row in the place of a step that was to do so.        *)
Writes(h, steps, kind) ==
  \/ RefundsFor(kind)' = RefundsFor(kind)
  \/ /\ todo[h] # <<>> /\ Arg(h) \in Decided(kind) /\ ~Has(steps, Makers(kind))
     /\ \E r : RefundsFor(kind)' \subseteq RefundsFor(kind) \cup {r}

LEMMA RefundOnceKept ==
  ASSUME NEW kind, RefundOnce(kind), NEW h \in All, NEW steps, Moves(h, steps),
         Makes(h, steps, kind), Writes(h, steps, kind)
  PROVE  RefundOnce(kind)'
  <1>1. PICK M, D : M = Makers(kind) /\ D = Decided(kind)
    OBVIOUS
  <1>2. D \subseteq M
    BY <1>1 DEF Makers
  <1>3. AtMostOne(M)'
    BY <1>1, MovedOnce DEF RefundOnce, Makes
  <1>4. AtMostOne(Makers(kind))'
    BY <1>1, <1>3 DEF Makers, Decided, Asking
  <1>5. CASE RefundsFor(kind)' = RefundsFor(kind)
    <2>1. ASSUME NEW g \in All, Has(todo'[g], D) PROVE RefundsFor(kind) = {}
      <3>1. g # h => Has(todo[g], D)
        BY <2>1 DEF Moves, Others
      <3>2. g = h => Has(steps, D) \/ Has(todo[h], D)
        BY <2>1, MovedHas
      <3> QED BY <1>1, <3>1, <3>2 DEF RefundOnce, Busy, Makes
    <2>2. Busy(D)' => RefundsFor(kind)' = {}
      BY <1>5, <2>1 DEF Busy
    <2>3. Busy(Decided(kind))' => RefundsFor(kind)' = {}
      BY <1>1, <2>2 DEF Decided, Asking
    <2> QED BY <1>4, <1>5, <2>3 DEF RefundOnce
  <1>6. CASE /\ todo[h] # <<>> /\ Arg(h) \in D /\ ~Has(steps, M)
             /\ \E r : RefundsFor(kind)' \subseteq RefundsFor(kind) \cup {r}
    <2>1. Len(todo[h]) \in Nat /\ Len(todo[h]) > 0 /\ todo[h][1] = Arg(h) /\ 1 \in 1..Len(todo[h])
      BY <1>6 DEF Moves
    <2>2. Has(todo[h], D) /\ Has(todo[h], M)
      BY <1>2, <1>6, <2>1 DEF Has
    <2>3. RefundsFor(kind) = {}
      BY <1>1, <2>2 DEF RefundOnce, Busy
    <2>4. ASSUME NEW g \in All PROVE ~Has(todo'[g], D)
      <3>1. CASE g # h
        <4>1. ~Has(todo[g], M)
          BY <1>1, <2>2, <3>1 DEF RefundOnce, AtMostOne
        <4> QED BY <1>2, <3>1, <4>1 DEF Moves, Others, Has
      <3>2. CASE g = h
        <4> SUFFICES ASSUME NEW i \in 1..Len(todo'[h]), todo'[h][i] \in D PROVE FALSE
          BY <3>2 DEF Has
        <4>1. ~(i \in 1..Len(steps) /\ todo'[h][i] = steps[i])
          BY <1>2, <1>6 DEF Has
        <4>2. PICK j \in 1..Len(todo[h]) : todo'[h][i] = todo[h][j] /\ j > 1
          BY <1>6, <4>1, MovedIndex
        <4> QED BY <1>1, <1>2, <1>6, <2>1, <4>2 DEF RefundOnce, AtMostOne, One
      <3> QED BY <3>1, <3>2
    <2>5. ~Busy(D)'
      BY <2>4 DEF Busy
    <2>6. ~Busy(Decided(kind))'
      BY <1>1, <2>5 DEF Decided, Asking
    <2> QED BY <1>4, <1>6, <2>3, <2>6 DEF RefundOnce
  <1> QED BY <1>1, <1>5, <1>6 DEF Writes

(* A step that leads to no such refund.                                    *)
MakerOps == {"refundCancelled", "settle", "findRelease", "releaseCredit"}

Harmless(s) ==
  /\ s.op \notin MakerOps \cup SweepOps
  /\ s.op \in AskOps => s.kind \notin Reasons

Unlisted(steps) == \A i \in 1..Len(steps) : Harmless(steps[i])

LEMMA HarmlessMakesNothing ==
  ASSUME NEW s, Harmless(s), NEW kind \in Reasons
  PROVE  s \notin Makers(kind)
  BY DEF Harmless, Makers, Decided, Asking, MakerOps, DecidedOps, FirstOp, Reasons

LEMMA UnlistedMakesNothing ==
  ASSUME NEW steps, Unlisted(steps), NEW kind \in Reasons
  PROVE  ~Has(steps, Makers(kind)) /\ \A h : Makes(h, steps, kind)
  <1>1. ~Has(steps, Makers(kind))
    BY HarmlessMakesNothing DEF Has, Unlisted
  <1>2. ~Has(steps, Decided(kind)) /\ One(steps, Makers(kind))
    BY <1>1 DEF Has, One, Makers
  <1> QED BY <1>1, <1>2 DEF Makes

(* The rest of a sweep's list is the rest of the sweep.                    *)
LEMMA SweepLastKept ==
  ASSUME NEW h \in All, NEW steps, Moves(h, steps), \A g \in All : SweepLast(todo[g]),
         \/ \A i \in 1..Len(steps) : steps[i].op \notin SweepOps
         \/ todo[h] = <<>> /\ \A i \in 1..Len(steps) : steps[i].op \in SweepOps
  PROVE  \A g \in All : SweepLast(todo'[g])
  <1>1. \A g \in All : g # h => SweepLast(todo'[g])
    BY DEF Moves, Others
  <1>2. PICK n, m, q, r : n = Len(steps) /\ m = Len(todo[h]) /\ q = todo[h] /\ r = todo'[h]
    OBVIOUS
  <1>3. PICK k \in 0..m : /\ n \in Nat /\ m \in Nat /\ Len(r) = n + m - k
                          /\ \A i \in 1..(n + m - k) : r[i] = IF i <= n THEN steps[i] ELSE q[i - n + k]
    BY <1>2 DEF Moves
  <1>4. SweepLast(r)
    <2> SUFFICES ASSUME NEW i \in 1..(n + m - k), NEW j \in 1..(n + m - k), i < j, r[i].op \in SweepOps
                 PROVE  r[j].op \in SweepOps
      BY <1>3 DEF SweepLast
    <2>1. CASE \A x \in 1..n : steps[x].op \notin SweepOps
      <3>1. i > n /\ j > n
        BY <1>3, <2>1
      <3>2. i - n + k \in 1..m /\ j - n + k \in 1..m /\ i - n + k < j - n + k
        BY <1>3, <3>1
      <3>3. r[i] = q[i - n + k] /\ r[j] = q[j - n + k]
        BY <1>3, <3>1
      <3>4. SweepLast(q)
        BY <1>2
      <3> QED BY <1>2, <3>2, <3>3, <3>4 DEF SweepLast
    <2>2. CASE q = <<>> /\ \A x \in 1..n : steps[x].op \in SweepOps
      <3>1. m = 0
        BY <1>2, <2>2
      <3>2. j \in 1..n /\ r[j] = steps[j]
        BY <1>3, <3>1
      <3> QED BY <2>2, <3>2
    <2> QED BY <1>2, <2>1, <2>2
  <1> QED BY <1>1, <1>2, <1>4

(* One call at a time closes the books of the booking.                     *)
BookingGoesOn(h) ==
  /\ \/ recent' = recent
     \/ recent' = recent \ {h} /\ todo[h] = <<>>
  /\ status \in {"CANCELLED", "COMPLETED"} => status' = status
  /\ h = Closer /\ h \in Requests => todo[h] # <<>>

LEMMA CloserStays ==
  ASSUME CloserIsRecent, NEW h \in All, Others(h), BookingGoesOn(h)
  PROVE  CloserIsRecent'
  <1> SUFFICES ASSUME Closer \in Requests, todo'[Closer] # <<>>
               PROVE  Closer \in recent' /\ status' \in {"CANCELLED", "COMPLETED"}
    BY DEF CloserIsRecent
  <1>1. Closer \in All
    BY DEF All
  <1>2. todo[Closer] # <<>>
    BY <1>1 DEF Others, BookingGoesOn
  <1>3. Closer \in recent /\ status \in {"CANCELLED", "COMPLETED"}
    BY <1>2 DEF CloserIsRecent
  <1> QED BY <1>2, <1>3 DEF BookingGoesOn

LEMMA OneCloserKept ==
  ASSUME OneCloser, NEW h \in All, NEW steps, Moves(h, steps), BookingGoesOn(h),
         \/ \A i \in 1..Len(steps) : steps[i].op \notin SweepOps
         \/ todo[h] = <<>> /\ \A i \in 1..Len(steps) : steps[i].op \in SweepOps,
         \A kind \in Reasons : Makes(h, steps, kind) /\ Writes(h, steps, kind)
  PROVE  OneCloser'
  <1>1. CloserIsRecent'
    BY CloserStays DEF OneCloser, Moves
  <1>2. \A g \in All : SweepLast(todo'[g])
    BY SweepLastKept DEF OneCloser
  <1>3. \A kind \in Reasons : RefundOnce(kind)'
    BY RefundOnceKept DEF OneCloser
  <1> QED BY <1>1, <1>2, <1>3 DEF OneCloser

(* A step that leads to no refund, writes no row for one, and leaves the   *)
(* booking alone unless it confirms it.                                    *)
SameReasons == \A kind \in Reasons : RefundsFor(kind)' = RefundsFor(kind)

LEMMA HarmlessKept ==
  ASSUME OneCloser, NEW h \in All, NEW steps, Moves(h, steps), BookingGoesOn(h),
         Unlisted(steps), SameReasons
  PROVE  OneCloser'
  <1>1. \A i \in 1..Len(steps) : steps[i].op \notin SweepOps
    BY DEF Unlisted, Harmless
  <1>2. \A kind \in Reasons : Makes(h, steps, kind) /\ Writes(h, steps, kind)
    BY UnlistedMakesNothing DEF Writes, SameReasons
  <1> QED BY <1>1, <1>2, OneCloserKept

LEMMA SameRows ==
  ASSUME \A r \in RefundIds : refund'[r].kind = refund[r].kind
  PROVE  \A kind : RefundsFor(kind)' = RefundsFor(kind)
  BY Ids DEF RefundsFor

LEMMA Short ==
  ASSUME NEW s, NEW u
  PROVE  /\ Unlisted(<<>>)
         /\ Harmless(s) => Unlisted(<<s>>)
         /\ Harmless(s) /\ Harmless(u) => Unlisted(<<s, u>>)
  <1>1. /\ Len(<<>>) = 0 /\ Len(<<s>>) = 1 /\ <<s>>[1] = s
        /\ Len(<<s, u>>) = 2 /\ <<s, u>>[1] = s /\ <<s, u>>[2] = u
    OBVIOUS
  <1> QED BY <1>1 DEF Unlisted

LEMMA QuietCall ==
  ASSUME PaymentsInv, OneCloser, NEW h \in All, todo[h] # <<>>,
         (Dropped(h) /\ Others(h)) \/ \E steps : Goes(h, steps) /\ Unlisted(steps),
         recent' = recent, status \in {"CANCELLED", "COMPLETED"} => status' = status, SameReasons
  PROVE  OneCloser'
  <1>1. Lists /\ BookingGoesOn(h)
    BY DEF PaymentsInv, CallsFit, BookingGoesOn
  <1>2. PICK steps : Moves(h, steps) /\ Unlisted(steps)
    BY <1>1, DropMoves, GoesMoves, Short
  <1> QED BY <1>1, <1>2, HarmlessKept

LEMMA QuietReturn ==
  ASSUME PaymentsInv, OneCloser, NEW h \in All, todo[h] # <<>>, Goes(h, <<>>),
         recent' = recent, status \in {"CANCELLED", "COMPLETED"} => status' = status, SameReasons
  PROVE  OneCloser'
  <1>1. PICK steps : Goes(h, steps) /\ Unlisted(steps)
    BY Short
  <1> QED BY <1>1, QuietCall

LEMMA QuietPair ==
  ASSUME PaymentsInv, OneCloser, NEW h \in All, todo[h] # <<>>, NEW s, NEW u,
         Harmless(s), Harmless(u), Goes(h, <<s, u>>),
         recent' = recent, status \in {"CANCELLED", "COMPLETED"} => status' = status, SameReasons
  PROVE  OneCloser'
  <1>1. PICK steps : Goes(h, steps) /\ Unlisted(steps)
    BY Short
  <1> QED BY <1>1, QuietCall

LEMMA QuietStep ==
  ASSUME PaymentsInv, OneCloser, NEW h \in All, todo[h] # <<>>, NEW s, Harmless(s),
         Goes(h, <<>>) \/ Goes(h, <<s>>),
         recent' = recent, status \in {"CANCELLED", "COMPLETED"} => status' = status, SameReasons
  PROVE  OneCloser'
  <1>1. PICK steps : Goes(h, steps) /\ Unlisted(steps)
    BY Short
  <1> QED BY <1>1, QuietCall

(* The refunds.  Their rows keep their kinds, *)
LEMMA RestKept ==
  ASSUME RestOfRefund
  PROVE  recent' = recent /\ status' = status
  BY DEF RestOfRefund, bookingVars, bookingRow

LEMMA AsksInPlace ==
  ASSUME OneCloser, NEW h \in All, todo[h] # <<>>, NEW steps, Moves(h, steps),
         NEW kind \in Reasons, Arg(h) \in Makers(kind), One(steps, Makers(kind)),
         Has(steps, Decided(kind)) => Arg(h) \in Decided(kind) \/ RefundsFor(kind) = {}
  PROVE  Makes(h, steps, kind)
  <1>1. 1 \in 1..Len(todo[h]) /\ todo[h][1] = Arg(h)
    BY DEF Moves
  <1>2. Arg(h) \in Decided(kind) => RefundsFor(kind) = {}
    BY <1>1 DEF Has, Busy, OneCloser, RefundOnce
  <1> QED BY <1>2 DEF Makes

LEMMA Contents ==
  ASSUME NEW s, NEW u, NEW S
  PROVE  /\ One(<<s>>, S) /\ (Has(<<s>>, S) <=> s \in S)
         /\ u \notin S => One(<<s, u>>, S) /\ (Has(<<s, u>>, S) <=> s \in S)
         /\ One(<<>>, S) /\ ~Has(<<>>, S)
  <1>1. /\ Len(<<>>) = 0 /\ Len(<<s>>) = 1 /\ <<s>>[1] = s
        /\ Len(<<s, u>>) = 2 /\ <<s, u>>[1] = s /\ <<s, u>>[2] = u
    OBVIOUS
  <1> QED BY <1>1 DEF One, Has

LEMMA AskMakes ==
  ASSUME NEW s, NEW kind \in Reasons, s.op \in AskOps
  PROVE  /\ s \in Makers(kind) => s.kind = kind
         /\ s.op \notin MakerOps \cup SweepOps
         /\ s.kind \notin Reasons => Harmless(s)
  BY DEF Makers, Decided, Asking, DecidedOps, FirstOp, AskOps, Reasons, MakerOps, SweepOps, Harmless

(* A call that is to make a refund goes on to do so.                       *)
LEMMA OneKindOnly ==
  ASSUME PaymentsInv, OneCloser, NEW h \in All, todo[h] # <<>>, NEW steps, Moves(h, steps),
         NEW kind \in Reasons, Arg(h) \in Makers(kind), One(steps, Makers(kind)),
         Has(steps, Decided(kind)) => Arg(h) \in Decided(kind) \/ RefundsFor(kind) = {},
         \A k \in Reasons : k # kind => ~Has(steps, Makers(k)),
         \A i \in 1..Len(steps) : steps[i].op \notin SweepOps,
         recent' = recent, status' = status, SameReasons
  PROVE  OneCloser'
  <1>1. BookingGoesOn(h)
    BY DEF BookingGoesOn
  <1>2. ASSUME NEW k \in Reasons PROVE Makes(h, steps, k) /\ Writes(h, steps, k)
    <2>1. Writes(h, steps, k)
      BY DEF Writes, SameReasons
    <2>2. CASE k = kind
      BY <2>1, <2>2, AsksInPlace
    <2>3. CASE k # kind
      <3>1. ~Has(steps, Makers(k))
        BY <2>3
      <3>2. One(steps, Makers(k)) /\ ~Has(steps, Decided(k))
        BY <3>1 DEF One, Has, Makers
      <3> QED BY <2>1, <3>1, <3>2 DEF Makes
    <2> QED BY <2>2, <2>3
  <1> QED BY <1>1, <1>2, OneCloserKept

LEMMA CheckCloses ==
  ASSUME PaymentsInv, OneCloser, NEW h \in All, Refunding!Check(h), RestOfRefund
  PROVE  OneCloser'
  <1>1. PICK s : s = [Arg(h) EXCEPT !.op = "insertRefund"]
    OBVIOUS
  <1>2. /\ todo[h] # <<>>
        /\ Goes(h, <<>>) \/ Goes(h, <<s>>) \/ (Dropped(h) /\ Others(h))
    BY <1>1, CheckHolds
  <1>3. Arg(h).op = "createRefund"
    BY RefundCalls DEF Refunding!Check, At, Arg
  <1>4. /\ Arg(h) \in [op : AskOps, payment : Orders, kind : Kinds, cash : Int, amounts : Amounts]
        /\ Arg(h) \in RefundSteps
    BY <1>2, <1>3, NextStep, RefundForms DEF AskOps, PaymentsInv, CallsFit
  <1>5. s.op \in AskOps /\ s.kind = Arg(h).kind /\ s \in RefundSteps
    BY <1>1, <1>4 DEF AskOps, RefundSteps
  <1>6. SameReasons
    BY SameRows DEF Refunding!Check, SameReasons
  <1>7. CASE Goes(h, <<>>) \/ (Dropped(h) /\ Others(h)) \/ s.kind \notin Reasons
    <2>1. s.kind \notin Reasons => Harmless(s)
      BY <1>5 DEF Harmless, AskOps, MakerOps, SweepOps
    <2>2. (Dropped(h) /\ Others(h)) \/ \E steps : Goes(h, steps) /\ Unlisted(steps)
      BY <1>2, <1>7, <2>1, Short
    <2> QED BY <1>2, <1>6, <2>2, QuietCall, RestKept
  <1>8. CASE Goes(h, <<s>>) /\ s.kind \in Reasons
    <2>1. PICK kind \in Reasons : kind = s.kind
      BY <1>8
    <2>2. Arg(h) \in Decided(kind) /\ Arg(h) \in Makers(kind)
      BY <1>3, <1>4, <1>5, <2>1 DEF Decided, Makers, Asking, AskOps
    <2>3. Moves(h, <<s>>)
      BY <1>8, GoesMoves DEF PaymentsInv, CallsFit
    <2>4. \A k \in Reasons : k # kind => ~Has(<<s>>, Makers(k))
      BY <1>5, <2>1, AskMakes, Contents
    <2>5. Len(<<s>>) = 1 /\ <<s>>[1] = s
      OBVIOUS
    <2>6. \A i \in 1..Len(<<s>>) : <<s>>[i].op \notin SweepOps
      BY <1>5, <2>5, AskMakes, <2>1
    <2>7. One(<<s>>, Makers(kind))
      BY Contents
    <2> QED BY <1>2, <1>6, <2>2, <2>3, <2>4, <2>6, <2>7, RestKept, OneKindOnly
  <1> QED BY <1>2, <1>7, <1>8

LEMMA InsertCloses ==
  ASSUME PaymentsInv, OneCloser, NEW h \in All, Refunding!Insert(h), RestOfRefund
  PROVE  OneCloser'
  <1>1. todo[h] # <<>>
    BY InsertHolds
  <1>2. PICK r, s :
          /\ r \in RefundIds /\ refund[r] = Refunding!NoRefund
          /\ refund'[r].kind = Arg(h).kind
          /\ \A q \in RefundIds : q # r => refund'[q] = refund[q]
          /\ s = [op |-> "attempt", id |-> r] /\ Goes(h, <<s>>)
    <2>1. PICK x : x = Arg(h)
      OBVIOUS
    <2>2. PICK r \in RefundIds :
            /\ refund[r] = Refunding!NoRefund
            /\ refund'[r] = [payment |-> x.payment, kind |-> x.kind, cash |-> x.cash,
                             amounts |-> x.amounts, status |-> "PENDING", attempts |-> 0,
                             sent |-> FALSE]
            /\ \A q \in RefundIds : q # r => refund'[q] = refund[q]
            /\ Goes(h, <<[op |-> "attempt", id |-> r]>>)
      BY <2>1, InsertHolds
    <2>3. refund'[r].kind = Arg(h).kind
      BY <2>1, <2>2
    <2>4. PICK s : s = [op |-> "attempt", id |-> r] /\ Goes(h, <<s>>)
      BY <2>2
    <2> QED BY ONLY <2>2, <2>3, <2>4, Zenon
  <1>3. Arg(h).op = "insertRefund"
    BY RefundCalls DEF Refunding!Insert, At, Arg
  <1>4. Arg(h) \in RefundSteps
    BY <1>1, <1>3, NextStep, RefundForms DEF AskOps, PaymentsInv, CallsFit
  <1>5. Harmless(s) /\ Unlisted(<<s>>)
    BY <1>2, Short DEF Harmless, MakerOps, SweepOps, AskOps
  <1>6. Moves(h, <<s>>)
    BY <1>2, GoesMoves DEF PaymentsInv, CallsFit
  <1>7. ASSUME NEW kind \in Reasons PROVE Makes(h, <<s>>, kind) /\ Writes(h, <<s>>, kind)
    <2>1. ~Has(<<s>>, Makers(kind)) /\ Makes(h, <<s>>, kind)
      BY <1>5, UnlistedMakesNothing
    <2>2. refund[r].kind # kind
      BY <1>2 DEF Refunding!NoRefund, Reasons
    <2>3. RefundsFor(kind) = {q \in RefundIds : refund[q].kind = kind}
          /\ RefundsFor(kind)' = {q \in RefundIds : refund'[q].kind = kind}
      BY Ids DEF RefundsFor
    <2>4. CASE Arg(h).kind = kind
      <3>1. Arg(h) \in Decided(kind)
        BY <1>3, <1>4, <2>4 DEF Decided, Asking, AskOps
      <3>2. RefundsFor(kind)' \subseteq RefundsFor(kind) \cup {r}
        BY <1>2, <2>3
      <3> QED BY <1>1, <2>1, <3>1, <3>2 DEF Writes
    <2>5. CASE Arg(h).kind # kind
      <3>1. RefundsFor(kind)' = RefundsFor(kind)
        BY <1>2, <2>2, <2>3, <2>5
      <3> QED BY <2>1, <3>1 DEF Writes
    <2> QED BY <2>4, <2>5
  <1>8. \A i \in 1..Len(<<s>>) : <<s>>[i].op \notin SweepOps
    BY <1>5 DEF Unlisted, Harmless
  <1>9. BookingGoesOn(h)
    BY <1>1, RestKept DEF BookingGoesOn
  <1> QED BY <1>6, <1>7, <1>8, <1>9, OneCloserKept

(* and what follows is about the row alone.                                *)
LEMMA RowGoes ==
  ASSUME PaymentsInv, NEW h \in All, RestOfRefund,
         \/ Refunding!Attempt(h) \/ Refunding!Claim(h) \/ Refunding!Accepted(h)
         \/ Refunding!RefusedRefund(h) \/ Refunding!Fail(h) \/ Refunding!Tally(h)
         \/ Refunding!Save(h) \/ Refunding!RetryFailed(h)
  PROVE  /\ todo[h] # <<>> /\ Arg(h).op \in RefundOps \cup {"retryRefunds"}
         /\ \A r \in RefundIds : refund'[r].kind = refund[r].kind
         /\ \E steps : Goes(h, steps) /\ \A i \in 1..Len(steps) : steps[i].op \in RefundOps
  <1>1. Arg(h).op \in RefundOps \cup {"retryRefunds"}
    BY RefundCalls DEF Refunding!Attempt, Refunding!Claim, Refunding!Accepted,
       Refunding!RefusedRefund, Refunding!Fail, Refunding!Tally, Refunding!Save,
       Refunding!RetryFailed, At, Arg, RefundOps
  <1>2. ASSUME NEW s, s.op \in RefundOps
        PROVE  /\ \A i \in 1..Len(<<s>>) : <<s>>[i].op \in RefundOps
               /\ \A i \in 1..Len(<<>>) : <<>>[i].op \in RefundOps
    BY <1>2
  <1>3. CASE Refunding!Attempt(h)
    <2>1. PICK s : s = [op |-> "claimRefund", id |-> Arg(h).id,
                        attempts |-> refund[Arg(h).id].attempts]
      OBVIOUS
    <2>2. Goes(h, <<s>>) /\ todo[h] # <<>> /\ s.op \in RefundOps
      BY <1>3, <2>1, AttemptHolds DEF RefundOps
    <2>3. \A r \in RefundIds : refund'[r].kind = refund[r].kind
      BY <1>3 DEF Refunding!Attempt
    <2> QED BY ONLY <1>1, <1>2, <2>2, <2>3, Zenon
  <1>4. CASE Refunding!Claim(h)
    <2>1. PICK s : s = [op |-> "callRefund", id |-> Arg(h).id]
      OBVIOUS
    <2>2. /\ todo[h] # <<>> /\ s.op \in RefundOps
          /\ Goes(h, <<s>>) \/ Goes(h, <<>>)
          /\ \A r \in RefundIds : refund'[r].kind = refund[r].kind
      BY <1>4, <2>1, ClaimHolds DEF RefundOps
    <2> QED BY ONLY <1>1, <1>2, <2>2, Zenon
  <1>5. CASE Refunding!Accepted(h)
    <2>1. PICK st, s : s = [op |-> "tallyRefund", id |-> Arg(h).id, status |-> st] /\ Goes(h, <<s>>)
      BY <1>5, AcceptedHolds
    <2>2. todo[h] # <<>> /\ s.op \in RefundOps
      BY <1>5, <2>1, AcceptedHolds DEF RefundOps
    <2>3. \A r \in RefundIds : refund'[r].kind = refund[r].kind
      BY <1>5 DEF Refunding!Accepted
    <2> QED BY ONLY <1>1, <1>2, <2>1, <2>2, <2>3, Zenon
  <1>6. CASE Refunding!RefusedRefund(h)
    <2>1. PICK s : s = [op |-> "failRefund", id |-> Arg(h).id]
      OBVIOUS
    <2>2. /\ todo[h] # <<>> /\ Goes(h, <<s>>) /\ s.op \in RefundOps
          /\ \A r \in RefundIds : refund'[r].kind = refund[r].kind
      BY <1>6, <2>1, RefusedRefundHolds DEF RefundOps
    <2> QED BY ONLY <1>1, <1>2, <2>2, Zenon
  <1>7. CASE Refunding!Fail(h)
    <2>1. /\ todo[h] # <<>> /\ Goes(h, <<>>)
          /\ \A r \in RefundIds : refund'[r].kind = refund[r].kind
      BY <1>7, FailHolds
    <2>2. \A i \in 1..Len(<<>>) : <<>>[i].op \in RefundOps
      OBVIOUS
    <2> QED BY ONLY <1>1, <2>1, <2>2, Zenon
  <1>8. CASE Refunding!Tally(h)
    <2>1. PICK sum, s : /\ s = [op |-> "saveRefund", id |-> Arg(h).id, status |-> Arg(h).status,
                                sum |-> sum]
                        /\ Goes(h, <<s>>)
      BY <1>8, TallyHolds
    <2>2. todo[h] # <<>> /\ s.op \in RefundOps
      BY <1>8, <2>1, TallyHolds DEF RefundOps
    <2>3. \A r \in RefundIds : refund'[r].kind = refund[r].kind
      BY <1>8 DEF Refunding!Tally
    <2> QED BY ONLY <1>1, <1>2, <2>1, <2>2, <2>3, Zenon
  <1>9. CASE Refunding!Save(h)
    <2>1. todo[h] # <<>> /\ Goes(h, <<>>)
      BY <1>9, SaveHolds
    <2>2. \A r \in RefundIds : refund'[r].kind = refund[r].kind
      <3>1. PICK i, st : i = Arg(h).id /\ st = Arg(h).status
        OBVIOUS
      <3>2. /\ i \in RefundIds /\ refund'[i] = [refund[i] EXCEPT !.sent = TRUE, !.status = st]
            /\ \A q \in RefundIds : q # i => refund'[q] = refund[q]
        BY <1>9, <3>1, SaveHolds
      <3>3. refund'[i].kind = refund[i].kind
        BY <3>2
      <3> QED BY <3>2, <3>3
    <2>3. \A i \in 1..Len(<<>>) : <<>>[i].op \in RefundOps
      OBVIOUS
    <2> QED BY ONLY <1>1, <2>1, <2>2, <2>3, Zenon
  <1>10. CASE Refunding!RetryFailed(h)
    <2>1. PICK steps : Goes(h, steps) /\ \A i \in 1..Len(steps) : steps[i].op = "attempt"
      BY <1>10, RetryRefundsHolds
    <2>2. \A i \in 1..Len(steps) : steps[i].op \in RefundOps
      BY <2>1 DEF RefundOps
    <2>3. todo[h] # <<>> /\ \A r \in RefundIds : refund'[r].kind = refund[r].kind
      BY <1>10, RetryRefundsHolds
    <2> QED BY ONLY <1>1, <2>1, <2>2, <2>3, Zenon
  <1> QED BY <1>3, <1>4, <1>5, <1>6, <1>7, <1>8, <1>9, <1>10

LEMMA RefundCloses ==
  ASSUME PaymentsInv, OneCloser, NEW h \in All, RefundsPart(h)
  PROVE  OneCloser'
  <1>1. RestOfRefund /\ recent' = recent /\ status' = status
    BY RestKept DEF RefundsPart, RestOfRefund
  <1>2. CASE Refunding!Check(h) \/ Refunding!Insert(h)
    BY <1>1, <1>2, CheckCloses, InsertCloses
  <1>3. CASE ~(Refunding!Check(h) \/ Refunding!Insert(h))
    <2>1. /\ todo[h] # <<>> /\ \A r \in RefundIds : refund'[r].kind = refund[r].kind
          /\ \E steps : Goes(h, steps) /\ \A i \in 1..Len(steps) : steps[i].op \in RefundOps
      BY <1>1, <1>3, RowGoes DEF RefundsPart, Refunding!RefundStep
    <2>2. PICK steps : Goes(h, steps) /\ \A i \in 1..Len(steps) : steps[i].op \in RefundOps
      BY <2>1
    <2>3. Unlisted(steps)
      BY <2>2 DEF Unlisted, Harmless, MakerOps, SweepOps, AskOps, RefundOps
    <2>4. SameReasons
      BY <2>1, SameRows DEF SameReasons
    <2> QED BY <1>1, <2>1, <2>2, <2>3, <2>4, QuietCall
  <1> QED BY <1>2, <1>3

(* The transfers.                                                          *)
LEMMA PayoutsRest ==
  ASSUME NEW h, PayoutsPart(h)
  PROVE  UNCHANGED <<status, paid, recent, refund>>
  <1>1. Paying!PayoutStep(h) \/ Paying!RetryFailed(h)
    BY DEF PayoutsPart
  <1>2. status' = status
    BY <1>1 DEF Paying!PayoutStep, Paying!RetryFailed, Paying!Send, Paying!Wait, Paying!Claim,
       Paying!Created, Paying!RefusedTransfer, Paying!Fail, Paying!Save, Paying!OnConfirmed,
       Paying!OweRent, Paying!OnCancelled, Paying!KeepRent, Paying!Drop, Paying!TakeBack,
       Paying!SaveReversal, Paying!Release, Paying!Unhold, Paying!ReleaseOne,
       Paying!SaveRelease, Paying!SendKept, Paying!CreateKept
  <1> QED BY <1>2 DEF PayoutsPart

LEMMA PayoutCloses ==
  ASSUME PaymentsInv, OneCloser, NEW h \in All, PayoutsPart(h)
  PROVE  OneCloser'
  <1>1. PayoutMove(h)
    BY PayoutHolds
  <1>2. ASSUME NEW steps, PayoutSteps(h, steps) PROVE Unlisted(steps)
    BY <1>2 DEF Unlisted, PayoutSteps, Harmless, MakerOps, SweepOps, AskOps, RowOps, SendOps,
                ReverseOps
  <1>3. (Dropped(h) /\ Others(h)) \/ \E steps : Goes(h, steps) /\ Unlisted(steps)
    BY <1>1, <1>2 DEF PayoutMove
  <1>4. todo[h] # <<>>
    BY <1>1 DEF PayoutMove
  <1>5. SameReasons
    BY PayoutsRest, SameRows DEF SameReasons
  <1> QED BY <1>3, <1>4, <1>5, PayoutsRest, QuietCall

(* Payments' own calls.                                                    *)
LEMMA RowsAndBooking ==
  ASSUME UNCHANGED bookingVars, refund' = refund
  PROVE  recent' = recent /\ status' = status /\ SameReasons
  <1>1. SameReasons
    BY SameRows DEF SameReasons
  <1> QED BY <1>1 DEF bookingVars, bookingRow

QuietOps ==
  {"insertPayment", "capture", "confirm", "markFailed", "answer", "onConfirmed", "catch",
   "refundCredit", "postCredit", "onCancelled", "keepDeposit", "releaseAll", "sendKept",
   "createOrder", "receive"}

LEMMA QuietIsHarmless ==
  ASSUME NEW s, s.op \in QuietOps
  PROVE  Harmless(s)
  BY DEF QuietOps, Harmless, MakerOps, SweepOps, AskOps

LEMMA PayingCloses ==
  ASSUME PaymentsInv, OneCloser, NEW h \in All,
         CreateOrder(h) \/ InsertPayment(h) \/ Capture(h) \/ MarkFailed(h) \/ Receive(h) \/ Answer(h)
  PROVE  OneCloser'
  <1>1. CASE CreateOrder(h)
    <2>1. todo[h] # <<>> /\ Others(h) /\ UNCHANGED <<bookingVars, moneyVars>>
          /\ (Dropped(h) \/ \E s : s.op = "insertPayment" /\ Goes(h, <<s>>))
      BY <1>1, CreateOrderHolds
    <2>2. refund' = refund
      BY <2>1 DEF moneyVars
    <2>3. CASE Dropped(h)
      BY <2>1, <2>2, <2>3, RowsAndBooking, QuietCall
    <2>4. CASE \E s : s.op = "insertPayment" /\ Goes(h, <<s>>)
      <3>1. PICK s : Harmless(s) /\ Goes(h, <<s>>)
        BY <2>4, QuietIsHarmless DEF QuietOps
      <3> QED BY <2>1, <2>2, <3>1, RowsAndBooking, QuietStep
    <2> QED BY <2>1, <2>3, <2>4
  <1>2. CASE InsertPayment(h)
    BY <1>2, InsertPaymentHolds, RowsAndBooking, QuietReturn
  <1>3. CASE Capture(h)
    <2>1. todo[h] # <<>> /\ UNCHANGED bookingVars /\ refund' = refund
          /\ (Goes(h, <<>>) \/ \E s : s.op = "confirm" /\ Goes(h, <<s>>))
      <3>1. ASSUME NEW s, NEW o, s = [op |-> "confirm", order |-> o] PROVE s.op = "confirm"
        BY <3>1
      <3> QED BY <1>3, <3>1, CaptureHolds
    <2>2. CASE Goes(h, <<>>)
      BY <2>1, <2>2, RowsAndBooking, QuietReturn
    <2>3. CASE \E s : s.op = "confirm" /\ Goes(h, <<s>>)
      <3>1. PICK s : Harmless(s) /\ Goes(h, <<s>>)
        BY <2>3, QuietIsHarmless DEF QuietOps
      <3> QED BY <2>1, <3>1, RowsAndBooking, QuietStep
    <2> QED BY <2>1, <2>2, <2>3
  <1>4. CASE MarkFailed(h)
    BY <1>4, MarkFailedHolds, RowsAndBooking, QuietReturn
  <1>5. CASE Receive(h)
    <2>1. todo[h] # <<>> /\ UNCHANGED bookingVars /\ refund' = refund
          /\ (Goes(h, <<>>) \/ \E a, b : /\ a.op \in {"capture", "markFailed"} /\ b.op = "answer"
                                         /\ Goes(h, <<a, b>>))
      BY <1>5, ReceiveHolds DEF moneyVars
    <2>2. CASE Goes(h, <<>>)
      BY <2>1, <2>2, RowsAndBooking, QuietReturn
    <2>3. CASE ~Goes(h, <<>>)
      <3>1. PICK a, b : a.op \in {"capture", "markFailed"} /\ b.op = "answer" /\ Goes(h, <<a, b>>)
        BY <2>1, <2>3
      <3>2. Harmless(a) /\ Harmless(b)
        BY <3>1, QuietIsHarmless DEF QuietOps
      <3> QED BY <2>1, <3>1, <3>2, RowsAndBooking, QuietPair
    <2> QED BY <2>2, <2>3
  <1>6. CASE Answer(h)
    <2>1. UNCHANGED bookingVars /\ refund' = refund
      BY <1>6 DEF Answer, moneyVars
    <2> QED BY <1>6, <2>1, AnswerHolds, RowsAndBooking, QuietReturn
  <1> QED BY <1>1, <1>2, <1>3, <1>4, <1>5, <1>6

LEMMA ConfirmCloses ==
  ASSUME PaymentsInv, OneCloser, NEW h \in All, Confirm(h)
  PROVE  OneCloser'
  <1>1. /\ todo[h] # <<>> /\ recent' = recent /\ refund' = refund
        /\ \/ /\ status = "AWAITING_PAYMENT" /\ status' = "CONFIRMED"
              /\ \E s, u : s.op = "onConfirmed" /\ u.op = "catch" /\ Goes(h, <<s, u>>)
           \/ /\ status # "AWAITING_PAYMENT" /\ status' = status
              /\ \E s \in Asking("LATE_PAYMENT") : Goes(h, <<s>>)
    BY ConfirmHolds DEF moneyVars
  <1>2. SameReasons
    BY <1>1, SameRows DEF SameReasons
  <1>3. CASE status = "AWAITING_PAYMENT"
    <2>1. PICK s, u : s.op = "onConfirmed" /\ u.op = "catch" /\ Goes(h, <<s, u>>)
      BY <1>1, <1>3
    <2>2. Harmless(s) /\ Harmless(u)
      BY <2>1, QuietIsHarmless DEF QuietOps
    <2> QED BY <1>1, <1>2, <1>3, <2>1, <2>2, QuietPair
  <1>4. CASE status # "AWAITING_PAYMENT"
    <2>1. PICK s \in Asking("LATE_PAYMENT") : Goes(h, <<s>>)
      BY <1>1, <1>4
    <2>2. Harmless(s)
      BY <2>1 DEF Asking, Harmless, Reasons, AskOps, MakerOps, SweepOps
    <2> QED BY <1>1, <1>2, <1>4, <2>1, <2>2, QuietStep
  <1> QED BY <1>3, <1>4

(* A call that refunds a cancelled booking puts in front what goes on to   *)
(* do so and, after it, nothing that does.                                 *)
CancelsOn(s) ==
  \/ s.op \in {"findRelease", "releaseCredit"}
  \/ s.op \in AskOps /\ s.kind = "CANCELLATION"

LEMMA CancelGoesOn ==
  ASSUME PaymentsInv, OneCloser, NEW h \in All, todo[h] # <<>>, NEW steps, Moves(h, steps),
         Arg(h) \in Makers("CANCELLATION"),
         Arg(h) \in Decided("CANCELLATION") \/ RefundsFor("CANCELLATION") = {},
         \A i \in 1..Len(steps) : Harmless(steps[i]) \/ (i = 1 /\ CancelsOn(steps[i])),
         recent' = recent, status' = status, SameReasons
  PROVE  OneCloser'
  <1>1. ASSUME NEW s, CancelsOn(s) PROVE s \notin Makers("DEPOSIT_RETURN") /\ s.op \notin SweepOps
    BY <1>1 DEF CancelsOn, Makers, Decided, Asking, DecidedOps, FirstOp, AskOps, SweepOps
  <1>2. "CANCELLATION" \in Reasons /\ "DEPOSIT_RETURN" \in Reasons
        /\ \A k \in Reasons : k # "CANCELLATION" => k = "DEPOSIT_RETURN"
    BY DEF Reasons
  <1>3. One(steps, Makers("CANCELLATION"))
    BY <1>2, HarmlessMakesNothing DEF One
  <1>4. ~Has(steps, Makers("DEPOSIT_RETURN"))
    BY <1>1, <1>2, HarmlessMakesNothing DEF Has
  <1>5. \A i \in 1..Len(steps) : steps[i].op \notin SweepOps
    BY <1>1 DEF Harmless
  <1> QED BY <1>2, <1>3, <1>4, <1>5, OneKindOnly

LEMMA CancelGoesOnWith ==
  ASSUME PaymentsInv, OneCloser, NEW h \in All, todo[h] # <<>>, NEW s, CancelsOn(s), NEW u, Harmless(u),
         Goes(h, <<s>>) \/ Goes(h, <<s, u>>),
         Arg(h) \in Makers("CANCELLATION"),
         Arg(h) \in Decided("CANCELLATION") \/ RefundsFor("CANCELLATION") = {},
         recent' = recent, status' = status, SameReasons
  PROVE  OneCloser'
  <1>1. /\ Len(<<s>>) = 1 /\ <<s>>[1] = s
        /\ Len(<<s, u>>) = 2 /\ <<s, u>>[1] = s /\ <<s, u>>[2] = u
    OBVIOUS
  <1>2. /\ \A i \in 1..Len(<<s>>) : i = 1 /\ CancelsOn(<<s>>[i])
        /\ \A i \in 1..Len(<<s, u>>) : Harmless(<<s, u>>[i]) \/ (i = 1 /\ CancelsOn(<<s, u>>[i]))
    BY <1>1
  <1>3. Lists
    BY DEF PaymentsInv, CallsFit
  <1>4. CASE Goes(h, <<s>>)
    <2>1. Moves(h, <<s>>)
      BY <1>3, <1>4, GoesMoves
    <2> QED BY <1>2, <2>1, CancelGoesOn
  <1>5. CASE Goes(h, <<s, u>>)
    <2>1. Moves(h, <<s, u>>)
      BY <1>3, <1>5, GoesMoves
    <2> QED BY <1>2, <2>1, CancelGoesOn
  <1> QED BY <1>4, <1>5

LEMMA CancellingCloses ==
  ASSUME PaymentsInv, OneCloser, NEW h \in All, RefundCancelled(h) \/ FindRelease(h)
  PROVE  OneCloser'
  <1>1. Arg(h) \in Steps /\ todo[h] # <<>>
    BY HeadPayment DEF RefundCancelled, FindRelease, At
  <1>2. UNCHANGED bookingVars /\ refund' = refund
    BY DEF RefundCancelled, FindRelease, moneyVars
  <1>3. PICK u : Harmless(u)
    <2>1. PICK u : u = [op |-> "onCancelled"]
      OBVIOUS
    <2>2. Harmless(u)
      BY <2>1, QuietIsHarmless DEF QuietOps
    <2> QED BY ONLY <2>2, Zenon
  <1>4. CASE RefundCancelled(h)
    <2>1. Arg(h) \in Makers("CANCELLATION")
      BY <1>1, <1>4 DEF RefundCancelled, At, Arg, Makers, FirstOp
    <2>2. CASE Goes(h, <<>>)
      BY <1>1, <1>2, <2>2, RowsAndBooking, QuietReturn
    <2>3. CASE ~Goes(h, <<>>)
      <3>1. RefundsFor("CANCELLATION") = {}
            /\ \E p \in Orders : Goes(h, <<[op |-> "findRelease", order |-> p]>>)
        BY <1>4, <2>3, RefundCancelledHolds
      <3>2. PICK s : CancelsOn(s) /\ Goes(h, <<s>>)
        <4>1. PICK p \in Orders : Goes(h, <<[op |-> "findRelease", order |-> p]>>)
          BY <3>1
        <4>2. PICK s : s = [op |-> "findRelease", order |-> p]
          OBVIOUS
        <4>3. CancelsOn(s) /\ Goes(h, <<s>>)
          BY <4>1, <4>2 DEF CancelsOn
        <4> QED BY ONLY <4>3, Zenon
      <3> QED BY <1>1, <1>2, <1>3, <2>1, <3>1, <3>2, RowsAndBooking, CancelGoesOnWith
    <2> QED BY <2>2, <2>3
  <1>5. CASE FindRelease(h)
    <2>1. PICK s : s = [op |-> "releaseCredit", order |-> Arg(h).order, found |-> credit]
      OBVIOUS
    <2>2. Goes(h, <<s>>) /\ CancelsOn(s)
      BY <1>5, <2>1, FindReleaseHolds DEF CancelsOn
    <2>3. Arg(h) \in Makers("CANCELLATION") /\ Arg(h) \in Decided("CANCELLATION")
      BY <1>1, <1>5 DEF FindRelease, At, Arg, Makers, Decided, DecidedOps
    <2> QED BY <1>1, <1>2, <1>3, <2>2, <2>3, RowsAndBooking, CancelGoesOnWith
  <1> QED BY <1>4, <1>5

LEMMA ReleaseCloses ==
  ASSUME PaymentsInv, OneCloser, NEW h \in All, ReleaseCredit(h)
  PROVE  OneCloser'
  <1>1. Arg(h) \in Steps /\ todo[h] # <<>>
    BY HeadPayment DEF ReleaseCredit, At
  <1>2. recent' = recent /\ status' = status /\ refund' = refund
    BY DEF ReleaseCredit, moneyVars
  <1>3. SameReasons
    BY <1>2, SameRows DEF SameReasons
  <1>4. Arg(h) \in Makers("CANCELLATION") /\ Arg(h) \in Decided("CANCELLATION")
    BY <1>1 DEF ReleaseCredit, At, Arg, Makers, Decided, DecidedOps
  <1>5. PICK cash, amounts, u :
          /\ u.op = "onCancelled"
          /\ \/ Goes(h, <<[op |-> "refundCredit", amounts |-> amounts]>>)
             \/ Goes(h, <<Refunding!CreateRefund(Arg(h).order, "CANCELLATION", cash, amounts), u>>)
    BY ReleaseCreditHolds
  <1>6. Harmless(u)
    BY <1>5, QuietIsHarmless DEF QuietOps
  <1>7. CASE Goes(h, <<[op |-> "refundCredit", amounts |-> amounts]>>)
    <2>1. PICK s : s = [op |-> "refundCredit", amounts |-> amounts]
      OBVIOUS
    <2>2. Goes(h, <<s>>) /\ Harmless(s)
      BY <1>7, <2>1, QuietIsHarmless DEF QuietOps
    <2> QED BY <1>1, <1>2, <1>3, <2>2, QuietStep
  <1>8. CASE Goes(h, <<Refunding!CreateRefund(Arg(h).order, "CANCELLATION", cash, amounts), u>>)
    <2>1. PICK s : s = Refunding!CreateRefund(Arg(h).order, "CANCELLATION", cash, amounts)
      OBVIOUS
    <2>2. Goes(h, <<s, u>>) /\ CancelsOn(s)
      BY <1>8, <2>1 DEF CancelsOn, Refunding!CreateRefund, AskOps
    <2> QED BY <1>1, <1>2, <1>3, <1>4, <1>6, <2>2, CancelGoesOnWith
  <1> QED BY <1>5, <1>7, <1>8

LEMMA CreditCloses ==
  ASSUME PaymentsInv, OneCloser, NEW h \in All,
         \/ RefundCredit(h) \/ PostCredit(h) \/ KeepDeposit(h)
         \/ Caught(h) /\ UNCHANGED <<bookingVars, moneyVars, gatewayVars, faults>>
  PROVE  OneCloser'
  <1>1. CASE RefundCredit(h)
    <2>1. /\ todo[h] # <<>> /\ UNCHANGED bookingVars /\ refund' = refund
          /\ \/ Goes(h, <<>>)
             \/ \E s, u : s.op = "postCredit" /\ u.op = "onCancelled" /\ Goes(h, <<s, u>>)
      BY <1>1, RefundCreditHolds DEF moneyVars
    <2>2. CASE Goes(h, <<>>)
      BY <2>1, <2>2, RowsAndBooking, QuietReturn
    <2>3. CASE ~Goes(h, <<>>)
      <3>1. PICK s, u : s.op = "postCredit" /\ u.op = "onCancelled" /\ Goes(h, <<s, u>>)
        BY <2>1, <2>3
      <3>2. Harmless(s) /\ Harmless(u)
        BY <3>1, QuietIsHarmless DEF QuietOps
      <3> QED BY <2>1, <3>1, <3>2, RowsAndBooking, QuietPair
    <2> QED BY <2>2, <2>3
  <1>2. CASE PostCredit(h)
    BY <1>2, PostCreditHolds, RowsAndBooking, QuietReturn
  <1>3. CASE KeepDeposit(h)
    BY <1>3, KeepDepositHolds, RowsAndBooking, QuietReturn
  <1>4. CASE Caught(h) /\ UNCHANGED <<bookingVars, moneyVars, gatewayVars, faults>>
    <2>1. todo[h] # <<>> /\ Goes(h, <<>>) /\ UNCHANGED bookingVars /\ refund' = refund
      BY <1>4, CaughtHolds DEF moneyVars
    <2> QED BY <2>1, RowsAndBooking, QuietReturn
  <1> QED BY <1>1, <1>2, <1>3, <1>4

LEMMA SettleCloses ==
  ASSUME PaymentsInv, OneCloser, NEW h \in All, Settle(h)
  PROVE  OneCloser'
  <1>1. todo[h] # <<>> /\ Arg(h).op = "settle" /\ UNCHANGED bookingVars /\ refund' = refund
    BY SettleHolds DEF moneyVars
  <1>2. PICK steps : Goes(h, steps) /\ SettleSteps(steps)
    BY SettleHolds
  <1>3. Moves(h, steps)
    BY <1>2, GoesMoves DEF PaymentsInv, CallsFit
  <1>4. Arg(h) \in Makers("DEPOSIT_RETURN")
    BY <1>1, HeadPayment DEF Makers, FirstOp
  <1>5. ASSUME NEW s PROVE /\ s.op \in SettleParts => /\ \A k \in Reasons : s \notin Makers(k)
                                                     /\ s.op \notin SweepOps
                           /\ s \in Asking("DEPOSIT_RETURN") => /\ s \notin Makers("CANCELLATION")
                                                               /\ s.op \notin SweepOps
    BY DEF Asking, Makers, Decided, DecidedOps, FirstOp, AskOps, SweepOps, SettleParts, Reasons
  <1>6. "CANCELLATION" \in Reasons /\ "DEPOSIT_RETURN" \in Reasons
        /\ \A k \in Reasons : k # "DEPOSIT_RETURN" => k = "CANCELLATION"
    BY DEF Reasons
  <1>7. /\ One(steps, Makers("DEPOSIT_RETURN")) /\ ~Has(steps, Makers("CANCELLATION"))
        /\ \A i \in 1..Len(steps) : steps[i].op \notin SweepOps
    BY <1>2, <1>5, <1>6 DEF One, Has, SettleSteps
  <1>8. Has(steps, Decided("DEPOSIT_RETURN")) => RefundsFor("DEPOSIT_RETURN") = {}
    <2>1. Decided("DEPOSIT_RETURN") \subseteq Makers("DEPOSIT_RETURN")
      BY DEF Makers
    <2> QED BY <1>2, <1>5, <1>6, <2>1 DEF Has, SettleSteps
  <1> QED BY <1>1, <1>3, <1>4, <1>6, <1>7, <1>8, RowsAndBooking, OneKindOnly

LEMMA PaymentCloses ==
  ASSUME PaymentsInv, OneCloser, NEW h \in All, PaymentStep(h)
  PROVE  OneCloser'
  BY PayingCloses, ConfirmCloses, CancellingCloses, ReleaseCloses, CreditCloses, SettleCloses
     DEF PaymentStep

----------------------------------------------------------------------------
(* What starts a refund.  The sweep, when it finds the booking unrefunded, *)
(* is alone: the booking's own call is over by then, and no other call     *)
(* makes such a refund.                                                    *)
LEMMA MakerFits ==
  ASSUME NEW h, NEW s, NEW kind \in Reasons, s \in Makers(kind), Fits(h, s)
  PROVE  /\ MayClose(h) /\ s.op \notin SweepOps
         /\ status = IF kind = "CANCELLATION" THEN "CANCELLED" ELSE "COMPLETED"
  <1>1. /\ s.op \in AskOps /\ s.kind = kind
        \/ s.op \in (IF kind = "CANCELLATION"
                     THEN {"refundCancelled", "findRelease", "releaseCredit"} ELSE {"settle"})
    BY DEF Makers, Decided, Asking, DecidedOps, FirstOp
  <1>2. CASE s.op \in AskOps /\ s.kind = kind
    <2>1. MayClose(h) /\ RefundFits(s)
      BY <1>2 DEF Fits, Reasons
    <2> QED BY <1>2, <2>1 DEF RefundFits, Reasons, AskOps, SweepOps
  <1>3. CASE s.op \in (IF kind = "CANCELLATION"
                       THEN {"refundCancelled", "findRelease", "releaseCredit"} ELSE {"settle"})
    <2>1. s.op \in CancelOps \cup SettleOps /\ s.op \notin SweepOps
      BY <1>3 DEF CancelOps, SettleOps, SweepOps
    <2>2. /\ kind = "CANCELLATION" => s.op \in CancelOps
          /\ kind # "CANCELLATION" => s.op \in SettleOps
      BY <1>3 DEF CancelOps, SettleOps
    <2> QED BY <2>1, <2>2, HeadMayClose
  <1> QED BY <1>1, <1>2, <1>3

LEMMA ListedFits ==
  ASSUME Lists, NEW h \in All, NEW i \in 1..Len(todo[h])
  PROVE  Fits(h, todo[h][i])
  <1>1. PICK q, F : q = todo[h] /\ F = FitSteps(h) /\ q \in Seq(F) /\ i \in 1..Len(q)
    BY CallSeq
  <1>2. q[i] \in F
    BY <1>1
  <1> QED BY <1>1, <1>2 DEF FitSteps

LEMMA SweepAlone ==
  ASSUME PaymentsInv, OneCloser, NEW h \in Workers, Workers = {h}, todo[h] # <<>>,
         Arg(h).op \in SweepOps, ClosedForAMinute, NEW kind \in Reasons
  PROVE  ~Busy(Makers(kind))
  <1> SUFFICES ASSUME NEW g \in All, NEW i \in 1..Len(todo[g]), todo[g][i] \in Makers(kind)
               PROVE  FALSE
    BY DEF Busy, Has
  <1>1. Lists
    BY DEF PaymentsInv, CallsFit
  <1>2. MayClose(g) /\ todo[g][i].op \notin SweepOps
    BY <1>1, ListedFits, MakerFits
  <1>3. CASE g = h
    <2>1. Len(todo[h]) \in Nat /\ todo[h][1] = Arg(h) /\ 1 \in 1..Len(todo[h])
      BY <1>1, CallSeq DEF All
    <2>2. SweepLast(todo[h])
      BY DEF OneCloser, All
    <2>3. i = 1 \/ 1 < i
      BY <1>3, <2>1
    <2> QED BY <1>2, <1>3, <2>1, <2>2, <2>3 DEF SweepLast
  <1>4. CASE g # h
    <2>1. g = Closer /\ Closer \in Requests
      BY <1>2, <1>4 DEF MayClose, All
    <2>2. todo[Closer] # <<>>
      BY <1>1, <2>1, CallSeq
    <2> QED BY <2>1, <2>2 DEF OneCloser, CloserIsRecent, ClosedForAMinute, Free
  <1> QED BY <1>3, <1>4

LEMMA FirstStep ==
  ASSUME OneCloser, NEW h \in All, NEW kind \in Reasons, NEW s \in Steps, s.op = FirstOp(kind),
         Moves(h, <<s>>), ~Busy(Makers(kind)), SameReasons
  PROVE  /\ \A k \in Reasons : RefundOnce(k)'
         /\ \A g \in All : SweepLast(todo'[g])
  <1>1. s.op \in {"refundCancelled", "settle"}
    BY DEF FirstOp
  <1>2. s.op \notin SweepOps
    BY <1>1 DEF SweepOps
  <1>3. \A g \in All : SweepLast(todo'[g])
    <2>1. Len(<<s>>) = 1 /\ <<s>>[1] = s
      OBVIOUS
    <2>2. \A i \in 1..Len(<<s>>) : <<s>>[i].op \notin SweepOps
      BY <1>2, <2>1
    <2> QED BY <2>2, SweepLastKept DEF OneCloser
  <1>4. ASSUME NEW k \in Reasons PROVE Makes(h, <<s>>, k)
    <2>1. s \notin Decided(k) /\ (k # kind => s \notin Makers(k))
      BY <1>1 DEF Decided, Asking, DecidedOps, AskOps, Makers, FirstOp, Reasons
    <2> QED BY <2>1, Contents DEF Makes
  <1>5. \A k \in Reasons : RefundOnce(k)'
    BY <1>4, RefundOnceKept DEF Writes, SameReasons, OneCloser
  <1> QED BY <1>3, <1>5

LEMMA SweepCloses ==
  ASSUME PaymentsInv, OneCloser, NEW w, Workers = {w}, NEW h \in All, SweepStep(h)
  PROVE  OneCloser'
  <1>1. /\ todo[h] # <<>> /\ Arg(h).op \in SweepOps /\ h \in Workers
        /\ UNCHANGED bookingVars /\ refund' = refund
        /\ \/ Goes(h, <<>>)
           \/ /\ ClosedForAMinute
              /\ \E s \in Steps, kind \in Reasons : s.op = FirstOp(kind) /\ Goes(h, <<s>>)
    <2>1. CASE SweepMissed(h)
      <3>1. /\ todo[h] # <<>> /\ Arg(h).op \in SweepOps /\ h \in Workers
            /\ UNCHANGED bookingVars /\ refund' = refund
            /\ Goes(h, <<>>) \/ /\ ClosedForAMinute
                                /\ \E s \in Steps : s.op = "refundCancelled" /\ Goes(h, <<s>>)
        BY <2>1, SweepMissedHolds DEF SweepOps, moneyVars
      <3>2. "CANCELLATION" \in Reasons /\ FirstOp("CANCELLATION") = "refundCancelled"
        BY DEF Reasons, FirstOp
      <3> QED BY <3>1, <3>2, Zenon
    <2>2. CASE SweepUnsettled(h)
      <3>1. /\ todo[h] # <<>> /\ Arg(h).op \in SweepOps /\ h \in Workers
            /\ UNCHANGED bookingVars /\ refund' = refund
            /\ Goes(h, <<>>) \/ /\ ClosedForAMinute
                                /\ \E s \in Steps : s.op = "settle" /\ Goes(h, <<s>>)
        BY <2>2, SweepUnsettledHolds DEF SweepOps, moneyVars
      <3>2. "DEPOSIT_RETURN" \in Reasons /\ FirstOp("DEPOSIT_RETURN") = "settle"
        BY DEF Reasons, FirstOp
      <3> QED BY <3>1, <3>2, Zenon
    <2> QED BY <2>1, <2>2 DEF SweepStep
  <1>2. recent' = recent /\ status' = status /\ SameReasons
    BY <1>1, RowsAndBooking
  <1>3. CASE Goes(h, <<>>)
    BY <1>1, <1>2, <1>3, QuietReturn
  <1>4. CASE ~Goes(h, <<>>)
    <2>1. PICK s \in Steps, kind \in Reasons : s.op = FirstOp(kind) /\ Goes(h, <<s>>)
      BY <1>1, <1>4
    <2>2. Moves(h, <<s>>)
      BY <2>1, GoesMoves DEF PaymentsInv, CallsFit
    <2>3. ~Busy(Makers(kind))
      BY <1>1, <1>4, SweepAlone
    <2>4. BookingGoesOn(h)
      BY <1>1, <1>2 DEF BookingGoesOn
    <2>5. CloserIsRecent'
      BY <2>2, <2>4, CloserStays DEF Moves, OneCloser
    <2> QED BY <1>1, <1>2, <1>4, <2>1, <2>2, <2>3, <2>5, FirstStep DEF OneCloser
  <1> QED BY <1>3, <1>4

(* A booking that closes has no refund for that yet, nor a call about one. *)
LEMMA ClosingCloses ==
  ASSUME PaymentsInv, OneCloser, Cancel \/ Complete
  PROVE  OneCloser'
  <1>1. /\ PaymentsInv' /\ Closer \in Requests /\ Closer \in All /\ todo[Closer] = <<>>
        /\ Others(Closer) /\ recent' = InProgress \cup {Closer} /\ status = "CONFIRMED"
        /\ refund' = refund
    BY CloseHolds DEF moneyVars
  <1>2. PICK s \in Steps, kind \in Reasons :
          todo'[Closer] = <<s>> /\ s.op = FirstOp(kind) /\ status' \in {"CANCELLED", "COMPLETED"}
    <2>1. PICK s \in Steps : /\ todo'[Closer] = <<s>>
                             /\ \/ s.op = "refundCancelled" /\ status' = "CANCELLED"
                                \/ s.op = "settle" /\ status' = "COMPLETED"
      BY CloseHolds
    <2>2. "CANCELLATION" \in Reasons /\ FirstOp("CANCELLATION") = "refundCancelled"
          /\ "DEPOSIT_RETURN" \in Reasons /\ FirstOp("DEPOSIT_RETURN") = "settle"
      BY DEF Reasons, FirstOp
    <2>3. status' \in {"CANCELLED", "COMPLETED"}
      BY <2>1
    <2> QED BY <2>1, <2>2, <2>3, Zenon
  <1>3. Lists /\ Lists'
    BY <1>1 DEF PaymentsInv, CallsFit
  <1>4. Moves(Closer, <<s>>)
    BY <1>1, <1>2, <1>3, StartMoves
  <1>5. ~Busy(Makers(kind))
    BY <1>1, <1>3, ListedFits, MakerFits DEF Busy, Has
  <1>6. SameReasons
    BY <1>1, SameRows DEF SameReasons
  <1>7. CloserIsRecent'
    BY <1>1, <1>2 DEF CloserIsRecent
  <1> QED BY <1>1, <1>2, <1>4, <1>5, <1>6, <1>7, FirstStep DEF OneCloser

(* The other starts lead to no such refund.                                *)
LEMMA StartCloses ==
  ASSUME PaymentsInv, PaymentsInv', OneCloser, NEW h \in All, todo[h] = <<>>, Others(h),
         recent' = recent \ {h}, h # Closer \/ h \in Workers,
         UNCHANGED <<bookingRow, moneyVars, gatewayVars, faults>>,
         NEW steps, todo'[h] = steps,
         Unlisted(steps) \/ \A i \in 1..Len(steps) : steps[i].op \in SweepOps
  PROVE  OneCloser'
  <1>1. Moves(h, steps)
    BY StartMoves DEF PaymentsInv, CallsFit
  <1>2. h = Closer => h \notin Requests
    BY HandlersAssumption
  <1>3. BookingGoesOn(h) /\ SameReasons
    <2>1. refund' = refund /\ status' = status
      BY DEF moneyVars, bookingRow
    <2> QED BY <1>2, <2>1, SameRows DEF BookingGoesOn, SameReasons
  <1>4. CASE Unlisted(steps)
    BY <1>1, <1>3, <1>4, HarmlessKept
  <1>5. CASE \A i \in 1..Len(steps) : steps[i].op \in SweepOps
    <2>1. ASSUME NEW kind \in Reasons PROVE Makes(h, steps, kind) /\ Writes(h, steps, kind)
      <3>1. \A i \in 1..Len(steps) : steps[i] \notin Makers(kind)
        BY <1>5 DEF Makers, Decided, Asking, DecidedOps, FirstOp, AskOps, SweepOps
      <3>2. ~Has(steps, Makers(kind)) /\ ~Has(steps, Decided(kind)) /\ One(steps, Makers(kind))
        BY <3>1 DEF Has, One, Makers
      <3> QED BY <1>3, <3>2 DEF Makes, Writes, SameReasons
    <2> QED BY <1>1, <1>3, <1>5, <2>1, OneCloserKept
  <1> QED BY <1>4, <1>5

LEMMA StartsClose ==
  ASSUME PaymentsInv, OneCloser, NEW h \in All,
         \/ Checkout(h) \/ Sweep(h)
         \/ \E o \in Orders : Verify(h, o)
         \/ \E e \in Events : Webhook(h, e)
         \/ \E p \in Unrefunded, amount \in GoodwillGiven : GiveGoodwill(h, p, amount)
  PROVE  OneCloser'
  <1>1. ASSUME NEW s, s.op \in QuietOps \/ (s.op = "createRefund" /\ s.kind = "MANUAL")
        PROVE  Harmless(s)
    BY <1>1, QuietIsHarmless DEF Harmless, MakerOps, SweepOps, AskOps, Reasons
  <1>2. CASE ~Sweep(h)
    <2>1. /\ PaymentsInv' /\ todo[h] = <<>> /\ Others(h) /\ recent' = recent \ {h} /\ ~MayClose(h)
          /\ UNCHANGED <<bookingRow, moneyVars, gatewayVars, faults>>
          /\ \E s : /\ s.op \in QuietOps \/ (s.op = "createRefund" /\ s.kind = "MANUAL")
                    /\ todo'[h] = <<s>>
      BY <1>2, CheckoutHolds, VerifyHolds, WebhookHolds, GoodwillHolds DEF QuietOps
    <2>2. PICK s : Harmless(s) /\ todo'[h] = <<s>>
      BY <1>1, <2>1
    <2>3. Unlisted(<<s>>)
      BY <2>2, Short
    <2> QED BY <2>1, <2>2, <2>3, StartCloses DEF MayClose
  <1>3. CASE Sweep(h)
    <2>1. PICK steps : steps = <<[op |-> "sweepMissed"], [op |-> "sweepUnsettled"],
                                 [op |-> "retryRefunds"], [op |-> "retryTransfers"]>>
      OBVIOUS
    <2>2. \A i \in 1..Len(steps) : steps[i].op \in SweepOps
      BY <2>1 DEF SweepOps
    <2> QED BY <1>3, <2>1, <2>2, SweepHolds, StartCloses
  <1> QED BY <1>2, <1>3

(* What moves no call.                                                     *)
LEMMA StillCloses ==
  ASSUME OneCloser, todo' = todo, SameReasons, CloserIsRecent'
  PROVE  OneCloser'
  <1>1. ASSUME NEW kind \in Reasons PROVE RefundOnce(kind)'
    <2>1. PICK M, D, R : M = Makers(kind) /\ D = Decided(kind) /\ R = RefundsFor(kind)
      OBVIOUS
    <2>2. AtMostOne(M) /\ (Busy(D) => R = {}) /\ \A r, u \in R : r = u
      BY <2>1 DEF OneCloser, RefundOnce
    <2>3. AtMostOne(M)' /\ (Busy(D)' <=> Busy(D))
      BY <2>2 DEF AtMostOne, Busy
    <2>4. AtMostOne(Makers(kind))' /\ (Busy(Decided(kind))' <=> Busy(D))
      BY <2>1, <2>3 DEF Makers, Decided, Asking
    <2>5. RefundsFor(kind)' = R
      BY <2>1 DEF SameReasons
    <2> QED BY <2>2, <2>4, <2>5 DEF RefundOnce
  <1>2. \A h \in All : SweepLast(todo'[h])
    BY DEF OneCloser
  <1> QED BY <1>1, <1>2 DEF OneCloser

LEMMA GatewayCloses ==
  ASSUME PaymentsInv, OneCloser,
         \/ \E o \in Orders : Pay(o) \/ FailedAttempt(o)
         \/ \E to \in UnpaidCloses : CloseUnpaid(to)
         \/ \E r \in Refunding!RefundIds, ok \in BOOLEAN : RefundSettled(r, ok)
         \/ UNCHANGED vars
  PROVE  OneCloser'
  <1>1. CASE \E r \in Refunding!RefundIds, ok \in BOOLEAN : RefundSettled(r, ok)
    <2>1. PICK r \in RefundIds, ok \in BOOLEAN : RefundSettled(r, ok)
      BY <1>1, Ids
    <2>2. todo' = todo /\ recent' = recent /\ status' = status
      BY <2>1 DEF RefundSettled, Refunding!Settle, bookingVars, bookingRow
    <2>3. SameReasons
      BY <2>1, SettledHolds, SameRows DEF SameReasons
    <2>4. CloserIsRecent'
      BY <2>2 DEF OneCloser, CloserIsRecent
    <2> QED BY <2>2, <2>3, <2>4, StillCloses
  <1>2. CASE \E to \in UnpaidCloses : CloseUnpaid(to)
    <2>1. status = "AWAITING_PAYMENT" /\ todo' = todo /\ refund' = refund
      BY <1>2 DEF CloseUnpaid, moneyVars
    <2>2. CloserIsRecent'
      BY <2>1 DEF OneCloser, CloserIsRecent
    <2>3. SameReasons
      BY <2>1, SameRows DEF SameReasons
    <2> QED BY <2>1, <2>2, <2>3, StillCloses
  <1>3. CASE (\E o \in Orders : Pay(o) \/ FailedAttempt(o)) \/ UNCHANGED vars
    <2>1. UNCHANGED <<bookingVars, moneyVars, todo>>
      BY <1>3 DEF Pay, FailedAttempt, vars
    <2>2. todo' = todo /\ recent' = recent /\ status' = status /\ refund' = refund
      BY <2>1 DEF bookingVars, bookingRow, moneyVars
    <2>3. CloserIsRecent' /\ SameReasons
      BY <2>2, SameRows DEF OneCloser, CloserIsRecent, SameReasons
    <2> QED BY <2>2, <2>3, StillCloses
  <1> QED BY <1>1, <1>2, <1>3

LEMMA EmptyLists ==
  ASSUME NEW S
  PROVE  ~Has(<<>>, S) /\ One(<<>>, S) /\ SweepLast(<<>>)
  <1>1. Len(<<>>) = 0
    OBVIOUS
  <1> QED BY <1>1 DEF Has, One, SweepLast

LEMMA RestartCloses ==
  ASSUME PaymentsInv, OneCloser, Crash
  PROVE  OneCloser'
  <1>1. refund' = refund /\ \A h \in All : todo'[h] = <<>>
    BY CrashHolds DEF moneyVars
  <1>2. ASSUME NEW kind \in Reasons PROVE RefundOnce(kind)'
    <2>1. RefundsFor(kind)' = RefundsFor(kind)
      BY <1>1, SameRows
    <2>2. AtMostOne(Makers(kind))' /\ ~Busy(Decided(kind))'
      BY <1>1, EmptyLists DEF AtMostOne, Busy
    <2> QED BY <2>1, <2>2 DEF OneCloser, RefundOnce
  <1>3. CloserIsRecent'
    BY <1>1 DEF CloserIsRecent, All
  <1> QED BY <1>1, <1>2, <1>3, EmptyLists DEF OneCloser

LEMMA InitCloses ==
  ASSUME Init
  PROVE  OneCloser
  <1>1. (\A h \in All : todo[h] = <<>>) /\ \A r \in RefundIds : refund[r].kind \notin Reasons
    BY Ids DEF Init, HandlersInit, Refunding!NoRefund, Reasons
  <1>2. ASSUME NEW kind \in Reasons PROVE RefundOnce(kind)
    <2>1. RefundsFor(kind) = {}
      BY <1>1, Ids DEF RefundsFor
    <2>2. AtMostOne(Makers(kind)) /\ ~Busy(Decided(kind))
      BY <1>1, EmptyLists DEF AtMostOne, Busy
    <2> QED BY <2>1, <2>2 DEF RefundOnce
  <1>3. CloserIsRecent
    BY <1>1 DEF CloserIsRecent, All
  <1> QED BY <1>1, <1>2, <1>3, EmptyLists DEF OneCloser

LEMMA NextCloses ==
  ASSUME PaymentsInv, OneCloser, NEW w, Workers = {w}, [Next]_vars
  PROVE  OneCloser'
  <1>1. CASE \E h \in All : Step(h)
    BY <1>1, PaymentCloses, SweepCloses, RefundCloses, PayoutCloses DEF Step
  <1>2. CASE \E h \in All : \/ Checkout(h) \/ Sweep(h)
                            \/ \E o \in Orders : Verify(h, o)
                            \/ \E e \in Events : Webhook(h, e)
                            \/ \E p \in Unrefunded, amount \in GoodwillGiven : GiveGoodwill(h, p, amount)
    BY <1>2, StartsClose
  <1>3. CASE Cancel \/ Complete
    BY <1>3, ClosingCloses
  <1>4. CASE Crash
    BY <1>4, RestartCloses
  <1>5. CASE \/ \E o \in Orders : Pay(o) \/ FailedAttempt(o)
             \/ \E to \in UnpaidCloses : CloseUnpaid(to)
             \/ \E r \in Refunding!RefundIds, ok \in BOOLEAN : RefundSettled(r, ok)
             \/ UNCHANGED vars
    BY <1>5, GatewayCloses
  <1> QED BY <1>1, <1>2, <1>3, <1>4, <1>5 DEF Next

(* Where one process runs the sweep, as deployed, one call at a time is    *)
(* about to refund the booking's cancellation or to return its deposit,    *)
(* and only while no refund of that kind exists: a cancelled booking is    *)
(* refunded once and a deposit is returned once, by the listener or by the *)
(* sweep, whatever calls, webhooks, failures and restarts overlap          *)
(* (payments.service.ts, refundCancelled, settle and sweep).               *)
THEOREM RefundedOncePerReason ==
  ASSUME NEW w, Workers = {w}
  PROVE  Spec => []OneRefundPerReason
  <1>1. Init => OneCloser
    BY InitCloses
  <1>2. PaymentsInv /\ OneCloser /\ [Next]_vars => OneCloser'
    BY NextCloses
  <1>3. OneCloser => OneRefundPerReason
    <2> SUFFICES ASSUME OneCloser, NEW kind \in Reasons
                 PROVE  Cardinality(RefundsFor(kind)) <= 1
      BY DEF OneRefundPerReason, Reasons
    <2>1. \A r, u \in RefundsFor(kind) : r = u
      BY DEF OneCloser, RefundOnce
    <2>2. CASE RefundsFor(kind) = {}
      BY <2>2, FS_EmptySet
    <2>3. CASE RefundsFor(kind) # {}
      <3>1. PICK r : RefundsFor(kind) = {r}
        BY <2>1, <2>3
      <3> QED BY <3>1, FS_Singleton
    <2> QED BY <2>2, <2>3
  <1> QED BY <1>1, <1>2, <1>3, PaymentsStayFit, PTL DEF Spec

----------------------------------------------------------------------------
(* Whether the booking was paid.  It is said when a payment confirms it,   *)
(* and of a booking that was cancelled before it never.                    *)
LEMMA PaidGoesOn ==
  ASSUME PaymentsInv, PaidFits, [Next]_vars
  PROVE  PaidFits' /\ (Off => Off')
  <1>1. CASE \E h \in All : Step(h)
    <2>1. PICK h \in All : Step(h)
      BY <1>1
    <2>2. \/ UNCHANGED <<status, paid>>
          \/ status = "AWAITING_PAYMENT" /\ status' = "CONFIRMED" /\ paid' = TRUE
      <3>1. CASE PaymentStep(h) \/ SweepStep(h)
        BY <3>1 DEF PaymentStep, SweepStep, CreateOrder, InsertPayment, Capture, Confirm, Waiting,
           MarkFailed, Receive, Answer, RefundCancelled, FindRelease, ReleaseCredit, RefundCredit,
           PostCredit, Settle, KeepDeposit, SweepMissed, SweepUnsettled, bookingVars, bookingRow
      <3>2. CASE RefundsPart(h)
        BY <3>2 DEF RefundsPart, bookingVars, bookingRow
      <3>3. CASE PayoutsPart(h)
        BY <3>3, PayoutsRest
      <3> QED BY <2>1, <3>1, <3>2, <3>3 DEF Step
    <2>3. CASE UNCHANGED <<status, paid>>
      BY <2>3 DEF PaidFits, Paid, Off
    <2>4. CASE status = "AWAITING_PAYMENT" /\ status' = "CONFIRMED" /\ paid' = TRUE
      <3>1. paid' \in BOOLEAN /\ Paid'
        BY <2>4 DEF Paid
      <3> QED BY <2>4, <3>1 DEF PaidFits, Off
    <2> QED BY <2>2, <2>3, <2>4
  <1>2. CASE \E h \in All : \/ Checkout(h) \/ Sweep(h)
                            \/ \E o \in Orders : Verify(h, o)
                            \/ \E e \in Events : Webhook(h, e)
                            \/ \E p \in Unrefunded, amount \in GoodwillGiven : GiveGoodwill(h, p, amount)
    <2>1. UNCHANGED <<status, paid>>
      BY <1>2 DEF Checkout, Sweep, Verify, Webhook, GiveGoodwill, bookingRow
    <2> QED BY <2>1 DEF PaidFits, Paid, Off
  <1>3. CASE Cancel \/ Complete
    BY <1>3 DEF Cancel, Complete, Closes, PaidFits, Paid, Off
  <1>4. CASE \E to \in UnpaidCloses : CloseUnpaid(to)
    BY <1>4, PaymentsAssumption DEF CloseUnpaid, PaidFits, Paid, Off
  <1>5. CASE \/ Crash
             \/ \E o \in Orders : Pay(o) \/ FailedAttempt(o)
             \/ \E r \in Refunding!RefundIds, ok \in BOOLEAN : RefundSettled(r, ok)
             \/ UNCHANGED vars
    <2>1. UNCHANGED <<status, paid>>
      BY <1>5 DEF Crash, Pay, FailedAttempt, RefundSettled, bookingVars, bookingRow, vars
    <2> QED BY <2>1 DEF PaidFits, Paid, Off
  <1> QED BY <1>1, <1>2, <1>3, <1>4, <1>5 DEF Next

LEMMA NotPaidYet ==
  ASSUME Init
  PROVE  PaidFits
  BY DEF Init, PaidFits, Paid

----------------------------------------------------------------------------
(* The deposit.  Once a call has made a step, no call has it any more.     *)
LEMMA MovedAway ==
  ASSUME NEW S, AtMostOne(S), NEW h \in All, NEW steps, Moves(h, steps),
         todo[h] # <<>>, Arg(h) \in S, ~Has(steps, S)
  PROVE  \A g \in All : ~Has(todo'[g], S)
  <1>1. Len(todo[h]) \in Nat /\ Len(todo[h]) > 0 /\ todo[h][1] = Arg(h) /\ 1 \in 1..Len(todo[h])
    BY DEF Moves
  <1>2. Has(todo[h], S)
    BY <1>1 DEF Has
  <1> SUFFICES ASSUME NEW g \in All PROVE ~Has(todo'[g], S)
    OBVIOUS
  <1>3. CASE g # h
    BY <1>2, <1>3 DEF AtMostOne, Moves, Others
  <1>4. CASE g = h
    <2> SUFFICES ASSUME NEW i \in 1..Len(todo'[h]), todo'[h][i] \in S PROVE FALSE
      BY <1>4 DEF Has
    <2>1. ~(i \in 1..Len(steps) /\ todo'[h][i] = steps[i])
      BY DEF Has
    <2>2. PICK j \in 1..Len(todo[h]) : todo'[h][i] = todo[h][j] /\ j > 1
      BY <2>1, MovedIndex
    <2> QED BY <1>1, <2>2 DEF AtMostOne, One
  <1> QED BY <1>3, <1>4

(* Each refund row is the business of one call: it passes it on, is done   *)
(* with it, or takes up a row that no call was about.                      *)
ApartGoes(h, steps, r) ==
  /\ One(steps, About(r))
  /\ \/ /\ refund'[r].sent = refund[r].sent /\ refund'[r].status = refund[r].status
        /\ Has(steps, About(r)) => todo[h] # <<>> /\ Arg(h) \in About(r)
     \/ todo[h] # <<>> /\ Arg(h) \in About(r) /\ ~Has(steps, About(r))
     \/ /\ ~Busy(About(r)) /\ refund'[r].sent = FALSE
        /\ h \notin Workers => refund'[r].status = "PENDING"

LEMMA ApartKept ==
  ASSUME NEW r, Apart(r), NEW h \in All, NEW steps, Moves(h, steps), ApartGoes(h, steps, r)
  PROVE  Apart(r)'
  <1>1. PICK A : A = About(r)
    OBVIOUS
  <1>2. AtMostOne(A) /\ One(steps, A)
    BY <1>1 DEF Apart, ApartGoes
  <1>3. /\ AtMostOne(A)'
        /\ \A g \in All : Has(todo'[g], A) => /\ refund'[r].sent = FALSE
                                              /\ g \notin Workers => refund'[r].status = "PENDING"
    <2>1. CASE /\ refund'[r].sent = refund[r].sent /\ refund'[r].status = refund[r].status
               /\ Has(steps, A) => todo[h] # <<>> /\ Arg(h) \in A
      <3>1. AtMostOne(A)'
        BY <1>2, <2>1, MovedOnce
      <3>2. ASSUME NEW g \in All, Has(todo'[g], A) PROVE Has(todo[g], A)
        <4>1. g # h => Has(todo[g], A)
          BY <3>2 DEF Moves, Others
        <4>2. todo[h] # <<>> /\ Arg(h) \in A => Has(todo[h], A)
          <5>1. todo[h] # <<>> => 1 \in 1..Len(todo[h]) /\ todo[h][1] = Arg(h)
            BY DEF Moves
          <5> QED BY <5>1 DEF Has
        <4>3. g = h => Has(steps, A) \/ Has(todo[h], A)
          BY <3>2, MovedHas
        <4> QED BY <2>1, <4>1, <4>2, <4>3
      <3> QED BY <1>1, <2>1, <3>1, <3>2 DEF Apart
    <2>2. CASE todo[h] # <<>> /\ Arg(h) \in A /\ ~Has(steps, A)
      <3>1. \A g \in All : ~Has(todo'[g], A)
        BY <1>2, <2>2, MovedAway
      <3>2. AtMostOne(A)'
        BY <1>2, <2>2, MovedOnce
      <3> QED BY <3>1, <3>2
    <2>3. CASE /\ ~Busy(A) /\ refund'[r].sent = FALSE
               /\ h \notin Workers => refund'[r].status = "PENDING"
      <3>1. AtMostOne(A)'
        BY <1>2, <2>3, MovedOnce
      <3>2. \A g \in All : g # h => ~Has(todo'[g], A)
        BY <2>3 DEF Busy, Moves, Others
      <3> QED BY <2>3, <3>1, <3>2
    <2> QED BY <1>1, <2>1, <2>2, <2>3 DEF ApartGoes
  <1>4. AtMostOne(About(r))' /\ \A g \in All : Has(todo[g], About(r))' <=> Has(todo'[g], A)
    BY <1>1, <1>3 DEF About
  <1> QED BY <1>3, <1>4 DEF Apart

(* A payment that came too late has one refund: its capture leads to it,   *)
(* and no other step does.                                                 *)
LateGoes(h, steps, o) ==
  /\ One(steps, Late(o))
  /\ Has(steps, Late(o)) => \/ todo[h] # <<>> /\ Arg(h) \in Late(o)
                            \/ o \notin Captured /\ o \in Captured'
  /\ \/ LateRows(o)' = LateRows(o)
     \/ /\ todo[h] # <<>> /\ Arg(h) \in Late(o) /\ ~Has(steps, Late(o))
        /\ \E r : LateRows(o)' \subseteq LateRows(o) \cup {r}

LEMMA LateKept ==
  ASSUME CallsFit, NEW o \in Orders, LateOnce(o), NEW h \in All, NEW steps, Moves(h, steps),
         o \in Captured => o \in Captured', LateGoes(h, steps, o)
  PROVE  LateOnce(o)' /\ (InTime(o) => InTime(o)')
  <1>1. PICK L : L = Late(o)
    OBVIOUS
  <1>2. /\ AtMostOne(L) /\ One(steps, L)
        /\ Busy(L) => o \in Captured /\ LateRows(o) = {}
        /\ \A r, u \in LateRows(o) : r = u
    BY <1>1 DEF LateOnce, LateGoes
  <1>3. o \notin Captured => LateRows(o) = {}
    <2>1. \A r \in RefundIds : refund[r].kind = "LATE_PAYMENT" => refund[r].payment \in Captured
      BY DEF CallsFit, RefundRowsFit, RefundFits, Refunding!NoRefund
    <2> QED BY <2>1 DEF LateRows
  <1>4. todo[h] # <<>> /\ Arg(h) \in L => Busy(L)
    <2>1. todo[h] # <<>> => 1 \in 1..Len(todo[h]) /\ todo[h][1] = Arg(h)
      BY DEF Moves
    <2> QED BY <2>1 DEF Has, Busy
  <1>5. AtMostOne(L)'
    BY <1>1, <1>2, MovedOnce DEF LateGoes
  <1>6. ASSUME NEW g \in All, Has(todo'[g], L)
        PROVE  Busy(L) \/ (Has(steps, L) /\ o \notin Captured /\ o \in Captured')
    <2>1. g # h => Has(todo[g], L)
      BY <1>6 DEF Moves, Others
    <2>2. g = h => Has(steps, L) \/ Has(todo[h], L)
      BY <1>6, MovedHas
    <2>3. Has(steps, L) => Busy(L) \/ (o \notin Captured /\ o \in Captured')
      BY <1>1, <1>4 DEF LateGoes
    <2> QED BY <2>1, <2>2, <2>3 DEF Busy
  <1>7. (\E g \in All : Has(todo'[g], L)) => o \in Captured' /\ LateRows(o)' = {}
    <2> SUFFICES ASSUME NEW g \in All, Has(todo'[g], L)
                 PROVE  o \in Captured' /\ LateRows(o)' = {}
      OBVIOUS
    <2>1. o \in Captured' /\ LateRows(o) = {}
      BY <1>2, <1>3, <1>6
    <2>2. ~(todo[h] # <<>> /\ Arg(h) \in L /\ ~Has(steps, L))
      BY <1>2, MovedAway
    <2> QED BY <1>1, <2>1, <2>2 DEF LateGoes
  <1>8. \A r, u \in LateRows(o)' : r = u
    BY <1>1, <1>2, <1>4 DEF LateGoes
  <1>9. AtMostOne(Late(o))' /\ (Busy(Late(o))' <=> \E g \in All : Has(todo'[g], L))
    BY <1>1, <1>5 DEF Late, Asking, Busy
  <1>10. InTime(o) => InTime(o)'
    <2> SUFFICES ASSUME InTime(o) PROVE InTime(o)'
      OBVIOUS
    <2>1. o \in Captured /\ LateRows(o) = {} /\ ~Busy(L)
      BY <1>1 DEF InTime
    <2>2. LateRows(o)' = {}
      BY <1>1, <1>4, <2>1 DEF LateGoes
    <2>3. \A g \in All : ~Has(todo'[g], L)
      BY <1>6, <2>1
    <2> QED BY <1>9, <2>1, <2>2, <2>3 DEF InTime
  <1> QED BY <1>7, <1>8, <1>9, <1>10 DEF LateOnce

(* Referral credit: what a call that cancels the booking reads and carries *)
(* is what the policy gives back or nothing.                               *)
LEMMA LaterOf ==
  ASSUME Lists, NEW h \in All, NEW j \in 1..Len(todo[h]), j > 1
  PROVE  todo[h][j] \in LaterSteps(h)
  <1>1. PICK q, F, L : q = todo[h] /\ F = FitSteps(h) /\ L = LaterSteps(h) /\ q \in ListsOf(F, L)
    BY DEF Lists
  <1>2. q \in Seq(F) /\ q # <<>> /\ Len(q) \in Nat /\ Tail(q) \in Seq(L)
    BY <1>1 DEF ListsOf
  <1>3. j - 1 \in 1..Len(Tail(q)) /\ Tail(q)[j - 1] = q[j]
    BY <1>1, <1>2
  <1>4. Tail(q)[j - 1] \in L
    BY <1>2, <1>3
  <1> QED BY <1>1, <1>3, <1>4

LEMMA HeadGoes ==
  ASSUME Lists, Lists', NEW h \in All, NEW steps, Moves(h, steps), todo'[h] # <<>>
  PROVE  (1 \in 1..Len(steps) /\ Head(todo'[h]) = steps[1]) \/ Head(todo'[h]).op \in LaterOps
  <1>1. PICK q, F : q = todo'[h] /\ F = FitSteps(h)' /\ q \in Seq(F)
    BY DEF Lists, ListsOf
  <1>2. 1 \in 1..Len(q) /\ Head(q) = q[1]
    BY <1>1
  <1>3. CASE 1 \in 1..Len(steps) /\ q[1] = steps[1]
    BY <1>1, <1>2, <1>3
  <1>4. CASE ~(1 \in 1..Len(steps) /\ q[1] = steps[1])
    <2>1. PICK j \in 1..Len(todo[h]) : q[1] = todo[h][j] /\ (todo[h] # <<>> => j > 1)
      BY <1>1, <1>2, <1>4, MovedIndex
    <2>2. todo[h] # <<>>
      BY <2>1, CallSeq
    <2>3. todo[h][j] \in LaterSteps(h)
      BY <2>1, <2>2, LaterOf
    <2> QED BY <1>1, <1>2, <2>1, <2>3 DEF LaterSteps
  <1> QED BY <1>3, <1>4

LEMMA CreditKept ==
  ASSUME Lists, Lists', CreditFits, NEW h \in All, NEW steps, Moves(h, steps), tier' = tier,
         CreditStands', 1 \in 1..Len(steps) => HeadCredit(steps[1])
  PROVE  CreditFits'
  <1>1. PICK C : C = CreditsBack /\ CreditsBack' = C
    BY DEF CreditsBack, Refund, NoRelease
  <1>2. ASSUME NEW g \in All, todo'[g] # <<>>
        PROVE  /\ Head(todo'[g]).op = "releaseCredit" => Head(todo'[g]).found \in C
               /\ Head(todo'[g]).op \in {"refundCredit", "postCredit"} =>
                    Head(todo'[g]).amounts.deposit = 0
    <2>1. CASE g # h
      BY <1>1, <1>2, <2>1 DEF Moves, Others, CreditFits, HeadCredit
    <2>2. CASE g = h
      <3>1. (1 \in 1..Len(steps) /\ Head(todo'[h]) = steps[1]) \/ Head(todo'[h]).op \in LaterOps
        BY <1>2, <2>2, HeadGoes
      <3> QED BY <1>1, <2>2, <3>1 DEF HeadCredit, LaterOps
    <2> QED BY <2>1, <2>2
  <1> QED BY <1>1, <1>2 DEF CreditFits, HeadCredit

(* What is held, and what was given back.                                  *)
RowStays(r) ==
  /\ refund'[r].kind = refund[r].kind /\ refund'[r].payment = refund[r].payment
  /\ refund'[r].sent = refund[r].sent /\ refund'[r].status = refund[r].status

LEMMA HeldStays ==
  ASSUME Captured' = Captured,
         \A r \in RefundIds :
           \/ /\ refund'[r].kind = refund[r].kind /\ refund'[r].payment = refund[r].payment
              /\ refund'[r].sent = refund[r].sent
           \/ refund[r] = Refunding!NoRefund /\ refund'[r].sent = FALSE
  PROVE  Held' = Held /\ \A kind \in Reasons : SentFor(kind)' <=> SentFor(kind)
  <1>1. Refunding!NoRefund.kind = "NONE" /\ Refunding!NoRefund.sent = FALSE
    BY DEF Refunding!NoRefund
  <1>2. \A o \in Orders : (\A r \in LateRows(o) : refund[r].sent = FALSE)'
                            <=> \A r \in LateRows(o) : refund[r].sent = FALSE
    BY <1>1 DEF LateRows
  <1>3. \A o \in Orders : HeldOf(o)' = HeldOf(o)
    BY <1>2 DEF HeldOf
  <1>4. [o \in Orders |-> HeldOf(o)'] = [o \in Orders |-> HeldOf(o)]
    BY <1>3
  <1>5. Held' = Held
    BY <1>4 DEF Held
  <1>6. \A kind \in Reasons : SentFor(kind)' <=> SentFor(kind)
    BY <1>1, Ids DEF SentFor, RefundsFor
  <1> QED BY <1>5, <1>6

LEMMA BooksStay ==
  ASSUME HeldOnBooks, Held' = Held, \A kind \in Reasons : SentFor(kind)' <=> SentFor(kind),
         kept' = kept, journal' \cap {"DEPOSIT_KEPT"} = journal \cap {"DEPOSIT_KEPT"},
         books'.DEPOSIT_HELD = books.DEPOSIT_HELD
  PROVE  HeldOnBooks'
  <1>1. SentFor("CANCELLATION")' <=> SentFor("CANCELLATION")
    BY DEF Reasons
  <1>2. SentFor("DEPOSIT_RETURN")' <=> SentFor("DEPOSIT_RETURN")
    BY DEF Reasons
  <1>3. "DEPOSIT_KEPT" \in journal' <=> "DEPOSIT_KEPT" \in journal
    OBVIOUS
  <1>4. KeptOfDeposit' = KeptOfDeposit
    BY DEF KeptOfDeposit
  <1>5. GivenBack' = GivenBack
    BY <1>1, <1>2, <1>3, <1>4 DEF GivenBack
  <1> QED BY <1>5 DEF HeldOnBooks

LEMMA DepositKept ==
  ASSUME PaymentsInv, DepositInv, NEW h \in All, NEW steps, Moves(h, steps),
         \A r \in RefundIds : ApartGoes(h, steps, r),
         \A o \in Orders : LateGoes(h, steps, o), Captured \subseteq Captured',
         Paid' => Paid \/ \E o \in Orders : InTime(o)',
         CreditFits', KeptWhenOver', HeldOnBooks'
  PROVE  DepositInv'
  <1>1. \A r \in RefundIds : Apart(r)'
    BY ApartKept DEF DepositInv
  <1>2. \A o \in Orders : LateOnce(o)' /\ (InTime(o) => InTime(o)')
    <2> TAKE o \in Orders
    <2>1. o \in Captured => o \in Captured'
      OBVIOUS
    <2> QED BY <2>1, LateKept DEF DepositInv, PaymentsInv
  <1>3. PaidInTime'
    BY <1>2 DEF PaidInTime, DepositInv
  <1> QED BY <1>1, <1>2, <1>3 DEF DepositInv

(* A step that moves no deposit: the refund rows stay as they are but for  *)
(* their attempts, and what is new is about the row or the payment that    *)
(* the step made was about.                                                *)
InPlace(h, steps, S) ==
  One(steps, S) /\ (Has(steps, S) => todo[h] # <<>> /\ Arg(h) \in S)

LEMMA NoDepositMoves ==
  ASSUME PaymentsInv, PaymentsInv', DepositInv, NEW h \in All, NEW steps, Moves(h, steps),
         \A r \in RefundIds : RowStays(r) /\ InPlace(h, steps, About(r)),
         \A o \in Orders : InPlace(h, steps, Late(o)), Captured' = Captured,
         Paid' => Paid \/ \E o \in Orders : InTime(o)',
         tier' = tier, kept' = kept, CreditStands', KeptWhenOver',
         journal' \cap {"DEPOSIT_KEPT"} = journal \cap {"DEPOSIT_KEPT"},
         1 \in 1..Len(steps) => HeadCredit(steps[1]),
         books'.DEPOSIT_HELD = books.DEPOSIT_HELD
  PROVE  DepositInv'
  <1>1. \A r \in RefundIds : ApartGoes(h, steps, r)
    BY DEF ApartGoes, InPlace, RowStays
  <1>2. \A o \in Orders : LateGoes(h, steps, o)
    BY DEF LateGoes, InPlace, RowStays, LateRows
  <1>3. CreditFits'
    BY CreditKept DEF PaymentsInv, CallsFit, DepositInv
  <1>4. HeldOnBooks'
    BY HeldStays, BooksStay DEF RowStays, DepositInv
  <1> QED BY <1>1, <1>2, <1>3, <1>4, DepositKept

Tame(s) ==
  /\ s.op \notin RefundOps \cup {"confirm"}
  /\ s.op \in AskOps => s.kind # "LATE_PAYMENT"

Mild(steps) ==
  /\ \A i \in 1..Len(steps) : Tame(steps[i])
  /\ 1 \in 1..Len(steps) => HeadCredit(steps[1])

DepositRests ==
  /\ UNCHANGED <<status, tier, kept, credit>>
  /\ Captured' = Captured /\ \A r \in RefundIds : RowStays(r)
  /\ journal' \cap {"DEPOSIT_KEPT"} = journal \cap {"DEPOSIT_KEPT"}
  /\ books'.DEPOSIT_HELD = books.DEPOSIT_HELD

LEMMA TameIsApart ==
  ASSUME NEW s, Tame(s)
  PROVE  (\A r : s \notin About(r)) /\ \A o : s \notin Late(o)
  BY DEF Tame, About, Late, Asking, RefundOps

LEMMA RestingMove ==
  ASSUME PaymentsInv, PaymentsInv', DepositInv, NEW h \in All, NEW steps, Moves(h, steps),
         \A r \in RefundIds : InPlace(h, steps, About(r)),
         \A o \in Orders : InPlace(h, steps, Late(o)),
         1 \in 1..Len(steps) => HeadCredit(steps[1]), DepositRests
  PROVE  DepositInv'
  <1>1. CreditStands'
    <2>1. CreditsBack' = CreditsBack
      BY DEF DepositRests, CreditsBack
    <2> QED BY <2>1 DEF DepositRests, DepositInv, CreditFits, CreditStands
  <1>2. KeptWhenOver'
    BY DEF DepositRests, DepositInv, KeptWhenOver
  <1>3. Paid' => Paid
    BY DEF DepositRests, Paid
  <1> QED BY <1>1, <1>2, <1>3, NoDepositMoves DEF DepositRests

LEMMA MildMove ==
  ASSUME PaymentsInv, PaymentsInv', DepositInv, NEW h \in All, NEW steps, Moves(h, steps),
         Mild(steps), DepositRests
  PROVE  DepositInv'
  <1>1. ASSUME NEW S, \A i \in 1..Len(steps) : steps[i] \notin S PROVE InPlace(h, steps, S)
    BY <1>1 DEF InPlace, One, Has
  <1>2. /\ \A r \in RefundIds : InPlace(h, steps, About(r))
        /\ \A o \in Orders : InPlace(h, steps, Late(o))
    BY <1>1, TameIsApart DEF Mild
  <1> QED BY <1>2, RestingMove DEF Mild

LEMMA MildShort ==
  ASSUME NEW s, NEW u
  PROVE  /\ Mild(<<>>)
         /\ Tame(s) /\ HeadCredit(s) => Mild(<<s>>)
         /\ Tame(s) /\ HeadCredit(s) /\ Tame(u) => Mild(<<s, u>>)
  <1>1. /\ Len(<<>>) = 0 /\ Len(<<s>>) = 1 /\ <<s>>[1] = s
        /\ Len(<<s, u>>) = 2 /\ <<s, u>>[1] = s /\ <<s, u>>[2] = u
    OBVIOUS
  <1> QED BY <1>1 DEF Mild

LEMMA MildCall ==
  ASSUME PaymentsInv, PaymentsInv', DepositInv, NEW h \in All, todo[h] # <<>>,
         (Dropped(h) /\ Others(h)) \/ \E steps : Goes(h, steps) /\ Mild(steps), DepositRests
  PROVE  DepositInv'
  <1>1. Lists
    BY DEF PaymentsInv, CallsFit
  <1>2. PICK steps : Moves(h, steps) /\ Mild(steps)
    BY <1>1, DropMoves, GoesMoves, MildShort
  <1> QED BY <1>2, MildMove

LEMMA MildSteps ==
  ASSUME PaymentsInv, PaymentsInv', DepositInv, NEW h \in All, todo[h] # <<>>,
         NEW s, Tame(s), HeadCredit(s), NEW u, Tame(u),
         Goes(h, <<>>) \/ Goes(h, <<s>>) \/ Goes(h, <<s, u>>), DepositRests
  PROVE  DepositInv'
  <1>1. PICK steps : Goes(h, steps) /\ Mild(steps)
    BY MildShort
  <1> QED BY <1>1, MildCall

LEMMA MildReturn ==
  ASSUME PaymentsInv, PaymentsInv', DepositInv, NEW h \in All, todo[h] # <<>>, Goes(h, <<>>),
         DepositRests
  PROVE  DepositInv'
  <1>1. PICK steps : Goes(h, steps) /\ Mild(steps)
    BY MildShort
  <1> QED BY <1>1, MildCall

LEMMA OtherIsTame ==
  ASSUME NEW s,
         s.op \notin RefundOps \cup AskOps
                       \cup {"confirm", "releaseCredit", "refundCredit", "postCredit"}
  PROVE  Tame(s) /\ HeadCredit(s)
  BY DEF Tame, HeadCredit

LEMMA NothingRefunded ==
  ASSUME UNCHANGED <<status, tier, kept, credit>>, refund' = refund, Captured' = Captured,
         journal' = journal, books'.DEPOSIT_HELD = books.DEPOSIT_HELD
  PROVE  DepositRests
  BY DEF DepositRests, RowStays

LEMMA MoneyRests ==
  ASSUME UNCHANGED bookingRow, UNCHANGED moneyVars
  PROVE  DepositRests
  <1>1. Captured' = Captured
    BY DEF moneyVars, Captured, PaymentsIn
  <1> QED BY <1>1, NothingRefunded DEF bookingRow, moneyVars

(* The transfers.                                                          *)
LEMMA PayoutKeepsDeposit ==
  ASSUME PaymentsInv, DepositInv, NEW h \in All, PayoutsPart(h)
  PROVE  DepositInv'
  <1>1. PaymentsInv' /\ PayoutMove(h)
    BY PayoutHolds
  <1>2. ASSUME NEW steps, PayoutSteps(h, steps) PROVE Mild(steps)
    <2>1. \A i \in 1..Len(steps) : Tame(steps[i]) /\ HeadCredit(steps[i])
      <3> SUFFICES ASSUME NEW i \in 1..Len(steps) PROVE Tame(steps[i]) /\ HeadCredit(steps[i])
        OBVIOUS
      <3>1. steps[i].op \in RowOps \cup {"oweRent", "createKept", "keepRent"}
        BY <1>2 DEF PayoutSteps
      <3>2. steps[i].op \notin RefundOps \cup AskOps
                                 \cup {"confirm", "releaseCredit", "refundCredit", "postCredit"}
        BY <3>1 DEF RefundOps, AskOps, RowOps, SendOps, ReverseOps
      <3> QED BY <3>2, OtherIsTame
    <2> QED BY <2>1 DEF Mild
  <1>3. (Dropped(h) /\ Others(h)) \/ \E steps : Goes(h, steps) /\ Mild(steps)
    BY <1>1, <1>2 DEF PayoutMove
  <1>4. DepositRests
    <2>1. payment' = payment
      <3>1. Paying!PayoutStep(h) \/ Paying!RetryFailed(h)
        BY DEF PayoutsPart
      <3> QED BY <3>1
          DEF Paying!PayoutStep, Paying!RetryFailed, Paying!Send, Paying!Wait, Paying!Claim,
              Paying!Created, Paying!RefusedTransfer, Paying!Fail, Paying!Save, Paying!OnConfirmed,
              Paying!OweRent, Paying!OnCancelled, Paying!KeepRent, Paying!Drop, Paying!TakeBack,
              Paying!SaveReversal, Paying!Release, Paying!Unhold, Paying!ReleaseOne,
              Paying!SaveRelease, Paying!SendKept, Paying!CreateKept
    <2>2. Captured' = Captured
      BY <2>1 DEF Captured, PaymentsIn
    <2>3. refund' = refund /\ status' = status
      BY PayoutsRest
    <2> QED BY <1>1, <2>2, <2>3, NothingRefunded DEF PayoutsPart, PayoutMove
  <1> QED BY <1>1, <1>3, <1>4, MildCall DEF PayoutMove

(* Paying, and what a cancellation does before it gives credit back.       *)
LEMMA OneRowKept ==
  ASSUME UNCHANGED bookingVars, UNCHANGED <<refund, books, journal>>, Captured' = Captured
  PROVE  DepositRests
  BY NothingRefunded DEF bookingVars, bookingRow

LEMMA MoneyWaits ==
  ASSUME UNCHANGED bookingVars, UNCHANGED moneyVars
  PROVE  DepositRests
  BY MoneyRests DEF bookingVars

LEMMA PayingKeepsDeposit ==
  ASSUME PaymentsInv, DepositInv, NEW h \in All,
         CreateOrder(h) \/ InsertPayment(h) \/ MarkFailed(h) \/ Receive(h) \/ Answer(h)
  PROVE  DepositInv'
  <1>1. CASE CreateOrder(h)
    <2>1. PaymentsInv' /\ todo[h] # <<>> /\ Others(h) /\ UNCHANGED bookingVars /\ UNCHANGED moneyVars
          /\ (Dropped(h) \/ \E s : s.op = "insertPayment" /\ Goes(h, <<s>>))
      BY <1>1, CreateOrderHolds
    <2>2. (Dropped(h) /\ Others(h)) \/ \E steps : Goes(h, steps) /\ Mild(steps)
      <3>1. ASSUME NEW s, s.op = "insertPayment", Goes(h, <<s>>)
            PROVE  \E steps : Goes(h, steps) /\ Mild(steps)
        <4>1. Tame(s) /\ HeadCredit(s)
          BY <3>1, OtherIsTame DEF RefundOps, AskOps
        <4> QED BY <3>1, <4>1, MildShort
      <3> QED BY <2>1, <3>1
    <2> QED BY <2>1, <2>2, MoneyWaits, MildCall
  <1>2. CASE InsertPayment(h)
    BY <1>2, InsertPaymentHolds, OneRowKept, MildReturn
  <1>3. CASE MarkFailed(h)
    BY <1>3, MarkFailedHolds, OneRowKept, MildReturn
  <1>4. CASE Receive(h)
    <2>1. PaymentsInv' /\ todo[h] # <<>> /\ UNCHANGED bookingVars /\ UNCHANGED moneyVars
          /\ (Goes(h, <<>>) \/ \E a, b : /\ a.op \in {"capture", "markFailed"} /\ b.op = "answer"
                                         /\ Goes(h, <<a, b>>))
      BY <1>4, ReceiveHolds
    <2>2. CASE Goes(h, <<>>)
      BY <2>1, <2>2, MoneyWaits, MildReturn
    <2>3. CASE ~Goes(h, <<>>)
      <3>1. PICK a, b : a.op \in {"capture", "markFailed"} /\ b.op = "answer" /\ Goes(h, <<a, b>>)
        BY <2>1, <2>3
      <3>2. Tame(a) /\ HeadCredit(a) /\ Tame(b)
        BY <3>1, OtherIsTame DEF RefundOps, AskOps
      <3> QED BY <2>1, <3>1, <3>2, MoneyWaits, MildSteps
    <2> QED BY <2>2, <2>3
  <1>5. CASE Answer(h)
    <2>1. UNCHANGED bookingVars /\ UNCHANGED moneyVars
      BY <1>5 DEF Answer
    <2> QED BY <1>5, <2>1, AnswerHolds, MoneyWaits, MildReturn
  <1> QED BY <1>1, <1>2, <1>3, <1>4, <1>5

LEMMA CancellingKeepsDeposit ==
  ASSUME PaymentsInv, DepositInv, NEW h \in All,
         \/ RefundCancelled(h) \/ FindRelease(h) \/ RefundCredit(h)
         \/ Caught(h) /\ UNCHANGED <<bookingVars, moneyVars, gatewayVars, faults>>
  PROVE  DepositInv'
  <1>1. CASE RefundCancelled(h)
    <2>1. /\ PaymentsInv' /\ todo[h] # <<>> /\ DepositRests
          /\ Goes(h, <<>>) \/ \E p \in Orders : Goes(h, <<[op |-> "findRelease", order |-> p]>>)
      BY <1>1, RefundCancelledHolds, MoneyWaits
    <2>2. CASE Goes(h, <<>>)
      BY <2>1, <2>2, MildReturn
    <2>3. CASE ~Goes(h, <<>>)
      <3>1. PICK p \in Orders : Goes(h, <<[op |-> "findRelease", order |-> p]>>)
        BY <2>1, <2>3
      <3>2. PICK s : s = [op |-> "findRelease", order |-> p]
        OBVIOUS
      <3>3. Tame(s) /\ HeadCredit(s)
        BY <3>2, OtherIsTame DEF RefundOps, AskOps
      <3> QED BY <2>1, <3>1, <3>2, <3>3, MildSteps
    <2> QED BY <2>2, <2>3
  <1>2. CASE FindRelease(h)
    <2>1. /\ PaymentsInv' /\ todo[h] # <<>> /\ DepositRests
          /\ Goes(h, <<[op |-> "releaseCredit", order |-> Arg(h).order, found |-> credit]>>)
      BY <1>2, FindReleaseHolds, MoneyWaits
    <2>2. status = "CANCELLED"
      BY <1>2, <2>1, HeadPayment DEF FindRelease, At, Arg, CancelOps
    <2>3. credit \in CreditsBack
      BY <2>2 DEF DepositInv, CreditFits, CreditStands
    <2>4. PICK s : s = [op |-> "releaseCredit", order |-> Arg(h).order, found |-> credit]
      OBVIOUS
    <2>5. Tame(s) /\ HeadCredit(s)
      BY <2>3, <2>4 DEF Tame, HeadCredit, RefundOps, AskOps
    <2> QED BY <2>1, <2>4, <2>5, MildSteps
  <1>3. CASE RefundCredit(h)
    <2>1. /\ PaymentsInv' /\ todo[h] # <<>> /\ DepositRests /\ Arg(h).op = "refundCredit"
          /\ \/ Goes(h, <<>>)
             \/ \E s, u : /\ s.op = "postCredit" /\ s.amounts = Arg(h).amounts
                          /\ u.op = "onCancelled" /\ Goes(h, <<s, u>>)
      BY <1>3, RefundCreditHolds, MoneyWaits
    <2>2. CASE Goes(h, <<>>)
      BY <2>1, <2>2, MildReturn
    <2>3. CASE ~Goes(h, <<>>)
      <3>1. PICK s, u : /\ s.op = "postCredit" /\ s.amounts = Arg(h).amounts
                        /\ u.op = "onCancelled" /\ Goes(h, <<s, u>>)
        BY <2>1, <2>3
      <3>2. Arg(h).amounts.deposit = 0
        BY <2>1 DEF DepositInv, CreditFits, HeadCredit, Arg
      <3>3. Tame(s) /\ HeadCredit(s) /\ Tame(u)
        BY <3>1, <3>2 DEF Tame, HeadCredit, RefundOps, AskOps
      <3> QED BY <2>1, <3>1, <3>3, MildSteps
    <2> QED BY <2>2, <2>3
  <1>4. CASE Caught(h) /\ UNCHANGED <<bookingVars, moneyVars, gatewayVars, faults>>
    <2>1. UNCHANGED bookingVars /\ UNCHANGED moneyVars
      BY <1>4
    <2> QED BY <1>4, <2>1, CaughtHolds, MoneyWaits, MildReturn
  <1> QED BY <1>1, <1>2, <1>3, <1>4

LEMMA SettleKeepsDeposit ==
  ASSUME PaymentsInv, DepositInv, NEW h \in All, Settle(h)
  PROVE  DepositInv'
  <1>1. PaymentsInv' /\ todo[h] # <<>> /\ DepositRests
    BY SettleHolds, MoneyWaits
  <1>2. PICK steps : Goes(h, steps) /\ SettleSteps(steps)
    BY SettleHolds
  <1>3. \A i \in 1..Len(steps) : Tame(steps[i]) /\ HeadCredit(steps[i])
    <2> SUFFICES ASSUME NEW i \in 1..Len(steps) PROVE Tame(steps[i]) /\ HeadCredit(steps[i])
      OBVIOUS
    <2>1. CASE steps[i].op \in SettleParts
      BY <2>1, OtherIsTame DEF SettleParts, RefundOps, AskOps
    <2>2. CASE steps[i] \in Asking("DEPOSIT_RETURN")
      BY <2>2 DEF Asking, Tame, HeadCredit, RefundOps, AskOps
    <2> QED BY <1>2, <2>1, <2>2 DEF SettleSteps
  <1> QED BY <1>1, <1>2, <1>3, MildCall DEF Mild

LEMMA SweepKeepsDeposit ==
  ASSUME PaymentsInv, DepositInv, NEW h \in All, SweepStep(h)
  PROVE  DepositInv'
  <1>1. /\ PaymentsInv' /\ todo[h] # <<>> /\ DepositRests
        /\ Goes(h, <<>>) \/ \E s \in Steps : s.op \in {"refundCancelled", "settle"} /\ Goes(h, <<s>>)
    BY SweepMissedHolds, SweepUnsettledHolds, MoneyWaits DEF SweepStep
  <1>2. CASE Goes(h, <<>>)
    BY <1>1, <1>2, MildReturn
  <1>3. CASE ~Goes(h, <<>>)
    <2>1. PICK s \in Steps : s.op \in {"refundCancelled", "settle"} /\ Goes(h, <<s>>)
      BY <1>1, <1>3
    <2>2. Tame(s) /\ HeadCredit(s)
      BY <2>1, OtherIsTame DEF RefundOps, AskOps
    <2> QED BY <1>1, <2>1, <2>2, MildSteps
  <1> QED BY <1>2, <1>3

(* What starts.                                                            *)
LEMMA StartsKeepDeposit ==
  ASSUME PaymentsInv, DepositInv, NEW h \in All,
         \/ Checkout(h) \/ Sweep(h)
         \/ \E o \in Orders : Verify(h, o)
         \/ \E e \in Events : Webhook(h, e)
         \/ \E p \in Unrefunded, amount \in GoodwillGiven : GiveGoodwill(h, p, amount)
  PROVE  DepositInv'
  <1>1. CASE ~Sweep(h)
    <2>1. /\ PaymentsInv' /\ todo[h] = <<>> /\ Others(h) /\ DepositRests
          /\ \E s : /\ \/ s.op \in {"createOrder", "capture", "receive"}
                       \/ s.op = "createRefund" /\ s.kind = "MANUAL"
                    /\ todo'[h] = <<s>>
      BY <1>1, CheckoutHolds, VerifyHolds, WebhookHolds, GoodwillHolds, MoneyRests
    <2>2. PICK s : /\ \/ s.op \in {"createOrder", "capture", "receive"}
                      \/ s.op = "createRefund" /\ s.kind = "MANUAL"
                   /\ todo'[h] = <<s>>
      BY <2>1
    <2>3. Mild(<<s>>)
      BY <2>2, MildShort DEF Tame, HeadCredit, RefundOps, AskOps
    <2>4. Moves(h, <<s>>)
      BY <2>1, <2>2, StartMoves DEF PaymentsInv, CallsFit
    <2> QED BY <2>1, <2>3, <2>4, MildMove
  <1>2. CASE Sweep(h)
    <2>1. PICK steps : steps = <<[op |-> "sweepMissed"], [op |-> "sweepUnsettled"],
                                 [op |-> "retryRefunds"], [op |-> "retryTransfers"]>>
      OBVIOUS
    <2>2. PaymentsInv' /\ todo[h] = <<>> /\ Others(h) /\ DepositRests /\ todo'[h] = steps
      BY <1>2, <2>1, SweepHolds, MoneyRests
    <2>3. \A i \in 1..Len(steps) : steps[i].op \in SweepOps
      BY <2>1 DEF SweepOps
    <2>4. \A i \in 1..Len(steps) : Tame(steps[i]) /\ HeadCredit(steps[i])
      BY <2>3 DEF SweepOps, Tame, HeadCredit, RefundOps, AskOps
    <2>5. Moves(h, steps)
      BY <2>2, StartMoves DEF PaymentsInv, CallsFit
    <2> QED BY <2>2, <2>4, <2>5, MildMove DEF Mild
  <1> QED BY <1>1, <1>2

(* A refund on its way: each step hands the row on to the next.            *)
LEMMA PassedOn ==
  ASSUME PaymentsInv, PaymentsInv', DepositInv, NEW h \in All, todo[h] # <<>>, NEW s,
         Goes(h, <<s>>), DepositRests, s.op \notin {"releaseCredit", "refundCredit", "postCredit"},
         \A r \in RefundIds : s \in About(r) => Arg(h) \in About(r),
         \A o \in Orders : s \in Late(o) => Arg(h) \in Late(o)
  PROVE  DepositInv'
  <1>1. Moves(h, <<s>>)
    BY GoesMoves DEF PaymentsInv, CallsFit
  <1>2. \A S : One(<<s>>, S) /\ (Has(<<s>>, S) <=> s \in S)
    BY Contents
  <1>3. Len(<<s>>) = 1 /\ <<s>>[1] = s
    OBVIOUS
  <1>4. HeadCredit(<<s>>[1])
    BY <1>3 DEF HeadCredit
  <1>5. /\ \A r \in RefundIds : InPlace(h, <<s>>, About(r))
        /\ \A o \in Orders : InPlace(h, <<s>>, Late(o))
    BY <1>2 DEF InPlace
  <1> QED BY <1>1, <1>4, <1>5, RestingMove

LEMMA HeadAbout ==
  ASSUME PaymentsInv, NEW h \in All, todo[h] # <<>>, Arg(h).op \in RefundOps
  PROVE  /\ Arg(h) \in RefundSteps /\ Arg(h).id \in RefundIds
         /\ \A r : Arg(h) \in About(r) <=> r = Arg(h).id
         /\ \A o : Arg(h) \notin Late(o)
         /\ refund[Arg(h).id] # Refunding!NoRefund /\ refund[Arg(h).id] \in RefundRows
  <1>1. Arg(h) \in Steps /\ Fits(h, Arg(h))
    BY HeadPayment
  <1>2. Arg(h).id \in RefundIds /\ refund[Arg(h).id] # Refunding!NoRefund
    BY <1>1, RefundForms DEF Fits
  <1>3. refund[Arg(h).id] \in RefundRows
    BY <1>2 DEF PaymentsInv, CallsFit, RowTypes
  <1>4. Arg(h) \in RefundSteps
    BY <1>1 DEF RefundOps, Steps, RefundSteps, TransferSteps, PaymentSteps, PlainOps, AskOps, SweepOps
  <1> QED BY <1>2, <1>3, <1>4 DEF About, Late, Asking, RefundOps, AskOps

(* A step about the row that the step made is about.                       *)
LEMMA RowPassedOn ==
  ASSUME PaymentsInv, PaymentsInv', DepositInv, NEW h \in All, todo[h] # <<>>,
         Arg(h).op \in RefundOps, NEW s, Goes(h, <<s>>), s.op \in RefundOps, s.id = Arg(h).id,
         DepositRests
  PROVE  DepositInv'
  <1>1. \A r : s \in About(r) => Arg(h) \in About(r)
    BY HeadAbout DEF About
  <1>2. \A o : s \notin Late(o)
    BY DEF Late, Asking, RefundOps, AskOps
  <1>3. s.op \notin {"releaseCredit", "refundCredit", "postCredit"}
    BY DEF RefundOps
  <1> QED BY <1>1, <1>2, <1>3, PassedOn

LEMMA RestOfRows ==
  ASSUME RestOfRefund, \A r \in RefundIds : RowStays(r), payment' = payment, books' = books
  PROVE  DepositRests
  <1>1. Captured' = Captured
    BY DEF Captured, PaymentsIn
  <1> QED BY <1>1 DEF DepositRests, RestOfRefund, bookingVars, bookingRow

LEMMA CheckKeepsDeposit ==
  ASSUME PaymentsInv, DepositInv, NEW h \in All, Refunding!Check(h), RestOfRefund
  PROVE  DepositInv'
  <1>1. PICK s : s = [Arg(h) EXCEPT !.op = "insertRefund"]
    OBVIOUS
  <1>2. /\ PaymentsInv' /\ todo[h] # <<>>
        /\ Goes(h, <<>>) \/ Goes(h, <<s>>) \/ (Dropped(h) /\ Others(h))
    BY <1>1, CheckHolds
  <1>3. Arg(h).op = "createRefund"
    BY RefundCalls DEF Refunding!Check, At, Arg
  <1>4. /\ Arg(h) \in [op : AskOps, payment : Orders, kind : Kinds, cash : Int, amounts : Amounts]
        /\ Arg(h) \in RefundSteps
    BY <1>2, <1>3, NextStep, RefundForms DEF AskOps, PaymentsInv, CallsFit
  <1>5. s.op = "insertRefund" /\ s.kind = Arg(h).kind /\ s.payment = Arg(h).payment
    BY <1>1, <1>4
  <1>6. DepositRests
    BY RestOfRows DEF Refunding!Check, RowStays
  <1>7. CASE Goes(h, <<>>) \/ (Dropped(h) /\ Others(h))
    BY <1>2, <1>6, <1>7, MildShort, MildCall
  <1>8. CASE Goes(h, <<s>>)
    <2>1. \A o : s \in Late(o) => Arg(h) \in Late(o)
      BY <1>3, <1>4, <1>5 DEF Late, Asking, AskOps
    <2>2. \A r : s \notin About(r)
      BY <1>5 DEF About, RefundOps
    <2> QED BY <1>2, <1>5, <1>6, <1>8, <2>1, <2>2, PassedOn
  <1> QED BY <1>2, <1>7, <1>8

LEMMA SendingKeepsDeposit ==
  ASSUME PaymentsInv, DepositInv, NEW h \in All, RestOfRefund,
         \/ Refunding!Attempt(h) \/ Refunding!Claim(h) \/ Refunding!Accepted(h)
         \/ Refunding!RefusedRefund(h) \/ Refunding!Tally(h)
  PROVE  DepositInv'
  <1>1. Arg(h).op \in RefundOps
    BY RefundCalls DEF Refunding!Attempt, Refunding!Claim, Refunding!Accepted,
       Refunding!RefusedRefund, Refunding!Tally, At, Arg, RefundOps
  <1>2. payment' = payment /\ books' = books
    BY DEF Refunding!Attempt, Refunding!Claim, Refunding!Accepted, Refunding!RefusedRefund,
       Refunding!Tally
  <1>3. (\A r \in RefundIds : RowStays(r)) => DepositRests
    BY <1>2, RestOfRows
  <1>4. refund' = refund => DepositRests
    BY <1>3 DEF RowStays
  <1>5. CASE Refunding!Attempt(h)
    <2>1. PICK s : s = [op |-> "claimRefund", id |-> Arg(h).id, attempts |-> refund[Arg(h).id].attempts]
      OBVIOUS
    <2>2. PaymentsInv' /\ todo[h] # <<>> /\ Goes(h, <<s>>) /\ s.op \in RefundOps /\ s.id = Arg(h).id
      BY <1>5, <2>1, AttemptHolds DEF RefundOps
    <2>3. DepositRests
      BY <1>4, <1>5 DEF Refunding!Attempt
    <2> QED BY <1>1, <2>2, <2>3, RowPassedOn
  <1>6. CASE Refunding!Claim(h)
    <2>1. PICK s : s = [op |-> "callRefund", id |-> Arg(h).id]
      OBVIOUS
    <2>2. /\ PaymentsInv' /\ todo[h] # <<>> /\ s.op \in RefundOps /\ s.id = Arg(h).id
          /\ Goes(h, <<s>>) \/ Goes(h, <<>>)
          /\ DepositRests
      BY <1>3, <1>6, <2>1, ClaimHolds DEF RefundOps, RowStays
    <2> QED BY <1>1, <2>2, RowPassedOn, MildReturn
  <1>7. CASE Refunding!Accepted(h)
    <2>1. PICK st, s : s = [op |-> "tallyRefund", id |-> Arg(h).id, status |-> st] /\ Goes(h, <<s>>)
      BY <1>7, AcceptedHolds
    <2>2. s.op \in RefundOps /\ s.id = Arg(h).id
      BY <2>1 DEF RefundOps
    <2>3. PaymentsInv' /\ todo[h] # <<>> /\ DepositRests
      BY <1>4, <1>7, AcceptedHolds DEF Refunding!Accepted
    <2> QED BY <1>1, <2>1, <2>2, <2>3, RowPassedOn
  <1>8. CASE Refunding!RefusedRefund(h)
    <2>1. PICK s : s = [op |-> "failRefund", id |-> Arg(h).id]
      OBVIOUS
    <2>2. PaymentsInv' /\ todo[h] # <<>> /\ Goes(h, <<s>>) /\ s.op \in RefundOps /\ s.id = Arg(h).id
      BY <1>8, <2>1, RefusedRefundHolds DEF RefundOps
    <2>3. DepositRests
      BY <1>4, <1>8, RefusedRefundHolds
    <2> QED BY <1>1, <2>2, <2>3, RowPassedOn
  <1>9. CASE Refunding!Tally(h)
    <2>1. PICK sum, s : /\ s = [op |-> "saveRefund", id |-> Arg(h).id, status |-> Arg(h).status,
                                sum |-> sum]
                        /\ Goes(h, <<s>>)
      BY <1>9, TallyHolds
    <2>2. s.op \in RefundOps /\ s.id = Arg(h).id
      BY <2>1 DEF RefundOps
    <2>3. PaymentsInv' /\ todo[h] # <<>> /\ DepositRests
      BY <1>4, <1>9, TallyHolds DEF Refunding!Tally
    <2> QED BY <1>1, <2>1, <2>2, <2>3, RowPassedOn
  <1> QED BY <1>5, <1>6, <1>7, <1>8, <1>9

(* A refund that failed, that is written or that is tried again: no money  *)
(* has moved yet.                                                          *)
LEMMA BookingRests ==
  ASSUME PaymentsInv, PaymentsInv', DepositInv, NEW h \in All, NEW steps, Moves(h, steps),
         UNCHANGED <<status, tier, credit>>,
         journal' \cap {"DEPOSIT_KEPT"} = journal \cap {"DEPOSIT_KEPT"},
         1 \in 1..Len(steps) => HeadCredit(steps[1])
  PROVE  CreditFits' /\ KeptWhenOver' /\ (Paid' => Paid)
  <1>1. CreditStands'
    <2>1. CreditsBack' = CreditsBack
      BY DEF CreditsBack
    <2> QED BY <2>1 DEF DepositInv, CreditFits, CreditStands
  <1>2. CreditFits'
    BY <1>1, CreditKept DEF PaymentsInv, CallsFit, DepositInv
  <1>3. KeptWhenOver'
    BY DEF DepositInv, KeptWhenOver
  <1>4. Paid' => Paid
    BY DEF Paid
  <1> QED BY <1>2, <1>3, <1>4

LEMMA RefundMove ==
  ASSUME PaymentsInv, PaymentsInv', DepositInv, NEW h \in All, NEW steps, Moves(h, steps), RestOfRefund,
         payment' = payment, books' = books,
         \A r \in RefundIds :
           \/ /\ refund'[r].kind = refund[r].kind /\ refund'[r].payment = refund[r].payment
              /\ refund'[r].sent = refund[r].sent
           \/ refund[r] = Refunding!NoRefund /\ refund'[r].sent = FALSE,
         1 \in 1..Len(steps) => HeadCredit(steps[1]),
         \A r \in RefundIds : ApartGoes(h, steps, r), \A o \in Orders : LateGoes(h, steps, o)
  PROVE  DepositInv'
  <1>1. Captured' = Captured /\ UNCHANGED <<status, tier, kept, credit>> /\ journal' = journal
    BY DEF Captured, PaymentsIn, RestOfRefund, bookingVars, bookingRow
  <1>2. CreditFits' /\ KeptWhenOver' /\ (Paid' => Paid)
    BY <1>1, BookingRests
  <1>3. HeldOnBooks'
    BY <1>1, HeldStays, BooksStay DEF DepositInv
  <1> QED BY <1>1, <1>2, <1>3, DepositKept

LEMMA FailKeepsDeposit ==
  ASSUME PaymentsInv, DepositInv, NEW h \in All, Refunding!Fail(h), RestOfRefund
  PROVE  DepositInv'
  <1>1. /\ PaymentsInv' /\ todo[h] # <<>> /\ Goes(h, <<>>)
        /\ \A r \in RefundIds :
             /\ refund'[r].kind = refund[r].kind /\ refund'[r].payment = refund[r].payment
             /\ refund'[r].sent = refund[r].sent
             /\ r # Arg(h).id => refund'[r] = refund[r]
    BY FailHolds
  <1>2. Arg(h).op \in RefundOps /\ payment' = payment /\ books' = books
    BY RefundCalls DEF Refunding!Fail, At, Arg, RefundOps
  <1>3. Moves(h, <<>>)
    BY <1>1, GoesMoves DEF PaymentsInv, CallsFit
  <1>4. \A S : One(<<>>, S) /\ ~Has(<<>>, S)
    BY Contents
  <1>5. \A r \in RefundIds : ApartGoes(h, <<>>, r)
    BY <1>1, <1>2, <1>4, HeadAbout DEF ApartGoes
  <1>6. \A o \in Orders : LateGoes(h, <<>>, o)
    BY <1>1, <1>4 DEF LateGoes, LateRows
  <1>7. ~(1 \in 1..Len(<<>>))
    <2>1. Len(<<>>) = 0
      OBVIOUS
    <2> QED BY <2>1
  <1> QED BY <1>1, <1>2, <1>3, <1>5, <1>6, <1>7, RefundMove

LEMMA NobodyAbout ==
  ASSUME PaymentsInv, NEW r \in RefundIds, refund[r] = Refunding!NoRefund
  PROVE  ~Busy(About(r))
  <1> SUFFICES ASSUME NEW h \in All, NEW i \in 1..Len(todo[h]), todo[h][i] \in About(r)
               PROVE  FALSE
    BY DEF Busy, Has
  <1>1. Fits(h, todo[h][i])
    BY ListedFits DEF PaymentsInv, CallsFit
  <1> QED BY <1>1 DEF Fits, About

LEMMA InsertKeepsDeposit ==
  ASSUME PaymentsInv, DepositInv, NEW h \in All, Refunding!Insert(h), RestOfRefund
  PROVE  DepositInv'
  <1>1. PaymentsInv' /\ todo[h] # <<>>
    BY InsertHolds
  <1>2. PICK r, s :
          /\ r \in RefundIds /\ refund[r] = Refunding!NoRefund
          /\ refund'[r].kind = Arg(h).kind /\ refund'[r].payment = Arg(h).payment
          /\ refund'[r].sent = FALSE /\ refund'[r].status = "PENDING"
          /\ \A q \in RefundIds : q # r => refund'[q] = refund[q]
          /\ s = [op |-> "attempt", id |-> r] /\ Goes(h, <<s>>)
    <2>1. PICK x : x = Arg(h)
      OBVIOUS
    <2>2. PICK r \in RefundIds :
            /\ refund[r] = Refunding!NoRefund
            /\ refund'[r] = [payment |-> x.payment, kind |-> x.kind, cash |-> x.cash,
                             amounts |-> x.amounts, status |-> "PENDING", attempts |-> 0,
                             sent |-> FALSE]
            /\ \A q \in RefundIds : q # r => refund'[q] = refund[q]
            /\ Goes(h, <<[op |-> "attempt", id |-> r]>>)
      BY <2>1, InsertHolds
    <2>3. /\ refund'[r].kind = Arg(h).kind /\ refund'[r].payment = Arg(h).payment
          /\ refund'[r].sent = FALSE /\ refund'[r].status = "PENDING"
      BY <2>1, <2>2
    <2>4. PICK s : s = [op |-> "attempt", id |-> r] /\ Goes(h, <<s>>)
      BY <2>2
    <2> QED BY ONLY <2>2, <2>3, <2>4, Zenon
  <1>3. Arg(h).op = "insertRefund" /\ payment' = payment /\ books' = books
    BY RefundCalls DEF Refunding!Insert, At, Arg
  <1>4. Arg(h) \in RefundSteps
    BY <1>1, <1>3, NextStep, RefundForms DEF AskOps, PaymentsInv, CallsFit, RefundSteps
  <1>5. Moves(h, <<s>>)
    BY <1>2, GoesMoves DEF PaymentsInv, CallsFit
  <1>6. \A S : One(<<s>>, S) /\ (Has(<<s>>, S) <=> s \in S)
    BY Contents
  <1>7. ~Busy(About(r))
    BY <1>2, NobodyAbout
  <1>8. \A q : s \in About(q) => q = r
    BY <1>2 DEF About
  <1>9. \A q \in RefundIds : ApartGoes(h, <<s>>, q)
    BY <1>2, <1>6, <1>7, <1>8 DEF ApartGoes
  <1>10. ASSUME NEW o \in Orders PROVE LateGoes(h, <<s>>, o)
    <2>1. s \notin Late(o)
      BY <1>2 DEF Late, Asking, AskOps
    <2>2. r \notin LateRows(o)
      BY <1>2 DEF LateRows, Refunding!NoRefund
    <2>3. CASE Arg(h).kind = "LATE_PAYMENT" /\ Arg(h).payment = o
      <3>1. Arg(h) \in Late(o)
        BY <1>3, <1>4, <2>3 DEF Late, Asking, AskOps
      <3>2. LateRows(o)' \subseteq LateRows(o) \cup {r}
        BY <1>2 DEF LateRows
      <3> QED BY <1>1, <1>6, <2>1, <3>1, <3>2 DEF LateGoes
    <2>4. CASE ~(Arg(h).kind = "LATE_PAYMENT" /\ Arg(h).payment = o)
      <3>1. LateRows(o)' = LateRows(o)
        BY <1>2, <2>2, <2>4 DEF LateRows
      <3> QED BY <1>6, <2>1, <3>1 DEF LateGoes
    <2> QED BY <2>3, <2>4
  <1>11. HeadCredit(<<s>>[1])
    <2>1. <<s>>[1] = s /\ s.op = "attempt"
      BY <1>2
    <2> QED BY <2>1 DEF HeadCredit
  <1> QED BY <1>1, <1>2, <1>3, <1>5, <1>9, <1>10, <1>11, RefundMove

(* The sweep tries a refund again that failed: no request is about it, as  *)
(* a request is about pending refunds only, nor is the sweep itself.       *)
LEMMA RetryKeepsDeposit ==
  ASSUME PaymentsInv, OneCloser, DepositInv, NEW w, Workers = {w}, NEW h \in All,
         Refunding!RetryFailed(h), RestOfRefund
  PROVE  DepositInv'
  <1>1. /\ PaymentsInv' /\ todo[h] # <<>> /\ Arg(h).op = "retryRefunds"
        /\ UNCHANGED <<payment, refund, books>>
    BY RetryRefundsHolds
  <1>2. PICK steps :
          /\ Goes(h, steps)
          /\ \A i \in 1..Len(steps) : /\ steps[i].op = "attempt" /\ steps[i].id \in RefundIds
                                      /\ refund[steps[i].id].status = "FAILED"
                                      /\ refund[steps[i].id].sent = FALSE
          /\ \A i, j \in 1..Len(steps) : steps[i].id = steps[j].id => i = j
    BY RetryRefundsHolds
  <1>3. h \in Workers
    BY <1>1, HeadPayment DEF SweepOps
  <1>4. Moves(h, steps)
    BY <1>2, GoesMoves DEF PaymentsInv, CallsFit
  <1>5. ASSUME NEW r \in RefundIds, refund[r].status = "FAILED" PROVE ~Busy(About(r))
    <2> SUFFICES ASSUME NEW g \in All, NEW i \in 1..Len(todo[g]), todo[g][i] \in About(r)
                 PROVE  FALSE
      BY DEF Busy, Has
    <2>1. g \in Workers
      BY <1>5 DEF DepositInv, Apart, Has
    <2>2. g = h
      BY <1>3, <2>1
    <2>3. Len(todo[h]) \in Nat /\ todo[h][1] = Arg(h) /\ 1 \in 1..Len(todo[h])
      BY <1>4, <1>1 DEF Moves
    <2>4. SweepLast(todo[h])
      BY DEF OneCloser
    <2>5. i = 1 \/ 1 < i
      BY <2>2, <2>3
    <2>6. todo[g][i].op \in SweepOps
      BY <1>1, <2>2, <2>3, <2>4, <2>5 DEF SweepLast, SweepOps
    <2> QED BY <2>6 DEF About, SweepOps, RefundOps
  <1>6. ASSUME NEW r \in RefundIds PROVE ApartGoes(h, steps, r)
    <2>1. One(steps, About(r))
      BY <1>2 DEF One, About
    <2>2. CASE Has(steps, About(r))
      <3>1. refund[r].status = "FAILED" /\ refund[r].sent = FALSE
        BY <1>2, <2>2 DEF Has, About
      <3> QED BY <1>1, <1>3, <1>5, <2>1, <3>1 DEF ApartGoes
    <2>3. CASE ~Has(steps, About(r))
      BY <1>1, <2>1, <2>3 DEF ApartGoes
    <2> QED BY <2>2, <2>3
  <1>7. ASSUME NEW o \in Orders PROVE LateGoes(h, steps, o)
    <2>1. \A i \in 1..Len(steps) : steps[i] \notin Late(o)
      BY <1>2 DEF Late, Asking, AskOps
    <2>2. One(steps, Late(o)) /\ ~Has(steps, Late(o))
      BY <2>1 DEF One, Has
    <2>3. LateRows(o)' = LateRows(o)
      BY <1>1 DEF LateRows
    <2> QED BY <2>2, <2>3 DEF LateGoes
  <1>8. 1 \in 1..Len(steps) => HeadCredit(steps[1])
    BY <1>2 DEF HeadCredit
  <1> QED BY <1>1, <1>4, <1>6, <1>7, <1>8, RefundMove

(* A refund that is saved takes what it gives back of the deposit off the  *)
(* books: a late payment's deposit is held no longer, and what is sent for *)
(* the cancellation or the return is what those may give back.             *)
LEMMA HeldMoved ==
  ASSUME NEW p \in Orders, \A o \in Orders : o # p => HeldOf(o)' = HeldOf(o)
  PROVE  Held \in Int /\ Held' = Held + HeldOf(p)' - HeldOf(p)
  <1>1. PICK f, g : f = [o \in Orders |-> HeldOf(o)] /\ g = [o \in Orders |-> HeldOf(o)']
    OBVIOUS
  <1>2. Booking.deposit \in Int
    BY CashIsInt
  <1>3. f \in [Orders -> Int] /\ g \in [Orders -> Int]
    BY <1>1, <1>2 DEF HeldOf
  <1>4. \A o \in Orders : o # p => g[o] = f[o]
    BY <1>1
  <1>5. SumFunction(f) \in Int /\ SumFunction(g) = SumFunction(f) + g[p] - f[p]
    <2>1. IsFiniteSet(Orders)
      BY Finite
    <2> QED BY ONLY <1>3, <1>4, <2>1, SumMoved
  <1>6. Held = SumFunction(f) /\ Held' = SumFunction(g) /\ f[p] = HeldOf(p) /\ g[p] = HeldOf(p)'
    BY <1>1 DEF Held
  <1> QED BY <1>5, <1>6

LEMMA SaveMoves ==
  ASSUME PaymentsInv, OneCloser, DepositInv, NEW r \in RefundIds, refund[r] # Refunding!NoRefund,
         refund[r].sent = FALSE, refund'[r].sent = TRUE,
         refund'[r].kind = refund[r].kind, refund'[r].payment = refund[r].payment,
         \A q \in RefundIds : q # r => refund'[q] = refund[q],
         Captured' = Captured, kept' = kept, journal' = journal,
         books'.DEPOSIT_HELD = books.DEPOSIT_HELD - DepositOf(refund[r])
  PROVE  HeldOnBooks'
  <1>1. PICK kind, p, d : kind = refund[r].kind /\ p = refund[r].payment /\ d = Booking.deposit
    OBVIOUS
  <1>2. /\ RefundFits(refund[r]) /\ kind \in Kinds /\ p \in Orders /\ refund[r] \in RefundRows
        /\ d \in Int /\ books.DEPOSIT_HELD \in Int
    BY <1>1, CashIsInt DEF PaymentsInv, CallsFit, RefundRowsFit, RowTypes, RefundRows, OtherTypes
  <1>3. KeptOfDeposit' = KeptOfDeposit /\ KeptOfDeposit \in Int
    BY <1>1, <1>2 DEF KeptOfDeposit, PaymentsInv, CallsFit, BookingTypes
  <1>4. \A o \in Orders : LateRows(o)' = LateRows(o)
    BY DEF LateRows
  <1>5. \A k : RefundsFor(k)' = RefundsFor(k)
    BY SameRows
  <1>6. \A o \in Orders : o # p \/ kind # "LATE_PAYMENT" => HeldOf(o)' = HeldOf(o)
    <2> SUFFICES ASSUME NEW o \in Orders, o # p \/ kind # "LATE_PAYMENT" PROVE HeldOf(o)' = HeldOf(o)
      OBVIOUS
    <2>1. r \notin LateRows(o)
      BY <1>1 DEF LateRows
    <2>2. \A q \in LateRows(o) : refund'[q].sent = refund[q].sent
      BY <2>1 DEF LateRows
    <2> QED BY <1>4, <2>2 DEF HeldOf
  <1>7. kind # "LATE_PAYMENT" => Held' = Held
    <2> SUFFICES ASSUME kind # "LATE_PAYMENT" PROVE Held' = Held
      OBVIOUS
    <2>1. [o \in Orders |-> HeldOf(o)'] = [o \in Orders |-> HeldOf(o)]
      BY <1>6
    <2> QED BY <2>1 DEF Held
  <1>8. \A k \in Reasons : k # kind => (SentFor(k)' <=> SentFor(k))
    <2> SUFFICES ASSUME NEW k \in Reasons, k # kind PROVE SentFor(k)' <=> SentFor(k)
      OBVIOUS
    <2>1. r \notin RefundsFor(k)
      BY <1>1 DEF RefundsFor
    <2>2. \A q \in RefundsFor(k) : refund'[q].sent = refund[q].sent
      BY <2>1, Ids DEF RefundsFor
    <2> QED BY <1>5, <2>2 DEF SentFor
  <1>9. kind \in Reasons => ~SentFor(kind) /\ SentFor(kind)'
    <2> SUFFICES ASSUME kind \in Reasons PROVE ~SentFor(kind) /\ SentFor(kind)'
      OBVIOUS
    <2>1. r \in RefundsFor(kind)
      BY <1>1, Ids DEF RefundsFor
    <2>2. \A q \in RefundsFor(kind) : q = r
      BY <2>1 DEF OneCloser, RefundOnce
    <2>3. ~SentFor(kind)
      BY <2>2 DEF SentFor
    <2>4. SentFor(kind)'
      BY <1>5, <2>1 DEF SentFor
    <2> QED BY <2>3, <2>4
  <1>10. books.DEPOSIT_HELD = Held - GivenBack
    BY DEF DepositInv, HeldOnBooks
  <1>11. "CANCELLATION" \in Reasons /\ "DEPOSIT_RETURN" \in Reasons
    BY DEF Reasons
  <1>12. Held \in Int /\ GivenBack \in Int
    <2>1. Held \in Int
      BY <1>1, <1>2, HeldMoved, <1>6
    <2>2. GivenBack \in Int
      BY <1>1, <1>2, <1>3 DEF GivenBack
    <2> QED BY <2>1, <2>2
  <1>13. CASE kind = "MANUAL"
    <2>1. GivenBack' = GivenBack
      BY <1>3, <1>8, <1>11, <1>13 DEF GivenBack
    <2>2. DepositOf(refund[r]) = 0
      BY <1>1, <1>13 DEF DepositOf
    <2> QED BY <1>2, <1>7, <1>10, <1>13, <2>1, <2>2 DEF HeldOnBooks
  <1>14. CASE kind = "LATE_PAYMENT"
    <2>1. GivenBack' = GivenBack
      BY <1>3, <1>8, <1>11, <1>14 DEF GivenBack, Reasons
    <2>2. DepositOf(refund[r]) = d /\ p \in Captured
      BY <1>1, <1>2, <1>14 DEF DepositOf, RefundFits
    <2>3. r \in LateRows(p)
      BY <1>1, <1>14 DEF LateRows
    <2>4. \A q \in LateRows(p) : q = r
      BY <1>2, <2>3 DEF DepositInv, LateOnce
    <2>5. HeldOf(p) = d
      BY <1>1, <2>2, <2>4 DEF HeldOf
    <2>6. HeldOf(p)' = 0
      BY <1>4, <1>2, <2>3 DEF HeldOf
    <2>7. Held' = Held + HeldOf(p)' - HeldOf(p)
      BY <1>2, <1>6, HeldMoved
    <2> QED BY <1>2, <1>10, <1>12, <2>1, <2>2, <2>5, <2>6, <2>7 DEF HeldOnBooks
  <1>15. CASE kind = "CANCELLATION"
    <2>1. GivenBack' = GivenBack + d
      BY <1>1, <1>2, <1>3, <1>8, <1>9, <1>11, <1>15 DEF GivenBack
    <2>2. DepositOf(refund[r]) = d
      BY <1>1, <1>2, <1>15 DEF DepositOf, RefundFits
    <2> QED BY <1>2, <1>7, <1>10, <1>12, <1>15, <2>1, <2>2 DEF HeldOnBooks
  <1>16. CASE kind = "DEPOSIT_RETURN"
    <2>1. GivenBack' = GivenBack + (d - KeptOfDeposit)
      BY <1>1, <1>2, <1>3, <1>8, <1>9, <1>11, <1>16 DEF GivenBack
    <2>2. DepositOf(refund[r]) = d - KeptOfDeposit
      BY <1>1, <1>2, <1>16 DEF DepositOf, RefundFits
    <2> QED BY <1>2, <1>3, <1>7, <1>10, <1>12, <1>16, <2>1, <2>2 DEF HeldOnBooks
  <1> QED BY <1>2, <1>13, <1>14, <1>15, <1>16 DEF Kinds

LEMMA SaveKeepsDeposit ==
  ASSUME PaymentsInv, OneCloser, DepositInv, NEW h \in All, Refunding!Save(h), RestOfRefund
  PROVE  DepositInv'
  <1>1. /\ PaymentsInv' /\ todo[h] # <<>> /\ Goes(h, <<>>) /\ Captured' = Captured
        /\ \A q \in RefundIds : q # Arg(h).id => refund'[q] = refund[q]
        /\ books'.DEPOSIT_HELD = books.DEPOSIT_HELD - DepositOf(refund[Arg(h).id])
    BY SaveHolds
  <1>2. Arg(h).op \in RefundOps
    BY RefundCalls DEF Refunding!Save, At, Arg, RefundOps
  <1>3. PICK r, st : r = Arg(h).id /\ st = Arg(h).status
    OBVIOUS
  <1>4. /\ r \in RefundIds /\ refund[r] # Refunding!NoRefund /\ refund[r] \in RefundRows
        /\ \A q : Arg(h) \in About(q) <=> q = r
    BY <1>1, <1>2, <1>3, HeadAbout
  <1>5. refund'[r] = [refund[r] EXCEPT !.sent = TRUE, !.status = st]
    BY <1>3, SaveHolds
  <1>6. refund'[r].sent = TRUE /\ refund'[r].kind = refund[r].kind /\ refund'[r].payment = refund[r].payment
    BY <1>4, <1>5 DEF RefundRows
  <1>7. UNCHANGED <<status, tier, kept, credit>> /\ journal' = journal
    BY DEF RestOfRefund, bookingVars, bookingRow
  <1>8. Moves(h, <<>>)
    BY <1>1, GoesMoves DEF PaymentsInv, CallsFit
  <1>9. \A S : One(<<>>, S) /\ ~Has(<<>>, S)
    BY Contents
  <1>10. refund[r].sent = FALSE
    <2>1. Len(todo[h]) \in Nat /\ todo[h][1] = Arg(h) /\ 1 \in 1..Len(todo[h])
      BY <1>1, <1>8 DEF Moves
    <2>2. Has(todo[h], About(r))
      BY <1>4, <2>1 DEF Has
    <2> QED BY <1>4, <2>2 DEF DepositInv, Apart
  <1>11. \A q \in RefundIds : ApartGoes(h, <<>>, q)
    BY <1>1, <1>3, <1>4, <1>9 DEF ApartGoes
  <1>12. \A o \in Orders : LateGoes(h, <<>>, o)
    BY <1>1, <1>3, <1>6, <1>9 DEF LateGoes, LateRows
  <1>13. ~(1 \in 1..Len(<<>>))
    <2>1. Len(<<>>) = 0
      OBVIOUS
    <2> QED BY <2>1
  <1>14. CreditFits' /\ KeptWhenOver' /\ (Paid' => Paid)
    BY <1>1, <1>7, <1>8, <1>13, BookingRests
  <1>15. HeldOnBooks'
    BY <1>1, <1>3, <1>4, <1>6, <1>7, <1>10, SaveMoves
  <1> QED BY <1>1, <1>8, <1>11, <1>12, <1>14, <1>15, DepositKept

LEMMA RefundKeepsDeposit ==
  ASSUME PaymentsInv, OneCloser, DepositInv, NEW w, Workers = {w}, NEW h \in All, RefundsPart(h)
  PROVE  DepositInv'
  <1>1. RestOfRefund
    BY DEF RefundsPart, RestOfRefund
  <1> QED BY <1>1, CheckKeepsDeposit, InsertKeepsDeposit, SendingKeepsDeposit, FailKeepsDeposit,
             SaveKeepsDeposit, RetryKeepsDeposit DEF RefundsPart, Refunding!RefundStep

(* A payment that is captured brings its deposit, and its booking is still *)
(* to be confirmed.                                                        *)
LEMMA GivenBackStays ==
  ASSUME refund' = refund, kept' = kept,
         journal' \cap {"DEPOSIT_KEPT"} = journal \cap {"DEPOSIT_KEPT"}
  PROVE  GivenBack' = GivenBack
  <1>1. KeptOfDeposit' = KeptOfDeposit
    BY DEF KeptOfDeposit
  <1>2. \A k : RefundsFor(k)' = RefundsFor(k)
    BY SameRows
  <1>3. \A k : SentFor(k)' <=> SentFor(k)
    BY <1>2 DEF SentFor
  <1>4. "DEPOSIT_KEPT" \in journal' <=> "DEPOSIT_KEPT" \in journal
    OBVIOUS
  <1> QED BY <1>1, <1>3, <1>4 DEF GivenBack

LEMMA NewlyHeld ==
  ASSUME PaymentsInv, DepositInv, NEW o \in Orders \ Captured, Captured' = Captured \cup {o},
         refund' = refund, kept' = kept, journal' = journal,
         books'.DEPOSIT_HELD = books.DEPOSIT_HELD + Booking.deposit
  PROVE  HeldOnBooks'
  <1>1. LateRows(o) = {}
    <2>1. \A r \in RefundIds : refund[r].kind = "LATE_PAYMENT" => refund[r].payment \in Captured
      BY DEF PaymentsInv, CallsFit, RefundRowsFit, RefundFits, Refunding!NoRefund
    <2> QED BY <2>1 DEF LateRows
  <1>2. \A p \in Orders : LateRows(p)' = LateRows(p)
    BY DEF LateRows
  <1>3. \A p \in Orders : p # o => HeldOf(p)' = HeldOf(p)
    BY <1>2 DEF HeldOf
  <1>4. HeldOf(o) = 0 /\ HeldOf(o)' = Booking.deposit
    BY <1>1, <1>2 DEF HeldOf
  <1>5. Held \in Int /\ Held' = Held + HeldOf(o)' - HeldOf(o)
    BY <1>3, HeldMoved
  <1>6. GivenBack' = GivenBack
    BY GivenBackStays
  <1>7. Booking.deposit \in Int /\ books.DEPOSIT_HELD \in Int /\ KeptOfDeposit \in Int
    BY CashIsInt DEF PaymentsInv, CallsFit, OtherTypes, KeptOfDeposit, BookingTypes
  <1>8. GivenBack \in Int
    BY <1>7 DEF GivenBack
  <1> QED BY <1>4, <1>5, <1>6, <1>7, <1>8 DEF DepositInv, HeldOnBooks

LEMMA CaptureKeepsDeposit ==
  ASSUME PaymentsInv, DepositInv, NEW h \in All, Capture(h)
  PROVE  DepositInv'
  <1>1. /\ PaymentsInv' /\ todo[h] # <<>> /\ UNCHANGED bookingVars /\ UNCHANGED <<refund, journal>>
        /\ \/ Goes(h, <<>>) /\ UNCHANGED books /\ Captured' = Captured
           \/ \E s, o : /\ s = [op |-> "confirm", order |-> o] /\ Goes(h, <<s>>)
                        /\ o \in Orders \ Captured /\ Captured' = Captured \cup {o}
                        /\ books'.DEPOSIT_HELD = books.DEPOSIT_HELD + Booking.deposit
    BY CaptureHolds
  <1>2. CASE Goes(h, <<>>) /\ UNCHANGED books /\ Captured' = Captured
    BY <1>1, <1>2, OneRowKept, MildReturn
  <1>3. CASE \E s, o : /\ s = [op |-> "confirm", order |-> o] /\ Goes(h, <<s>>)
                       /\ o \in Orders \ Captured /\ Captured' = Captured \cup {o}
                       /\ books'.DEPOSIT_HELD = books.DEPOSIT_HELD + Booking.deposit
    <2>1. PICK s, o : /\ s = [op |-> "confirm", order |-> o] /\ Goes(h, <<s>>)
                      /\ o \in Orders \ Captured /\ Captured' = Captured \cup {o}
                      /\ books'.DEPOSIT_HELD = books.DEPOSIT_HELD + Booking.deposit
      BY <1>3
    <2>2. UNCHANGED <<status, tier, kept, credit>>
      BY <1>1 DEF bookingVars, bookingRow
    <2>3. Moves(h, <<s>>)
      BY <2>1, GoesMoves DEF PaymentsInv, CallsFit
    <2>4. \A S : One(<<s>>, S) /\ (Has(<<s>>, S) <=> s \in S)
      BY Contents
    <2>5. s.op = "confirm" /\ s.order = o
      BY <2>1
    <2>6. (\A r : s \notin About(r)) /\ \A p : s \in Late(p) => p = o
      BY <2>5 DEF About, Late, Asking, RefundOps, AskOps
    <2>7. \A r \in RefundIds : ApartGoes(h, <<s>>, r)
      BY <1>1, <2>4, <2>6 DEF ApartGoes
    <2>8. \A p \in Orders : LateRows(p)' = LateRows(p)
      BY <1>1 DEF LateRows
    <2>9. \A p \in Orders : LateGoes(h, <<s>>, p)
      BY <2>1, <2>4, <2>6, <2>8 DEF LateGoes
    <2>10. HeadCredit(<<s>>[1])
      <3>1. <<s>>[1] = s
        OBVIOUS
      <3> QED BY <2>5, <3>1 DEF HeadCredit
    <2>11. CreditFits' /\ KeptWhenOver' /\ (Paid' => Paid)
      BY <1>1, <2>2, <2>3, <2>10, BookingRests
    <2>12. HeldOnBooks'
      BY <1>1, <2>1, <2>2, NewlyHeld
    <2>13. Captured \subseteq Captured'
      BY <2>1
    <2> QED BY <1>1, <2>3, <2>7, <2>9, <2>11, <2>12, <2>13, DepositKept
  <1> QED BY <1>1, <1>2, <1>3

(* The payment that confirms the booking is in time; any other is late.    *)
LEMMA MildInPlace ==
  ASSUME NEW h, NEW steps, Mild(steps)
  PROVE  /\ \A r : InPlace(h, steps, About(r)) /\ ~Has(steps, About(r))
         /\ \A o : InPlace(h, steps, Late(o)) /\ ~Has(steps, Late(o))
         /\ 1 \in 1..Len(steps) => HeadCredit(steps[1])
  <1>1. ASSUME NEW S, \A i \in 1..Len(steps) : steps[i] \notin S
        PROVE  InPlace(h, steps, S) /\ ~Has(steps, S)
    BY <1>1 DEF InPlace, One, Has
  <1> QED BY <1>1, TameIsApart DEF Mild

LEMMA NothingKeptYet ==
  ASSUME PaymentsInv, DepositInv
  PROVE  /\ status # "CANCELLED" => ~SentFor("CANCELLATION")
         /\ status # "COMPLETED" => ~SentFor("DEPOSIT_RETURN") /\ "DEPOSIT_KEPT" \notin journal
  <1>1. ASSUME NEW k \in Reasons, NEW r \in RefundsFor(k)
        PROVE  status = IF k = "CANCELLATION" THEN "CANCELLED" ELSE "COMPLETED"
    <2>1. r \in RefundIds /\ refund[r].kind = k /\ refund[r] # Refunding!NoRefund
      BY <1>1, Ids DEF RefundsFor, Refunding!NoRefund, Reasons
    <2>2. RefundFits(refund[r])
      BY <2>1 DEF PaymentsInv, CallsFit, RefundRowsFit
    <2> QED BY <1>1, <2>1, <2>2 DEF RefundFits, Reasons
  <1>2. "CANCELLATION" \in Reasons /\ "DEPOSIT_RETURN" \in Reasons
    BY DEF Reasons
  <1> QED BY <1>1, <1>2 DEF SentFor, DepositInv, KeptWhenOver

LEMMA ConfirmKeepsDeposit ==
  ASSUME PaymentsInv, DepositInv, NEW h \in All, Confirm(h)
  PROVE  DepositInv'
  <1>1. /\ PaymentsInv' /\ todo[h] # <<>> /\ Arg(h).op = "confirm"
        /\ UNCHANGED <<tier, kept, credit>> /\ UNCHANGED moneyVars
        /\ \/ /\ status = "AWAITING_PAYMENT" /\ status' = "CONFIRMED"
              /\ \E s, u : s.op = "onConfirmed" /\ u.op = "catch" /\ Goes(h, <<s, u>>)
           \/ /\ status # "AWAITING_PAYMENT" /\ status' = status
              /\ \E s \in Asking("LATE_PAYMENT") : s.payment = Arg(h).order /\ Goes(h, <<s>>)
    BY ConfirmHolds
  <1>2. PICK o : o = Arg(h).order
    OBVIOUS
  <1>3. Arg(h) \in Steps /\ Fits(h, Arg(h))
    BY <1>1, HeadPayment
  <1>4. Arg(h) \in PaymentSteps
    BY <1>1, <1>3 DEF Steps, RefundSteps, TransferSteps, AskOps
  <1>5. o \in Captured /\ o \in Orders /\ Arg(h) \in Late(o)
    BY <1>1, <1>2, <1>3, <1>4, PaymentForms DEF Fits, Late
  <1>6. refund' = refund /\ journal' = journal /\ books' = books /\ Captured' = Captured
    BY <1>1 DEF moneyVars, Captured, PaymentsIn
  <1>7. CASE status = "AWAITING_PAYMENT"
    <2>1. PICK s, u : s.op = "onConfirmed" /\ u.op = "catch" /\ Goes(h, <<s, u>>)
      BY <1>1, <1>7
    <2>2. PICK steps : steps = <<s, u>> /\ Goes(h, steps)
      BY <2>1
    <2>3. Mild(steps)
      BY <2>1, <2>2, OtherIsTame, MildShort DEF RefundOps, AskOps
    <2>4. Moves(h, steps)
      BY <2>2, GoesMoves DEF PaymentsInv, CallsFit
    <2>5. PICK L : L = Late(o)
      OBVIOUS
    <2>6. Arg(h) \in L /\ ~Has(steps, L) /\ AtMostOne(L) /\ (Busy(L) => LateRows(o) = {})
      BY <1>5, <2>3, <2>5, MildInPlace DEF DepositInv, LateOnce
    <2>7. \A g \in All : ~Has(todo'[g], L)
      BY <1>1, <2>4, <2>6, MovedAway
    <2>8. LateRows(o) = {}
      <3>1. Len(todo[h]) \in Nat /\ todo[h][1] = Arg(h) /\ 1 \in 1..Len(todo[h])
        BY <1>1, <2>4 DEF Moves
      <3> QED BY <2>6, <3>1 DEF Has, Busy
    <2>9. LateRows(o)' = {}
      BY <1>6, <2>8 DEF LateRows
    <2>10. InTime(o)'
      BY <1>5, <1>6, <2>5, <2>7, <2>9 DEF InTime, Busy, Late, Asking
    <2>11. CreditStands'
      BY <1>1, <1>7 DEF DepositInv, CreditFits, CreditStands
    <2>12. KeptWhenOver'
      BY <1>1, <1>6, <1>7 DEF DepositInv, KeptWhenOver
    <2>13. \A r \in RefundIds : RowStays(r)
      BY <1>6 DEF RowStays
    <2> QED BY <1>1, <1>5, <1>6, <2>3, <2>4, <2>10, <2>11, <2>12, <2>13, MildInPlace, NoDepositMoves
  <1>8. CASE status # "AWAITING_PAYMENT"
    <2>1. PICK s \in Asking("LATE_PAYMENT") : s.payment = o /\ Goes(h, <<s>>)
      BY <1>1, <1>2, <1>8
    <2>2. \A p : s \in Late(p) => Arg(h) \in Late(p)
      BY <1>5, <2>1 DEF Late, Asking, AskOps
    <2>3. \A r : s \notin About(r)
      BY <2>1 DEF Asking, About, AskOps, RefundOps
    <2>4. s.op \notin {"releaseCredit", "refundCredit", "postCredit"}
      BY <2>1 DEF Asking, AskOps
    <2>5. DepositRests
      BY <1>1, <1>6, <1>8, NothingRefunded
    <2> QED BY <1>1, <2>1, <2>2, <2>3, <2>4, <2>5, PassedOn
  <1> QED BY <1>7, <1>8

(* Referral credit goes back instead of cash only where no deposit was     *)
(* taken.                                                                  *)
LEMMA NoDepositInCredit ==
  ASSUME tier \in Tiers \cup {"NONE"}, NEW given, given \in {Refund(tier, Booking).credit, 0},
         NEW a, a = [Refund(tier, Booking) EXCEPT !.credit = given], CashOf(a) = 0, given > 0
  PROVE  a.deposit = 0
  <1>1. PICK rent, fee, deposit, used :
          /\ rent = RentBack(tier, Booking.rent) /\ fee = FeeBack(tier, Booking.fee)
          /\ deposit = Booking.deposit /\ used = CreditBack(Booking.credit, rent)
    OBVIOUS
  <1>2. /\ Booking.rent \in Nat /\ Booking.fee \in Nat /\ Booking.deposit \in Nat
        /\ Booking.credit \in Nat
    BY PaymentsAssumption
  <1>3. rent \in Nat /\ fee \in Nat
    BY <1>1, <1>2 DEF RentBack, FeeBack, Half
  <1>4. used \in Nat /\ used <= rent
    BY <1>1, <1>2, <1>3 DEF CreditBack
  <1>5. Refund(tier, Booking) = [rent |-> rent, fee |-> fee, deposit |-> deposit, credit |-> used]
    BY <1>1 DEF Refund
  <1>6. given = used
    BY <1>5
  <1>7. a.rent = rent /\ a.fee = fee /\ a.deposit = deposit /\ a.credit = used
    BY <1>5, <1>6
  <1>8. rent + fee + deposit - used = 0
    BY <1>7 DEF CashOf
  <1> QED BY <1>1, <1>2, <1>3, <1>4, <1>7, <1>8

LEMMA ReleaseKeepsDeposit ==
  ASSUME PaymentsInv, DepositInv, NEW h \in All, ReleaseCredit(h)
  PROVE  DepositInv'
  <1>1. PaymentsInv' /\ todo[h] # <<>> /\ UNCHANGED <<status, tier, kept>> /\ UNCHANGED moneyVars
    BY ReleaseCreditHolds
  <1>2. Arg(h).op = "releaseCredit"
    BY DEF ReleaseCredit, At, Arg
  <1>3. status = "CANCELLED" /\ tier \in Tiers \cup {"NONE"}
    BY <1>1, <1>2, HeadPayment DEF CancelOps, PaymentsInv, CallsFit, BookingTypes
  <1>4. PICK policy : policy = Refund(tier, Booking).credit
    OBVIOUS
  <1>5. CreditsBack = {NoRelease, policy} /\ CreditsBack' = CreditsBack
    BY <1>1, <1>4 DEF CreditsBack
  <1>6. credit \in CreditsBack /\ Arg(h).found \in CreditsBack
    BY <1>1, <1>2, <1>3 DEF DepositInv, CreditFits, CreditStands, HeadCredit, Arg
  <1>7. PICK given, cash, amounts, u :
          /\ given = IF Arg(h).found # NoRelease THEN Arg(h).found
                     ELSE IF credit = NoRelease /\ policy > 0 THEN policy ELSE 0
          /\ credit' = credit \/ (credit = NoRelease /\ credit' = policy)
          /\ amounts = [Refund(tier, Booking) EXCEPT !.credit = given]
          /\ cash = CashOf(amounts)
          /\ u.op = "onCancelled"
          /\ \/ /\ cash = 0 /\ given > 0
                /\ Goes(h, <<[op |-> "refundCredit", amounts |-> amounts]>>)
             \/ /\ ~(cash = 0 /\ given > 0)
                /\ Goes(h, <<Refunding!CreateRefund(Arg(h).order, "CANCELLATION", cash, amounts), u>>)
    BY <1>4, ReleaseCreditHolds, ZenonT(60)
  <1>8. given \in {policy, 0}
    BY <1>5, <1>6, <1>7
  <1>9. CreditStands'
    BY <1>1, <1>3, <1>5, <1>6, <1>7 DEF CreditStands
  <1>10. PICK steps : Goes(h, steps) /\ Mild(steps)
    <2>1. CASE cash = 0 /\ given > 0
      <3>1. PICK s : s = [op |-> "refundCredit", amounts |-> amounts]
        OBVIOUS
      <3>2. amounts.deposit = 0
        BY <1>3, <1>4, <1>7, <1>8, <2>1, NoDepositInCredit
      <3>3. Tame(s) /\ HeadCredit(s) /\ Goes(h, <<s>>)
        BY <1>7, <2>1, <3>1, <3>2 DEF Tame, HeadCredit, RefundOps, AskOps
      <3> QED BY <3>3, MildShort
    <2>2. CASE ~(cash = 0 /\ given > 0)
      <3>1. PICK s : s = Refunding!CreateRefund(Arg(h).order, "CANCELLATION", cash, amounts)
        OBVIOUS
      <3>2. Goes(h, <<s, u>>) /\ s.op = "createRefund" /\ s.kind = "CANCELLATION"
        BY <1>7, <2>2, <3>1 DEF Refunding!CreateRefund
      <3>3. Tame(s) /\ HeadCredit(s) /\ Tame(u)
        BY <1>7, <3>2 DEF Tame, HeadCredit, RefundOps, AskOps
      <3> QED BY <3>2, <3>3, MildShort
    <2> QED BY <2>1, <2>2
  <1>11. Moves(h, steps)
    BY <1>10, GoesMoves DEF PaymentsInv, CallsFit
  <1>12. refund' = refund /\ journal' = journal /\ books' = books /\ Captured' = Captured
    BY <1>1 DEF moneyVars, Captured, PaymentsIn
  <1>13. KeptWhenOver'
    BY <1>1, <1>12 DEF DepositInv, KeptWhenOver
  <1>14. \A r \in RefundIds : RowStays(r)
    BY <1>12 DEF RowStays
  <1>15. Paid' => Paid
    BY <1>1 DEF Paid
  <1> QED BY <1>1, <1>9, <1>10, <1>11, <1>12, <1>13, <1>14, <1>15, MildInPlace, NoDepositMoves

LEMMA PostKeepsDeposit ==
  ASSUME PaymentsInv, DepositInv, NEW h \in All, PostCredit(h)
  PROVE  DepositInv'
  <1>1. /\ PaymentsInv' /\ todo[h] # <<>> /\ Goes(h, <<>>) /\ Captured' = Captured
        /\ Arg(h).op = "postCredit"
        /\ books'.DEPOSIT_HELD = books.DEPOSIT_HELD - Arg(h).amounts.deposit
        /\ journal' = journal \cup {"REFUND_CREDIT"} /\ UNCHANGED bookingVars /\ refund' = refund
    BY PostCreditHolds
  <1>2. Arg(h).amounts.deposit = 0
    BY <1>1 DEF DepositInv, CreditFits, HeadCredit, Arg
  <1>3. books.DEPOSIT_HELD \in Int
    BY DEF PaymentsInv, CallsFit, OtherTypes
  <1>4. books'.DEPOSIT_HELD = books.DEPOSIT_HELD
    BY <1>1, <1>2, <1>3
  <1>5. DepositRests
    BY <1>1, <1>4 DEF DepositRests, RowStays, bookingVars, bookingRow
  <1> QED BY <1>1, <1>5, MildReturn

(* What the lender keeps of the deposit is taken off the books once.       *)
LEMMA KeepKeepsDeposit ==
  ASSUME PaymentsInv, DepositInv, NEW h \in All, KeepDeposit(h)
  PROVE  DepositInv'
  <1>1. /\ PaymentsInv' /\ todo[h] # <<>> /\ Goes(h, <<>>) /\ Captured' = Captured
        /\ status = "COMPLETED" /\ KeptOfDeposit \in Nat /\ UNCHANGED bookingVars /\ refund' = refund
        /\ \/ /\ "DEPOSIT_KEPT" \notin journal /\ journal' = journal \cup {"DEPOSIT_KEPT"}
              /\ books'.DEPOSIT_HELD = books.DEPOSIT_HELD - KeptOfDeposit
           \/ "DEPOSIT_KEPT" \in journal /\ journal' = journal /\ UNCHANGED books
    BY KeepDepositHolds
  <1>2. CASE journal' = journal /\ UNCHANGED books
    BY <1>1, <1>2, OneRowKept, MildReturn
  <1>3. CASE /\ "DEPOSIT_KEPT" \notin journal /\ journal' = journal \cup {"DEPOSIT_KEPT"}
             /\ books'.DEPOSIT_HELD = books.DEPOSIT_HELD - KeptOfDeposit
    <2>1. UNCHANGED <<status, tier, kept, credit>>
      BY <1>1 DEF bookingVars, bookingRow
    <2>2. Moves(h, <<>>)
      BY <1>1, GoesMoves DEF PaymentsInv, CallsFit
    <2>3. Mild(<<>>)
      BY MildShort
    <2>4. CreditStands'
      <3>1. CreditsBack' = CreditsBack
        BY <2>1 DEF CreditsBack
      <3> QED BY <2>1, <3>1 DEF DepositInv, CreditFits, CreditStands
    <2>5. CreditFits'
      BY <1>1, <2>1, <2>2, <2>3, <2>4, CreditKept, MildInPlace DEF PaymentsInv, CallsFit, DepositInv
    <2>6. KeptWhenOver'
      BY <1>1, <2>1 DEF KeptWhenOver
    <2>7. Held' = Held /\ \A kind \in Reasons : SentFor(kind)' <=> SentFor(kind)
      BY <1>1, HeldStays
    <2>8. KeptOfDeposit' = KeptOfDeposit
      BY <2>1 DEF KeptOfDeposit
    <2>9. GivenBack' = GivenBack + KeptOfDeposit /\ GivenBack \in Int
      <3>1. Booking.deposit \in Int
        BY CashIsInt
      <3>2. "CANCELLATION" \in Reasons /\ "DEPOSIT_RETURN" \in Reasons
        BY DEF Reasons
      <3> QED BY <1>1, <1>3, <2>7, <2>8, <3>1, <3>2 DEF GivenBack
    <2>10. Held \in Int
      <3>1. \E o : o \in Orders
        <4>1. PICK o \in Orders : InTime(o)
          BY <1>1 DEF DepositInv, PaidInTime, Paid
        <4> QED BY <4>1
      <3>2. \A o \in Orders : LateRows(o)' = LateRows(o)
        BY <1>1 DEF LateRows
      <3>3. \A o \in Orders : HeldOf(o)' = HeldOf(o)
        BY <1>1, <3>2 DEF HeldOf
      <3> QED BY <3>1, <3>3, HeldMoved
    <2>11. HeldOnBooks'
      <3>1. books.DEPOSIT_HELD = Held - GivenBack
        BY DEF DepositInv, HeldOnBooks
      <3> QED BY <1>1, <1>3, <2>7, <2>9, <2>10, <3>1 DEF HeldOnBooks
    <2>12. \A r \in RefundIds : ApartGoes(h, <<>>, r)
      BY <1>1, <2>3, MildInPlace DEF ApartGoes, InPlace
    <2>13. \A o \in Orders : LateGoes(h, <<>>, o)
      BY <1>1, <2>3, MildInPlace DEF LateGoes, InPlace, LateRows
    <2>14. Paid' => Paid
      BY <2>1 DEF Paid
    <2> QED BY <1>1, <2>2, <2>5, <2>6, <2>11, <2>12, <2>13, <2>14, DepositKept
  <1> QED BY <1>1, <1>2, <1>3

LEMMA PaymentKeepsDeposit ==
  ASSUME PaymentsInv, DepositInv, NEW h \in All, PaymentStep(h)
  PROVE  DepositInv'
  BY PayingKeepsDeposit, CaptureKeepsDeposit, ConfirmKeepsDeposit, CancellingKeepsDeposit,
     ReleaseKeepsDeposit, PostKeepsDeposit, SettleKeepsDeposit, KeepKeepsDeposit
     DEF PaymentStep

(* A booking that closes has given nothing back.                           *)
LEMMA ClosingKeepsDeposit ==
  ASSUME PaymentsInv, DepositInv, Cancel \/ Complete
  PROVE  DepositInv'
  <1>1. /\ PaymentsInv' /\ Closer \in All /\ todo[Closer] = <<>> /\ Others(Closer)
        /\ status = "CONFIRMED" /\ UNCHANGED <<credit, moneyVars>>
    BY CloseHolds
  <1>2. PICK s : todo'[Closer] = <<s>> /\ s.op \in {"refundCancelled", "settle"}
                 /\ status' \in {"CANCELLED", "COMPLETED"}
    BY CloseHolds
  <1>3. refund' = refund /\ journal' = journal /\ books' = books /\ Captured' = Captured
    BY <1>1 DEF moneyVars, Captured, PaymentsIn
  <1>4. Lists /\ Lists'
    BY <1>1 DEF PaymentsInv, CallsFit
  <1>5. Moves(Closer, <<s>>)
    BY <1>1, <1>2, <1>4, StartMoves
  <1>6. Mild(<<s>>)
    BY <1>2, OtherIsTame, MildShort DEF RefundOps, AskOps
  <1>7. \A r \in RefundIds : ApartGoes(Closer, <<s>>, r)
    BY <1>3, <1>6, MildInPlace DEF ApartGoes, InPlace
  <1>8. \A o \in Orders : LateGoes(Closer, <<s>>, o)
    BY <1>3, <1>6, MildInPlace DEF LateGoes, InPlace, LateRows
  <1>9. CreditFits'
    <2>1. CreditStands'
      BY <1>1, <1>2 DEF DepositInv, CreditFits, CreditStands, CreditsBack
    <2>2. ASSUME NEW g \in All, todo'[g] # <<>>
          PROVE  Head(todo'[g]).op \notin {"releaseCredit", "refundCredit", "postCredit"}
      <3>1. CASE g = Closer
        <4>1. Head(<<s>>) = s
          OBVIOUS
        <4> QED BY <1>2, <3>1, <4>1
      <3>2. CASE g # Closer
        <4>1. todo'[g] = todo[g]
          BY <1>1, <3>2 DEF Others
        <4>2. 1 \in 1..Len(todo[g]) /\ todo[g][1] = Head(todo[g])
          BY <1>4, <2>2, <4>1, CallSeq DEF Arg
        <4>3. Fits(g, Head(todo[g]))
          BY <1>4, <4>2, ListedFits
        <4> QED BY <1>1, <4>1, <4>3 DEF Fits, CancelOps
      <3> QED BY <3>1, <3>2
    <2>3. \A g \in All : todo'[g] # <<>> => HeadCredit(Head(todo[g]))'
      BY <2>2 DEF HeadCredit
    <2> QED BY <2>1, <2>3 DEF CreditFits
  <1>10. KeptWhenOver'
    BY <1>1, <1>3, NothingKeptYet DEF KeptWhenOver
  <1>11. HeldOnBooks'
    <2>1. Held' = Held /\ \A kind \in Reasons : SentFor(kind)' <=> SentFor(kind)
      BY <1>3, HeldStays
    <2>2. "CANCELLATION" \in Reasons /\ "DEPOSIT_RETURN" \in Reasons
      BY DEF Reasons
    <2>3. ~SentFor("CANCELLATION") /\ ~SentFor("DEPOSIT_RETURN") /\ "DEPOSIT_KEPT" \notin journal
      BY <1>1, NothingKeptYet
    <2>4. GivenBack = 0
      BY <2>3 DEF GivenBack
    <2>5. ~SentFor("CANCELLATION")' /\ ~SentFor("DEPOSIT_RETURN")'
      BY <2>1, <2>2, <2>3
    <2>6. GivenBack' = 0
      BY <1>3, <2>3, <2>5 DEF GivenBack
    <2> QED BY <1>3, <2>1, <2>4, <2>6 DEF DepositInv, HeldOnBooks
  <1>12. Paid
    BY <1>1 DEF Paid
  <1> QED BY <1>1, <1>3, <1>5, <1>7, <1>8, <1>9, <1>10, <1>11, <1>12, DepositKept

(* What moves no call.                                                     *)
LEMMA StillKeepsDeposit ==
  ASSUME PaymentsInv, DepositInv, todo' = todo, UNCHANGED <<tier, kept, journal>>,
         Captured' = Captured, books'.DEPOSIT_HELD = books.DEPOSIT_HELD,
         \A r \in RefundIds :
           /\ refund'[r].kind = refund[r].kind /\ refund'[r].payment = refund[r].payment
           /\ refund'[r].sent = refund[r].sent
           /\ refund'[r].status = refund[r].status \/ refund[r].sent = TRUE,
         CreditStands', KeptWhenOver', Paid' => Paid
  PROVE  DepositInv'
  <1>1. ASSUME NEW r \in RefundIds PROVE Apart(r)'
    <2>1. PICK A : A = About(r) /\ About(r)' = A
      BY DEF About
    <2>2. AtMostOne(A)'
      BY <2>1 DEF DepositInv, Apart, AtMostOne
    <2>3. \A h \in All : Has(todo[h], A) => /\ refund[r].sent = FALSE
                                            /\ h \notin Workers => refund[r].status = "PENDING"
      BY <2>1 DEF DepositInv, Apart
    <2>4. AtMostOne(About(r))'
      BY <2>1, <2>2
    <2>5. \A h \in All : Has(todo[h], About(r))' <=> Has(todo[h], A)
      BY <2>1 DEF About
    <2> QED BY <2>3, <2>4, <2>5 DEF Apart
  <1>2. ASSUME NEW o \in Orders PROVE LateOnce(o)' /\ (InTime(o) => InTime(o)')
    <2>1. PICK L : L = Late(o) /\ Late(o)' = L
      BY DEF Late, Asking
    <2>2. LateRows(o)' = LateRows(o)
      BY DEF LateRows
    <2>3. AtMostOne(L)' /\ (Busy(L)' <=> Busy(L))
      BY <2>1 DEF DepositInv, LateOnce, AtMostOne, Busy
    <2>4. AtMostOne(Late(o))' /\ (Busy(Late(o))' <=> Busy(L))
      BY <2>1, <2>3 DEF Late, Asking
    <2> QED BY <2>1, <2>2, <2>4 DEF DepositInv, LateOnce, InTime
  <1>3. PaidInTime'
    BY <1>2 DEF DepositInv, PaidInTime
  <1>4. CreditFits'
    <2>1. CreditsBack' = CreditsBack
      BY DEF CreditsBack
    <2> QED BY <2>1 DEF DepositInv, CreditFits, HeadCredit
  <1>5. HeldOnBooks'
    BY HeldStays, BooksStay DEF DepositInv
  <1> QED BY <1>1, <1>2, <1>3, <1>4, <1>5 DEF DepositInv

LEMMA GatewayKeepsDeposit ==
  ASSUME PaymentsInv, PaidFits, DepositInv, ~Off',
         \/ \E o \in Orders : Pay(o) \/ FailedAttempt(o)
         \/ \E to \in UnpaidCloses : CloseUnpaid(to)
         \/ \E r \in Refunding!RefundIds, ok \in BOOLEAN : RefundSettled(r, ok)
         \/ UNCHANGED vars
  PROVE  DepositInv'
  <1>1. CreditsBack' = CreditsBack \/ tier' # tier
    BY DEF CreditsBack
  <1>2. CASE \E r \in Refunding!RefundIds, ok \in BOOLEAN : RefundSettled(r, ok)
    <2>1. PICK r \in RefundIds, ok \in BOOLEAN : RefundSettled(r, ok)
      BY <1>2, Ids
    <2>2. /\ UNCHANGED <<status, tier, kept, credit, journal>>
          /\ todo' = todo /\ books' = books /\ payment' = payment
      BY <2>1 DEF RefundSettled, Refunding!Settle, bookingVars, bookingRow
    <2>3. Captured' = Captured
      BY <2>2 DEF Captured, PaymentsIn
    <2>4. \A q \in RefundIds :
            /\ refund'[q].kind = refund[q].kind /\ refund'[q].payment = refund[q].payment
            /\ refund'[q].sent = refund[q].sent
            /\ refund'[q].status = refund[q].status \/ refund[q].sent = TRUE
      BY <2>1, SettledHolds
    <2>5. CreditStands'
      BY <1>1, <2>2 DEF DepositInv, CreditFits, CreditStands
    <2>6. KeptWhenOver' /\ (Paid' => Paid)
      BY <2>2 DEF DepositInv, KeptWhenOver, Paid
    <2> QED BY <2>2, <2>3, <2>4, <2>5, <2>6, StillKeepsDeposit
  <1>3. CASE \E to \in UnpaidCloses : CloseUnpaid(to)
    <2>1. /\ status = "AWAITING_PAYMENT" /\ status' = "EXPIRED"
          /\ UNCHANGED <<tier, kept, moneyVars, todo>>
      BY <1>3, PaymentsAssumption DEF CloseUnpaid, PaidFits, Paid, Off
    <2>2. UNCHANGED <<payment, refund, books, journal>> /\ Captured' = Captured
      BY <2>1 DEF moneyVars, Captured, PaymentsIn
    <2>3. CreditStands' /\ KeptWhenOver' /\ ~Paid'
      BY <2>1, <2>2 DEF DepositInv, CreditStands, KeptWhenOver, Paid
    <2> QED BY <2>1, <2>2, <2>3, StillKeepsDeposit
  <1>4. CASE (\E o \in Orders : Pay(o) \/ FailedAttempt(o)) \/ UNCHANGED vars
    <2>1. UNCHANGED <<bookingVars, moneyVars, todo>>
      BY <1>4 DEF Pay, FailedAttempt, vars
    <2>2. /\ UNCHANGED <<status, tier, kept, credit, journal, refund, books, todo>>
          /\ Captured' = Captured
      BY <2>1 DEF bookingVars, bookingRow, moneyVars, Captured, PaymentsIn
    <2>3. CreditStands'
      BY <1>1, <2>2 DEF DepositInv, CreditFits, CreditStands
    <2>4. KeptWhenOver' /\ (Paid' => Paid)
      BY <2>2 DEF DepositInv, KeptWhenOver, Paid
    <2> QED BY <2>2, <2>3, <2>4, StillKeepsDeposit
  <1> QED BY <1>2, <1>3, <1>4

LEMMA NoCalls ==
  ASSUME \A h \in All : todo[h] = <<>>, NEW S
  PROVE  AtMostOne(S) /\ ~Busy(S) /\ \A h \in All : ~Has(todo[h], S)
  BY EmptyLists DEF AtMostOne, Busy

LEMMA RestartKeepsDeposit ==
  ASSUME PaymentsInv, DepositInv, Crash
  PROVE  DepositInv'
  <1>1. UNCHANGED <<bookingVars, moneyVars>> /\ \A h \in All : todo'[h] = <<>>
    BY CrashHolds
  <1>2. /\ UNCHANGED <<status, tier, kept, credit, journal, refund, books>>
        /\ Captured' = Captured
    BY <1>1 DEF bookingVars, bookingRow, moneyVars, Captured, PaymentsIn
  <1>3. \A S : AtMostOne(S)' /\ ~Busy(S)' /\ \A h \in All : ~Has(todo'[h], S)
    BY <1>1, EmptyLists DEF AtMostOne, Busy
  <1>4. \A r \in RefundIds : Apart(r)'
    <2> TAKE r \in RefundIds
    <2>1. PICK A : A = About(r) /\ About(r)' = A
      BY DEF About
    <2>2. AtMostOne(About(r))' /\ \A h \in All : ~Has(todo[h], About(r))'
      BY <1>3, <2>1 DEF About
    <2> QED BY <2>2 DEF Apart
  <1>5. ASSUME NEW o \in Orders PROVE LateOnce(o)' /\ (InTime(o) => InTime(o)')
    <2>1. PICK L : L = Late(o) /\ Late(o)' = L
      BY DEF Late, Asking
    <2>2. AtMostOne(Late(o))' /\ ~Busy(Late(o))'
      BY <1>3, <2>1 DEF Late, Asking
    <2>3. LateRows(o)' = LateRows(o)
      BY <1>2 DEF LateRows
    <2> QED BY <1>2, <2>2, <2>3 DEF DepositInv, LateOnce, InTime
  <1>6. PaidInTime'
    BY <1>2, <1>5 DEF DepositInv, PaidInTime, Paid
  <1>7. CreditFits'
    <2>1. CreditsBack' = CreditsBack
      BY <1>2 DEF CreditsBack
    <2> QED BY <1>1, <1>2, <2>1 DEF DepositInv, CreditFits, CreditStands
  <1>8. KeptWhenOver'
    BY <1>2 DEF DepositInv, KeptWhenOver
  <1>9. HeldOnBooks'
    BY <1>2, HeldStays, BooksStay DEF DepositInv
  <1> QED BY <1>4, <1>5, <1>6, <1>7, <1>8, <1>9 DEF DepositInv

LEMMA NoDepositYet ==
  ASSUME Init
  PROVE  DepositInv
  <1>1. /\ \A h \in All : todo[h] = <<>>
        /\ \A r \in RefundIds : refund[r].kind = "NONE" /\ refund[r].sent = FALSE
        /\ Captured = {}
    BY Ids DEF Init, HandlersInit, Refunding!NoRefund, Captured, PaymentsIn, NoPayment
  <1>2. \A r \in RefundIds : Apart(r)
    BY <1>1, NoCalls DEF Apart
  <1>3. \A o \in Orders : LateRows(o) = {}
    BY <1>1 DEF LateRows
  <1>4. \A o \in Orders : LateOnce(o)
    BY <1>1, <1>3, NoCalls DEF LateOnce
  <1>5. PaidInTime
    BY DEF Init, PaidInTime, Paid
  <1>6. CreditFits
    BY <1>1 DEF Init, CreditFits, CreditStands
  <1>7. KeptWhenOver
    BY DEF Init, KeptWhenOver
  <1>8. Held = 0
    <2>1. \A o \in Orders : HeldOf(o) = 0
      BY <1>1 DEF HeldOf
    <2>2. [o \in Orders |-> HeldOf(o)] = [o \in Orders |-> 0]
      BY <2>1
    <2> QED BY <2>2, Finite, SumOfZeros DEF Held
  <1>9. GivenBack = 0
    <2>1. ~SentFor("CANCELLATION") /\ ~SentFor("DEPOSIT_RETURN")
      BY <1>1, Ids DEF SentFor, RefundsFor
    <2>2. "DEPOSIT_KEPT" \notin journal
      BY DEF Init
    <2> QED BY <2>1, <2>2 DEF GivenBack
  <1>10. HeldOnBooks
    BY <1>8, <1>9 DEF Init, Zero, HeldOnBooks
  <1> QED BY <1>2, <1>4, <1>5, <1>6, <1>7, <1>10 DEF DepositInv

LEMMA NextKeepsDeposit ==
  ASSUME PaymentsInv, OneCloser, PaidFits, DepositInv, NEW w, Workers = {w}, [Next]_vars, ~Off'
  PROVE  DepositInv'
  <1>1. CASE \E h \in All : Step(h)
    BY <1>1, PaymentKeepsDeposit, SweepKeepsDeposit, RefundKeepsDeposit, PayoutKeepsDeposit DEF Step
  <1>2. CASE \E h \in All : \/ Checkout(h) \/ Sweep(h)
                            \/ \E o \in Orders : Verify(h, o)
                            \/ \E e \in Events : Webhook(h, e)
                            \/ \E p \in Unrefunded, amount \in GoodwillGiven : GiveGoodwill(h, p, amount)
    BY <1>2, StartsKeepDeposit
  <1>3. CASE Cancel \/ Complete
    BY <1>3, ClosingKeepsDeposit
  <1>4. CASE Crash
    BY <1>4, RestartKeepsDeposit
  <1>5. CASE \/ \E o \in Orders : Pay(o) \/ FailedAttempt(o)
             \/ \E to \in UnpaidCloses : CloseUnpaid(to)
             \/ \E r \in Refunding!RefundIds, ok \in BOOLEAN : RefundSettled(r, ok)
             \/ UNCHANGED vars
    BY <1>5, GatewayKeepsDeposit
  <1> QED BY <1>1, <1>2, <1>3, <1>4, <1>5 DEF Next

(* What was given back was held: the booking was paid in time, and that    *)
(* payment's deposit is at most what its one refund gives back, or its     *)
(* settlement keeps and returns.                                           *)
LEMMA EnoughHeld ==
  ASSUME PaymentsInv, DepositInv
  PROVE  books.DEPOSIT_HELD >= 0
  <1>1. Booking.deposit \in Nat /\ kept \in Nat
    BY CashIsInt DEF PaymentsInv, CallsFit, BookingTypes
  <1>2. KeptOfDeposit \in Nat /\ KeptOfDeposit <= Booking.deposit
    BY <1>1 DEF KeptOfDeposit
  <1>3. Held \in Nat /\ \A o \in Orders : Held >= HeldOf(o)
    <2>1. PICK f : f = [o \in Orders |-> HeldOf(o)]
      OBVIOUS
    <2>2. f \in [Orders -> Int] /\ \A o \in Orders : f[o] >= 0 /\ f[o] = HeldOf(o)
      BY <1>1, <2>1 DEF HeldOf
    <2>3. SumFunction(f) \in Nat /\ \A o \in Orders : SumFunction(f) >= f[o]
      BY <2>2, Finite, SumAtLeast
    <2> QED BY <2>1, <2>2, <2>3 DEF Held
  <1>4. GivenBack <= Held /\ GivenBack \in Nat
    <2>1. CASE Paid
      <3>1. PICK o \in Orders : InTime(o)
        BY <2>1 DEF DepositInv, PaidInTime
      <3>2. HeldOf(o) = Booking.deposit
        BY <3>1 DEF InTime, HeldOf
      <3>3. GivenBack <= Booking.deposit /\ GivenBack \in Nat
        BY <1>1, <1>2, NothingKeptYet DEF GivenBack
      <3> QED BY <1>1, <1>3, <3>2, <3>3
    <2>2. CASE ~Paid
      <3>1. GivenBack = 0
        BY <2>2, NothingKeptYet DEF GivenBack, Paid
      <3> QED BY <1>3, <3>1
    <2> QED BY <2>1, <2>2
  <1> QED BY <1>3, <1>4 DEF DepositInv, HeldOnBooks

(* The deposit of every booking that may be closed in any way, whenever it *)
(* was not cancelled before it was paid.                                   *)
DepositStands == OneCloser /\ PaidFits /\ (Off \/ DepositInv)

LEMMA DepositStandsOn ==
  ASSUME NEW w, Workers = {w}
  PROVE  /\ Init => DepositStands
         /\ PaymentsInv /\ DepositStands /\ [Next]_vars => DepositStands'
  <1>1. Init => DepositStands
    BY InitCloses, NotPaidYet, NoDepositYet DEF DepositStands
  <1>2. PaymentsInv /\ DepositStands /\ [Next]_vars => DepositStands'
    <2> SUFFICES ASSUME PaymentsInv, DepositStands, [Next]_vars PROVE DepositStands'
      OBVIOUS
    <2>1. OneCloser' /\ PaidFits' /\ (Off => Off')
      BY NextCloses, PaidGoesOn DEF DepositStands
    <2>2. DepositInv /\ ~Off' => DepositInv'
      BY NextKeepsDeposit DEF DepositStands
    <2> QED BY <2>1, <2>2 DEF DepositStands
  <1> QED BY <1>1, <1>2

(* Where one process runs the sweep, as deployed, a deposit is not handed  *)
(* out twice, whether the booking expires, is cancelled or completes: what *)
(* is held on the books is what the payments brought, less what a late     *)
(* payment's refund, the cancellation's refund, the deposit's return and   *)
(* the lender's share of it took, and no two of the last three take the    *)
(* same.  Only a booking that was cancelled before it was paid is left out *)
(* (payments.service.ts, capture, refundCancelled and settle, and          *)
(* refunds.service.ts).                                                    *)
THEOREM DepositNotGivenTwice ==
  ASSUME NEW w, Workers = {w}
  PROVE  Spec => []DepositCovered
  <1>1. Init => DepositStands
    BY DepositStandsOn
  <1>2. PaymentsInv /\ DepositStands /\ [Next]_vars => DepositStands'
    BY DepositStandsOn
  <1>3. PaymentsInv /\ DepositStands => DepositCovered
    BY EnoughHeld DEF DepositStands, Off, DepositCovered
  <1> QED BY <1>1, <1>2, <1>3, PaymentsStayFit, PTL DEF Spec

----------------------------------------------------------------------------
(* The lender's share.  A step keeps what is said of it if only one call   *)
(* is to pay it, after the refund.                                         *)
LEMMA SharingKept ==
  ASSUME Lists, Lists', ShareInv, NEW h \in All, NEW steps, Moves(h, steps), One(steps, Sharing),
         Has(steps, Sharing) => ~Busy(Sharing) \/ (todo[h] # <<>> /\ Arg(h) \in Sharing),
         Has(todo'[h], Sharing) => Refunded' \/ AsksSome(todo'[h]), Refunded => Refunded',
         1 \in 1..Len(steps) => steps[1].op \notin CreditOps, SharesFit'
  PROVE  ShareInv'
  <1>1. PICK S, C : /\ S = Sharing /\ Sharing' = S
                    /\ C = Asking("CANCELLATION") /\ Asking("CANCELLATION")' = C
    BY DEF Sharing, Asking
  <1>2. AtMostOne(S)'
    BY <1>1, MovedOnce DEF ShareInv
  <1>3. ASSUME NEW g \in All, Has(todo'[g], S)
        PROVE  Refunded' \/ (todo'[g] # <<>> /\ Head(todo'[g]) \in C /\ Head(todo'[g]).cash > 0)
    <2>1. CASE g = h
      BY <1>1, <1>3, <2>1 DEF AsksSome
    <2>2. CASE g # h
      <3>1. todo'[g] = todo[g]
        BY <2>2 DEF Moves, Others
      <3>2. Refunded \/ AsksSome(todo[g])
        BY <1>1, <1>3, <3>1 DEF ShareInv
      <3> QED BY <1>1, <3>1, <3>2 DEF AsksSome
    <2> QED BY <2>1, <2>2
  <1>4. ASSUME NEW g \in All, todo'[g] # <<>> PROVE Head(todo'[g]).op \notin CreditOps
    <2>1. CASE g = h
      <3>1. (1 \in 1..Len(steps) /\ Head(todo'[h]) = steps[1]) \/ Head(todo'[h]).op \in LaterOps
        BY <1>4, <2>1, HeadGoes
      <3> QED BY <2>1, <3>1 DEF LaterOps, CreditOps
    <2>2. CASE g # h
      BY <1>4, <2>2 DEF ShareInv, Moves, Others
    <2> QED BY <2>1, <2>2
  <1>5. AtMostOne(Sharing)'
    BY <1>1, <1>2 DEF Sharing
  <1>6. (\A g \in All : Has(todo[g], Sharing) => Refunded \/ AsksSome(todo[g]))'
    BY <1>1, <1>3 DEF AsksSome
  <1>7. (\A g \in All : todo[g] # <<>> => Head(todo[g]).op \notin CreditOps)'
    BY <1>4 DEF CreditOps
  <1> QED BY <1>5, <1>6, <1>7 DEF ShareInv

(* The transfers of kept rent stay what they were: none before the booking *)
(* closes, and afterwards no new one.                                      *)
LEMMA SharesRest ==
  ASSUME ShareInv, Refunded => Refunded', Shares' \subseteq Shares \/ status' = "COMPLETED",
         status' = status \/ status \notin {"CANCELLED", "COMPLETED"},
         \A g \in All : Has(todo'[g], Sharing) => Busy(Sharing) \/ Shares = {}
  PROVE  SharesFit'
  <1>1. PICK S : S = Sharing /\ Sharing' = S
    BY DEF Sharing
  <1>2. status' = "CANCELLED" /\ Shares' # {} => ~Busy(S)'
    <2> SUFFICES ASSUME status' = "CANCELLED", Shares' # {}, NEW g \in All, Has(todo'[g], S)
                 PROVE  FALSE
      BY DEF Busy
    <2>1. Shares # {}
      OBVIOUS
    <2>2. status = "CANCELLED" /\ Busy(Sharing)
      BY <1>1, <2>1 DEF ShareInv, SharesFit
    <2> QED BY <2>1, <2>2 DEF ShareInv, SharesFit
  <1>3. status' = "CANCELLED" /\ Shares' # {} => ~Busy(Sharing)'
    BY <1>1, <1>2 DEF Sharing
  <1> QED BY <1>3 DEF ShareInv, SharesFit

RestOfShares ==
  /\ Shares' \subseteq Shares \/ status' = "COMPLETED"
  /\ status' = status \/ status \notin {"CANCELLED", "COMPLETED"}

(* A call that is not to pay the lender after it.                          *)
LEMMA NoSharingHere ==
  ASSUME PaymentsInv, ShareInv, NEW h \in All, Others(h), RestOfShares, Refunded => Refunded',
         ~Has(todo'[h], Sharing), todo'[h] # <<>> => Head(todo'[h]).op \notin CreditOps
  PROVE  ShareInv'
  <1>1. PICK S, C : /\ S = Sharing /\ Sharing' = S
                    /\ C = Asking("CANCELLATION") /\ Asking("CANCELLATION")' = C
    BY DEF Sharing, Asking
  <1>2. \A g \in All : g # h => todo'[g] = todo[g]
    BY DEF Others
  <1>3. \A g \in All : Has(todo'[g], S) => g # h /\ Has(todo[g], S)
    BY <1>1, <1>2
  <1>4. AtMostOne(S)'
    <2>1. ASSUME NEW g \in All PROVE One(todo'[g], S)
      <3>1. CASE g = h
        BY <1>1, <3>1 DEF One, Has
      <3>2. CASE g # h
        BY <1>1, <1>2, <3>2 DEF ShareInv, AtMostOne
      <3> QED BY <3>1, <3>2
    <2>2. \A f, g \in All : Has(todo'[f], S) /\ Has(todo'[g], S) => f = g
      BY <1>1, <1>3 DEF ShareInv, AtMostOne
    <2> QED BY <2>1, <2>2 DEF AtMostOne
  <1>5. ASSUME NEW g \in All, Has(todo'[g], S)
        PROVE  Refunded' \/ (todo'[g] # <<>> /\ Head(todo'[g]) \in C /\ Head(todo'[g]).cash > 0)
    BY <1>1, <1>2, <1>3, <1>5 DEF ShareInv, AsksSome
  <1>6. \A g \in All : Has(todo'[g], Sharing) => Busy(Sharing)
    BY <1>1, <1>3 DEF Busy
  <1>7. SharesFit'
    BY <1>6, SharesRest DEF RestOfShares
  <1>8. AtMostOne(Sharing)'
    BY <1>1, <1>4 DEF Sharing
  <1>9. (\A g \in All : Has(todo[g], Sharing) => Refunded \/ AsksSome(todo[g]))'
    BY <1>1, <1>5 DEF AsksSome
  <1>10. (\A g \in All : todo[g] # <<>> => Head(todo[g]).op \notin CreditOps)'
    BY <1>2 DEF ShareInv, CreditOps
  <1> QED BY <1>7, <1>8, <1>9, <1>10 DEF ShareInv

(* In particular one that is not of a cancelled booking.                   *)
LEMMA AsideFromSharing ==
  ASSUME PaymentsInv, PaymentsInv', ShareInv, NEW h \in All, Others(h), RestOfShares,
         Refunded => Refunded', ~MayClose(h) \/ status' # "CANCELLED"
  PROVE  ShareInv'
  <1>1. PICK q, F : q = todo'[h] /\ F = FitSteps(h)' /\ q \in Seq(F)
    BY DEF PaymentsInv, CallsFit, Lists, ListsOf
  <1>2. \A s \in F : s.op \notin CancelOps
    BY <1>1, HeadMayClose DEF FitSteps, Fits, OpsOf, MayClose, AskOps, RefundOps, SendOps, PayOps,
                              CancelOps, ReverseOps, SettleOps, SweepOps
  <1>3. ~Has(q, Sharing)
    BY <1>1, <1>2 DEF Has, Sharing, LenderOps, CancelOps
  <1>4. q # <<>> => Head(q).op \notin CreditOps
    <2>1. q # <<>> => Head(q) \in F
      BY <1>1
    <2> QED BY <1>2, <2>1 DEF CreditOps, CancelOps
  <1> QED BY <1>1, <1>3, <1>4, NoSharingHere

(* A call that is not to pay the lender because of this step.              *)
LEMMA OrdinaryMove ==
  ASSUME PaymentsInv, PaymentsInv', ShareInv, NEW h \in All, NEW steps, Moves(h, steps),
         RestOfShares, Refunded => Refunded',
         \A i \in 1..Len(steps) : steps[i].op \notin LenderOps \cup CreditOps,
         Refunded' \/ ~AsksSome(todo[h])
  PROVE  ShareInv'
  <1>1. ~Has(steps, Sharing) /\ One(steps, Sharing)
    BY DEF Has, One, Sharing
  <1>2. Has(todo'[h], Sharing) => Has(todo[h], Sharing)
    BY <1>1, MovedHas
  <1>3. Has(todo'[h], Sharing) => Refunded'
    BY <1>2 DEF ShareInv
  <1>4. \A g \in All : Has(todo'[g], Sharing) => Busy(Sharing)
    BY <1>2 DEF Moves, Others, Busy
  <1>5. SharesFit'
    BY <1>4, SharesRest DEF RestOfShares
  <1> QED BY <1>1, <1>3, <1>5, SharingKept DEF PaymentsInv, CallsFit

LEMMA OrdinaryCall ==
  ASSUME PaymentsInv, PaymentsInv', ShareInv, NEW h \in All, todo[h] # <<>>,
         NEW s, s.op \notin LenderOps \cup CreditOps, Goes(h, <<>>) \/ Goes(h, <<s>>),
         RestOfShares, Refunded => Refunded', Refunded' \/ ~AsksSome(todo[h])
  PROVE  ShareInv'
  <1>1. PICK steps : Goes(h, steps) /\ (steps = <<>> \/ steps = <<s>>)
    OBVIOUS
  <1>2. Moves(h, steps)
    BY <1>1, GoesMoves DEF PaymentsInv, CallsFit
  <1>3. \A i \in 1..Len(steps) : steps[i].op \notin LenderOps \cup CreditOps
    BY <1>1
  <1> QED BY <1>2, <1>3, OrdinaryMove

(* Steps of Razorpay, of the borrower or of time.                          *)
LEMMA StillShared ==
  ASSUME ShareInv, todo' = todo, RestOfShares, Refunded => Refunded'
  PROVE  ShareInv'
  <1>1. PICK S, C : /\ S = Sharing /\ Sharing' = S
                    /\ C = Asking("CANCELLATION") /\ Asking("CANCELLATION")' = C
    BY DEF Sharing, Asking
  <1>2. SharesFit'
    BY SharesRest DEF RestOfShares, Busy
  <1>3. AtMostOne(S)'
    BY <1>1 DEF ShareInv, AtMostOne
  <1>4. AtMostOne(Sharing)'
    BY <1>1, <1>3 DEF Sharing
  <1>5. \A g \in All : Has(todo'[g], S) =>
          Refunded' \/ (todo'[g] # <<>> /\ Head(todo'[g]) \in C /\ Head(todo'[g]).cash > 0)
    BY <1>1 DEF ShareInv, AsksSome
  <1>6. (\A g \in All : Has(todo[g], Sharing) => Refunded \/ AsksSome(todo[g]))'
    BY <1>1, <1>5 DEF AsksSome
  <1>7. (\A g \in All : todo[g] # <<>> => Head(todo[g]).op \notin CreditOps)'
    BY DEF ShareInv, CreditOps
  <1> QED BY <1>2, <1>4, <1>6, <1>7 DEF ShareInv

(* The refunds.                                                            *)
LEMMA RefundRestShares ==
  ASSUME RestOfRefund
  PROVE  RestOfShares
  <1>1. transfer' = transfer /\ status' = status
    BY RestKept DEF RestOfRefund
  <1>2. Shares' \subseteq Shares
    BY <1>1, SharesStay
  <1> QED BY <1>1, <1>2 DEF RestOfShares

LEMMA StillRefunded ==
  ASSUME \A r \in RefundIds : refund'[r].kind = refund[r].kind \/ refund[r] = Refunding!NoRefund
  PROVE  Refunded => Refunded'
  <1>1. \A r \in RefundsFor("CANCELLATION") : refund[r] # Refunding!NoRefund
    BY DEF RefundsFor, Refunding!NoRefund
  <1> QED BY <1>1, Ids DEF Refunded, RefundsFor

(* A refund that was found to be within the payment is written next.       *)
LEMMA CheckAsks ==
  ASSUME PaymentsInv, NEW h \in All, MayClose(h), Refunding!Check(h), AsksSome(todo[h]),
         todo'[h] # <<>>
  PROVE  AsksSome(todo'[h])
  <1>1. PICK x, s : x = Arg(h) /\ s = [x EXCEPT !.op = "insertRefund"]
    OBVIOUS
  <1>2. /\ todo[h] # <<>> /\ x \in Asking("CANCELLATION") /\ x.cash > 0 /\ x.cash \in Int
    BY <1>1 DEF AsksSome, Arg, Asking, AskOps, RefundSteps
  <1>3. x.op = "createRefund"
    BY <1>1, RefundCalls DEF Refunding!Check, At, Arg
  <1>4. s \in Asking("CANCELLATION") /\ s.cash > 0
    BY <1>1, <1>2, <1>3 DEF Asking, AskOps, RefundSteps
  <1>5. Throw(h) \/ Continue(h, <<s>>)
    BY <1>1, <1>2, RefundCalls DEF Refunding!Check
  <1>6. PICK q, F, L : /\ q = todo[h] /\ F = FitSteps(h) /\ L = LaterSteps(h)
                       /\ q \in ListsOf(F, L) /\ h \in DOMAIN todo
    BY DEF PaymentsInv, CallsFit, Lists
  <1>7. CASE Throw(h)
    <2>1. \A f \in F : f.op # "catch"
      BY <1>6 DEF FitSteps, Fits, OpsOf, AskOps, RefundOps, SendOps, CancelOps, ReverseOps,
                  SettleOps, SweepOps
    <2>2. Catches(h) = {}
      BY <1>6, <2>1 DEF Catches, ListsOf
    <2> QED BY <1>6, <1>7, <2>2 DEF Throw
  <1>8. CASE Continue(h, <<s>>)
    <2>1. todo'[h] = <<s>> \o Tail(q)
      BY <1>6, <1>8 DEF Continue
    <2>2. PICK u : u = Tail(q) /\ u \in Seq(L)
      BY <1>2, <1>6 DEF ListsOf
    <2>3. <<s>> \o u # <<>> /\ Head(<<s>> \o u) = s
      BY <2>2
    <2> QED BY <1>4, <2>1, <2>2, <2>3 DEF AsksSome
  <1> QED BY <1>5, <1>7, <1>8

LEMMA CheckShares ==
  ASSUME PaymentsInv, ShareInv, NEW h \in All, MayClose(h), Refunding!Check(h), RestOfRefund
  PROVE  ShareInv'
  <1>1. PICK s : s = [Arg(h) EXCEPT !.op = "insertRefund"]
    OBVIOUS
  <1>2. /\ PaymentsInv' /\ todo[h] # <<>>
        /\ Goes(h, <<>>) \/ Goes(h, <<s>>) \/ (Dropped(h) /\ Others(h))
    BY <1>1, CheckHolds
  <1>3. s.op = "insertRefund"
    <2>1. Arg(h).op = "createRefund" /\ Arg(h) \in Steps
      BY <1>2, NextStep, RefundCalls DEF Refunding!Check, At, Arg, PaymentsInv, CallsFit
    <2>2. Arg(h) \in [op : AskOps, payment : Orders, kind : Kinds, cash : Int, amounts : Amounts]
      BY <2>1, RefundForms DEF AskOps
    <2> QED BY <1>1, <2>2
  <1>4. PICK steps : Moves(h, steps) /\ (steps = <<>> \/ steps = <<s>>)
    BY <1>2, GoesMoves, DropMoves DEF PaymentsInv, CallsFit
  <1>5. \A i \in 1..Len(steps) : steps[i].op \notin LenderOps \cup CreditOps
    BY <1>3, <1>4 DEF LenderOps, CreditOps
  <1>6. Refunded => Refunded'
    BY StillRefunded DEF Refunding!Check
  <1>7. ~Has(steps, Sharing) /\ One(steps, Sharing)
    BY <1>5 DEF Has, One, Sharing
  <1>8. Has(todo'[h], Sharing) => Has(todo[h], Sharing)
    BY <1>4, <1>7, MovedHas
  <1>9. Has(todo'[h], Sharing) => Refunded' \/ AsksSome(todo'[h])
    <2> SUFFICES ASSUME Has(todo'[h], Sharing), ~Refunded PROVE AsksSome(todo'[h])
      BY <1>6
    <2>1. AsksSome(todo[h])
      BY <1>8 DEF ShareInv
    <2>2. todo'[h] # <<>>
      BY DEF Has
    <2> QED BY <2>1, <2>2, CheckAsks
  <1>10. \A g \in All : Has(todo'[g], Sharing) => Busy(Sharing)
    BY <1>4, <1>8 DEF Moves, Others, Busy
  <1>11. SharesFit'
    BY <1>6, <1>10, RefundRestShares, SharesRest DEF RestOfShares
  <1> QED BY <1>2, <1>4, <1>5, <1>6, <1>7, <1>9, <1>11, SharingKept DEF PaymentsInv, CallsFit

LEMMA InsertShares ==
  ASSUME PaymentsInv, ShareInv, NEW h \in All, Refunding!Insert(h), RestOfRefund
  PROVE  ShareInv'
  <1>1. PICK x : x = Arg(h)
    OBVIOUS
  <1>2. /\ PaymentsInv' /\ todo[h] # <<>>
        /\ \E r \in RefundIds :
             /\ refund[r] = Refunding!NoRefund
             /\ refund'[r] = [payment |-> x.payment, kind |-> x.kind, cash |-> x.cash,
                              amounts |-> x.amounts, status |-> "PENDING", attempts |-> 0,
                              sent |-> FALSE]
             /\ \A q \in RefundIds : q # r => refund'[q] = refund[q]
             /\ Goes(h, <<[op |-> "attempt", id |-> r]>>)
    BY <1>1, InsertHolds
  <1>3. PICK r \in RefundIds :
          /\ refund[r] = Refunding!NoRefund /\ refund'[r].kind = x.kind
          /\ \A q \in RefundIds : q # r => refund'[q] = refund[q]
          /\ Goes(h, <<[op |-> "attempt", id |-> r]>>)
    BY <1>2
  <1>4. PICK s : s = [op |-> "attempt", id |-> r] /\ Goes(h, <<s>>)
    BY <1>3
  <1>5. s.op \notin LenderOps \cup CreditOps
    BY <1>4 DEF LenderOps, CreditOps
  <1>6. Refunded => Refunded'
    BY <1>3, StillRefunded
  <1>7. Refunded' \/ ~AsksSome(todo[h])
    <2> SUFFICES ASSUME AsksSome(todo[h]) PROVE Refunded'
      OBVIOUS
    <2>1. refund'[r].kind = "CANCELLATION"
      BY <1>1, <1>3 DEF AsksSome, Asking, Arg
    <2> QED BY <2>1, Ids DEF Refunded, RefundsFor
  <1> QED BY <1>2, <1>4, <1>5, <1>6, <1>7, RefundRestShares, OrdinaryCall

LEMMA RefundShares ==
  ASSUME PaymentsInv, ShareInv, NEW h \in All, RefundsPart(h)
  PROVE  ShareInv'
  <1>1. RestOfRefund /\ RestOfShares
    BY RefundRestShares DEF RefundsPart, RestOfRefund
  <1>2. CASE Refunding!Insert(h)
    BY <1>1, <1>2, InsertShares
  <1>3. CASE Refunding!Check(h)
    <2>1. PaymentsInv' /\ Others(h)
      BY <1>1, <1>3, CheckHolds DEF Goes
    <2>2. Refunded => Refunded'
      BY <1>3, StillRefunded DEF Refunding!Check
    <2> QED BY <1>1, <1>3, <2>1, <2>2, CheckShares, AsideFromSharing
  <1>4. CASE ~(Refunding!Check(h) \/ Refunding!Insert(h))
    <2>1. /\ todo[h] # <<>> /\ Arg(h).op \in RefundOps \cup {"retryRefunds"}
          /\ \A r \in RefundIds : refund'[r].kind = refund[r].kind
          /\ \E steps : Goes(h, steps) /\ \A i \in 1..Len(steps) : steps[i].op \in RefundOps
      BY <1>1, <1>4, RowGoes DEF RefundsPart, Refunding!RefundStep
    <2>2. PICK steps : Goes(h, steps) /\ \A i \in 1..Len(steps) : steps[i].op \in RefundOps
      BY <2>1
    <2>3. \A i \in 1..Len(steps) : steps[i].op \notin LenderOps \cup CreditOps
      BY <2>2 DEF RefundOps, LenderOps, CreditOps
    <2>4. ~AsksSome(todo[h])
      BY <2>1 DEF AsksSome, Asking, Arg, AskOps, RefundOps
    <2>5. PaymentsInv'
      BY RefundsHold
    <2>6. Refunded => Refunded'
      BY <2>1, StillRefunded
    <2>7. Moves(h, steps)
      BY <2>2, GoesMoves DEF PaymentsInv, CallsFit
    <2> QED BY <1>1, <2>3, <2>4, <2>5, <2>6, <2>7, OrdinaryMove
  <1> QED BY <1>2, <1>3, <1>4

(* The transfers.                                                          *)
LEMMA SameRefunds ==
  ASSUME refund' = refund
  PROVE  Refunded' <=> Refunded
  BY DEF Refunded, RefundsFor

(* Once the call that was to pay the lender has done so, none is.          *)
LEMMA KeepRentShares ==
  ASSUME PaymentsInv, PaymentsInv', ShareInv, NEW h \in All, NEW steps, Moves(h, steps),
         todo[h] # <<>>, Arg(h).op = "keepRent", UNCHANGED <<status, refund>>,
         \A i \in 1..Len(steps) : steps[i].op \notin LenderOps \cup CreditOps,
         \E t : Shares' \subseteq Shares \cup {t}
  PROVE  ShareInv'
  <1>1. PICK S : S = Sharing /\ Sharing' = S
    BY DEF Sharing
  <1>2. Arg(h) \in S /\ status = "CANCELLED"
    BY <1>1, HeadPayment DEF Sharing, LenderOps, CancelOps
  <1>3. ~Has(steps, S) /\ One(steps, S)
    BY <1>1 DEF Has, One, Sharing
  <1>4. \A g \in All : ~Has(todo'[g], S)
    BY <1>1, <1>2, <1>3, MovedAway DEF ShareInv
  <1>5. Has(todo[h], S)
    BY <1>2, CallSeq DEF Has, PaymentsInv, CallsFit
  <1>6. Refunded /\ Refunded'
    <2>1. ~AsksSome(todo[h])
      BY <1>2 DEF AsksSome, Asking, Arg, AskOps
    <2> QED BY <1>1, <1>5, <2>1, SameRefunds DEF ShareInv
  <1>7. Shares = {}
    BY <1>1, <1>2, <1>5 DEF ShareInv, SharesFit, Busy
  <1>8. ~Busy(Sharing)'
    BY <1>1, <1>4 DEF Busy, Sharing
  <1>9. SharesFit'
    BY <1>2, <1>6, <1>7, <1>8 DEF SharesFit
  <1> QED BY <1>1, <1>3, <1>4, <1>6, <1>9, SharingKept DEF PaymentsInv, CallsFit

(* The transfers held are taken back before the rent kept is paid, by the  *)
(* same call.                                                              *)
LEMMA OnCancelledShares ==
  ASSUME PaymentsInv, PaymentsInv', ShareInv, NEW h \in All, NEW steps, Moves(h, steps),
         PayoutSteps(h, steps), todo[h] # <<>>, Arg(h).op = "onCancelled", UNCHANGED <<status, refund>>,
         Shares' \subseteq Shares
  PROVE  ShareInv'
  <1>1. Arg(h) \in Sharing
    BY HeadPayment DEF Sharing, LenderOps
  <1>2. \A s \in Sharing : s.op \in RowOps \cup {"oweRent", "createKept", "keepRent"} => s \in KeepRents
    BY DEF Sharing, KeepRents, LenderOps, RowOps, SendOps, ReverseOps
  <1>3. One(steps, Sharing)
    BY <1>2 DEF PayoutSteps, One
  <1>4. Has(todo[h], Sharing)
    BY <1>1, CallSeq DEF Has, PaymentsInv, CallsFit
  <1>5. Refunded /\ Refunded'
    <2>1. ~AsksSome(todo[h])
      BY DEF AsksSome, Asking, Arg, AskOps
    <2> QED BY <1>4, <2>1, SameRefunds DEF ShareInv
  <1>6. Busy(Sharing)
    BY <1>4 DEF Busy
  <1>7. SharesFit'
    BY <1>5, <1>6, SharesRest
  <1>8. 1 \in 1..Len(steps) => steps[1].op \notin CreditOps
    BY DEF PayoutSteps, CreditOps, RowOps, SendOps, ReverseOps
  <1> QED BY <1>1, <1>3, <1>5, <1>7, <1>8, SharingKept DEF PaymentsInv, CallsFit

LEMMA PayoutShares ==
  ASSUME PaymentsInv, ShareInv, NEW h \in All, PayoutsPart(h)
  PROVE  ShareInv'
  <1>1. PaymentsInv' /\ PayoutMove(h) /\ UNCHANGED <<status, refund>>
    BY PayoutHolds, PayoutsRest
  <1>2. todo[h] # <<>> /\ Others(h) /\ (Refunded' <=> Refunded)
    BY <1>1, SameRefunds DEF PayoutMove
  <1>3. PICK steps : Moves(h, steps) /\ PayoutSteps(h, steps)
    BY <1>1, GoesMoves, DropMoves, NoPayoutStep DEF PaymentsInv, CallsFit, PayoutMove
  <1>4. Arg(h).op \in CancelOps => status = "CANCELLED"
    BY <1>2, HeadPayment
  <1>5. CASE Arg(h).op = "keepRent"
    <2>1. \A i \in 1..Len(steps) : steps[i].op \notin LenderOps \cup CreditOps
      BY <1>3, <1>5 DEF PayoutSteps, LenderOps, CreditOps, RowOps, SendOps, ReverseOps
    <2>2. \E t : Shares' \subseteq Shares \cup {t}
      BY <1>1, <1>5 DEF PayoutMove
    <2> QED BY <1>1, <1>2, <1>3, <1>5, <2>1, <2>2, KeepRentShares
  <1>6. CASE Arg(h).op = "onCancelled"
    <2>1. Shares' \subseteq Shares
      BY <1>1, <1>4, <1>6 DEF PayoutMove, CancelOps
    <2> QED BY <1>1, <1>2, <1>3, <1>6, <2>1, OnCancelledShares
  <1>7. CASE Arg(h).op \notin LenderOps
    <2>1. RestOfShares
      BY <1>1, <1>7 DEF RestOfShares, PayoutMove, LenderOps
    <2>2. \A i \in 1..Len(steps) : steps[i].op \notin LenderOps \cup CreditOps
      BY <1>3, <1>7 DEF PayoutSteps, LenderOps, CreditOps, RowOps, SendOps, ReverseOps
    <2>3. ~AsksSome(todo[h])
      BY <1>1 DEF PayoutMove, AsksSome, Asking, Arg
    <2> QED BY <1>1, <1>2, <1>3, <2>1, <2>2, <2>3, OrdinaryMove
  <1> QED BY <1>5, <1>6, <1>7 DEF LenderOps

(* Payments' own calls.                                                    *)
LEMMA OneCallMoves ==
  ASSUME PaymentsInv, NEW h \in All, NEW q, todo' = [todo EXCEPT ![h] = q]
  PROVE  Others(h) /\ todo'[h] = q
  BY DEF PaymentsInv, CallsFit, Lists, Others

LEMMA SameTransfers ==
  ASSUME transfer' = transfer, status' = status \/ status \notin {"CANCELLED", "COMPLETED"}
  PROVE  RestOfShares
  BY SharesStay DEF RestOfShares

(* A request that pays is not to pay the lender.                           *)
LEMMA RestedShares ==
  ASSUME PaymentsInv, PaymentsInv', ShareInv, NEW h \in All, todo[h] # <<>>, Arg(h).op \in PayOps,
         Others(h), transfer' = transfer, refund' = refund,
         status' = status \/ status \notin {"CANCELLED", "COMPLETED"}
  PROVE  ShareInv'
  <1>1. ~MayClose(h)
    BY HeadPayment
  <1> QED BY <1>1, SameTransfers, SameRefunds, AsideFromSharing

LEMMA PayingShares ==
  ASSUME PaymentsInv, ShareInv, NEW h \in All,
         \/ CreateOrder(h) \/ InsertPayment(h) \/ Capture(h) \/ Confirm(h) \/ MarkFailed(h)
         \/ Receive(h) \/ Answer(h)
  PROVE  ShareInv'
  <1>1. PaymentsInv'
    BY StepHolds DEF Step, PaymentStep
  <1>2. todo[h] # <<>> /\ Arg(h).op \in PayOps
    BY DEF CreateOrder, InsertPayment, Capture, Confirm, MarkFailed, Receive, Answer, At, Arg, PayOps
  <1>3. transfer' = transfer /\ refund' = refund
    BY DEF CreateOrder, InsertPayment, Capture, Confirm, MarkFailed, Receive, Answer, moneyVars
  <1>4. status' = status \/ status \notin {"CANCELLED", "COMPLETED"}
    BY DEF CreateOrder, InsertPayment, Capture, Confirm, Waiting, MarkFailed, Receive, Answer, bookingVars,
           bookingRow
  <1>5. Others(h)
    BY OneCallMoves DEF CreateOrder, InsertPayment, Capture, Confirm, MarkFailed, Receive, Answer,
       Return, Continue, Throw
  <1> QED BY <1>1, <1>2, <1>3, <1>4, <1>5, RestedShares

LEMMA CaughtShares ==
  ASSUME PaymentsInv, ShareInv, NEW h \in All,
         Caught(h), UNCHANGED <<bookingVars, moneyVars, gatewayVars, faults>>
  PROVE  ShareInv'
  <1>1. PaymentsInv' /\ todo[h] # <<>> /\ Others(h)
    BY CaughtHolds DEF Goes
  <1>2. Arg(h).op \in PayOps
    BY DEF Caught, At, Arg, PayOps
  <1>3. transfer' = transfer /\ refund' = refund /\ status' = status
    BY DEF moneyVars, bookingVars, bookingRow
  <1> QED BY <1>1, <1>2, <1>3, RestedShares

(* Nor is the call for a completed booking.                                *)
LEMMA SettleShares ==
  ASSUME PaymentsInv, ShareInv, NEW h \in All, Settle(h) \/ KeepDeposit(h)
  PROVE  ShareInv'
  <1>1. PaymentsInv'
    BY StepHolds DEF Step, PaymentStep
  <1>2. todo[h] # <<>> /\ Arg(h).op \in SettleOps
    BY DEF Settle, KeepDeposit, At, Arg, SettleOps
  <1>3. transfer' = transfer /\ refund' = refund /\ status' = status
    BY DEF Settle, KeepDeposit, moneyVars, bookingVars, bookingRow
  <1>4. status' # "CANCELLED"
    BY <1>2, <1>3, HeadPayment
  <1>5. Others(h)
    BY OneCallMoves DEF Settle, KeepDeposit, Return, Continue
  <1> QED BY <1>1, <1>3, <1>4, <1>5, SameTransfers, SameRefunds, AsideFromSharing

(* The steps before the refund of a cancellation is asked for.             *)
Prepares(s) == s.op \in {"findRelease", "releaseCredit", "refundCancelled", "settle"}

LEMMA CancellingShares ==
  ASSUME PaymentsInv, ShareInv, NEW h \in All, RefundCancelled(h) \/ FindRelease(h) \/ SweepStep(h)
  PROVE  ShareInv'
  <1>1. /\ PaymentsInv' /\ todo[h] # <<>> /\ UNCHANGED <<bookingVars, moneyVars>>
        /\ \/ Goes(h, <<>>)
           \/ \E s : Prepares(s) /\ Goes(h, <<s>>)
    <2>1. CASE RefundCancelled(h)
      <3>1. /\ PaymentsInv' /\ todo[h] # <<>> /\ UNCHANGED <<bookingVars, moneyVars>>
            /\ Goes(h, <<>>) \/ \E p \in Orders : Goes(h, <<[op |-> "findRelease", order |-> p]>>)
        BY <2>1, RefundCancelledHolds
      <3>2. ASSUME NEW p, Goes(h, <<[op |-> "findRelease", order |-> p]>>)
            PROVE  \E s : Prepares(s) /\ Goes(h, <<s>>)
        <4>1. PICK s : s = [op |-> "findRelease", order |-> p]
          OBVIOUS
        <4>2. Prepares(s) /\ Goes(h, <<s>>)
          BY <3>2, <4>1 DEF Prepares
        <4> QED BY ONLY <4>2, Zenon
      <3> QED BY ONLY <3>1, <3>2, Zenon
    <2>2. CASE FindRelease(h)
      <3>1. PICK s : s = [op |-> "releaseCredit", order |-> Arg(h).order, found |-> credit]
        OBVIOUS
      <3>2. /\ PaymentsInv' /\ todo[h] # <<>> /\ UNCHANGED <<bookingVars, moneyVars>>
            /\ Prepares(s) /\ Goes(h, <<s>>)
        BY <2>2, <3>1, FindReleaseHolds DEF Prepares
      <3> QED BY ONLY <3>2, Zenon
    <2>3. CASE SweepStep(h)
      <3>1. /\ PaymentsInv' /\ todo[h] # <<>> /\ UNCHANGED <<bookingVars, moneyVars>>
            /\ Goes(h, <<>>) \/ \E s \in Steps : s.op \in {"refundCancelled", "settle"} /\ Goes(h, <<s>>)
        BY <2>3, SweepMissedHolds, SweepUnsettledHolds DEF SweepStep
      <3>2. CASE Goes(h, <<>>)
        BY <3>1, <3>2
      <3>3. CASE ~Goes(h, <<>>)
        <4>1. PICK s \in Steps : s.op \in {"refundCancelled", "settle"} /\ Goes(h, <<s>>)
          BY <3>1, <3>3
        <4>2. Prepares(s) /\ Goes(h, <<s>>)
          BY <4>1 DEF Prepares
        <4>3. \E u : Prepares(u) /\ Goes(h, <<u>>)
          BY ONLY <4>2, Zenon
        <4> QED BY <3>1, <4>3
      <3> QED BY <3>2, <3>3
    <2> QED BY <2>1, <2>2, <2>3
  <1>2. ~AsksSome(todo[h])
    BY DEF RefundCancelled, FindRelease, SweepStep, SweepMissed, SweepUnsettled, At, AsksSome,
           Asking, AskOps
  <1>3. status' = status /\ transfer' = transfer /\ refund' = refund
    BY <1>1 DEF bookingVars, bookingRow, moneyVars
  <1>4. RestOfShares /\ (Refunded => Refunded')
    BY <1>3, SameTransfers, SameRefunds
  <1>5. \A s : Prepares(s) => s.op \notin LenderOps \cup CreditOps
    BY DEF Prepares, LenderOps, CreditOps
  <1>6. PICK s : Prepares(s) /\ (Goes(h, <<>>) \/ Goes(h, <<s>>))
    <2>1. PICK s : s = [op |-> "settle"]
      OBVIOUS
    <2>2. Prepares(s)
      BY <2>1 DEF Prepares
    <2> QED BY ONLY <1>1, <2>2, Zenon
  <1> QED BY <1>1, <1>2, <1>4, <1>5, <1>6, OrdinaryCall

(* Where the policy gives some cash back, it does so whether or not credit *)
(* goes back as well.                                                      *)
LEMMA SomeCashBack ==
  ASSUME tier \in Tiers \cup {"NONE"}, CashBack,
         NEW given, given \in {Refund(tier, Booking).credit, 0},
         NEW a, a = [Refund(tier, Booking) EXCEPT !.credit = given]
  PROVE  CashOf(a) > 0
  <1>1. PICK rent, fee, deposit, used :
          /\ rent = RentBack(tier, Booking.rent) /\ fee = FeeBack(tier, Booking.fee)
          /\ deposit = Booking.deposit /\ used = CreditBack(Booking.credit, rent)
    OBVIOUS
  <1>2. /\ Booking.rent \in Nat /\ Booking.fee \in Nat /\ Booking.deposit \in Nat
        /\ Booking.credit \in Nat
    BY PaymentsAssumption
  <1>3. rent \in Nat /\ fee \in Nat
    BY <1>1, <1>2 DEF RentBack, FeeBack, Half
  <1>4. used \in Nat /\ used <= rent
    BY <1>1, <1>2, <1>3 DEF CreditBack
  <1>5. Refund(tier, Booking) = [rent |-> rent, fee |-> fee, deposit |-> deposit, credit |-> used]
    BY <1>1 DEF Refund
  <1>6. given \in Nat /\ given <= used /\ rent + fee + deposit - used > 0
    BY <1>4, <1>5 DEF CashBack, CashOf
  <1>7. a.rent = rent /\ a.fee = fee /\ a.deposit = deposit /\ a.credit = given
    BY <1>5
  <1>8. CashOf(a) = rent + fee + deposit - given
    BY <1>7 DEF CashOf
  <1> QED BY <1>1, <1>2, <1>3, <1>4, <1>6, <1>8

(* A new step in front is the next one.                                    *)
LEMMA NextIsNew ==
  ASSUME Lists', NEW h \in All, NEW steps, Moves(h, steps), 1 \in 1..Len(steps)
  PROVE  todo'[h] # <<>> /\ Head(todo'[h]) = steps[1] /\ Head(todo'[h]) \in Steps
  <1>1. PICK q, F : q = todo'[h] /\ F = FitSteps(h)' /\ q \in Seq(F)
    BY DEF Lists, ListsOf
  <1>2. Len(steps) \in Nat /\ Len(todo[h]) \in Nat
    BY DEF Moves
  <1>3. PICK k \in 0..Len(todo[h]) :
          /\ Len(q) = Len(steps) + Len(todo[h]) - k
          /\ \A i \in 1..Len(q) : q[i] = IF i <= Len(steps) THEN steps[i]
                                         ELSE todo[h][i - Len(steps) + k]
    BY <1>1 DEF Moves
  <1>4. 1 \in 1..Len(q) /\ 1 <= Len(steps)
    BY <1>2, <1>3
  <1>5. q[1] = steps[1]
    BY <1>3, <1>4
  <1>6. q # <<>> /\ Head(q) = q[1] /\ Head(q) \in F
    BY <1>1, <1>4
  <1>7. Head(q) \in Steps
    BY <1>1, <1>6 DEF FitSteps
  <1> QED BY <1>1, <1>5, <1>6, <1>7

(* While a call is to refund a cancellation, none is to pay the lender.    *)
LEMMA NobodySharesYet ==
  ASSUME PaymentsInv, OneCloser, ShareInv, NEW h \in All, todo[h] # <<>>, Arg(h).op = "releaseCredit"
  PROVE  ~Busy(Sharing) /\ ~Refunded /\ status = "CANCELLED" /\ Shares = {}
  <1>1. status = "CANCELLED" /\ Arg(h) \in Steps
    BY HeadPayment DEF CancelOps
  <1>2. "CANCELLATION" \in Reasons /\ RefundOnce("CANCELLATION")
    BY DEF Reasons, OneCloser
  <1>3. Arg(h) \in Decided("CANCELLATION") /\ Arg(h) \in Makers("CANCELLATION")
    BY <1>1 DEF Makers, Decided, DecidedOps
  <1>4. Has(todo[h], Decided("CANCELLATION")) /\ Has(todo[h], Makers("CANCELLATION"))
    BY <1>3, CallSeq DEF Has, PaymentsInv, CallsFit
  <1>5. ~Refunded
    BY <1>2, <1>4 DEF RefundOnce, Busy, Refunded
  <1>6. ASSUME NEW g \in All, Has(todo[g], Sharing) PROVE FALSE
    <2>1. AsksSome(todo[g])
      BY <1>5, <1>6 DEF ShareInv
    <2>2. todo[g] # <<>> /\ Arg(g) \in Makers("CANCELLATION") /\ Arg(g).op # "releaseCredit"
      BY <2>1 DEF AsksSome, Asking, Arg, Makers, Decided, AskOps
    <2>3. Has(todo[g], Makers("CANCELLATION"))
      BY <2>2, CallSeq DEF Has, PaymentsInv, CallsFit
    <2>4. g = h
      BY <1>2, <1>4, <2>3 DEF RefundOnce, AtMostOne
    <2> QED BY <2>2, <2>4
  <1>7. ~Busy(Sharing)
    BY <1>6 DEF Busy
  <1> QED BY <1>1, <1>5, <1>7 DEF ShareInv, SharesFit

LEMMA ReleaseShares ==
  ASSUME PaymentsInv, OneCloser, DepositInv, ShareInv, ~NoCash,
         NEW h \in All, ReleaseCredit(h)
  PROVE  ShareInv'
  <1>1. PaymentsInv' /\ todo[h] # <<>> /\ UNCHANGED <<status, tier, kept>> /\ UNCHANGED moneyVars
    BY ReleaseCreditHolds
  <1>2. Arg(h).op = "releaseCredit"
    BY DEF ReleaseCredit, At, Arg
  <1>3. ~Busy(Sharing) /\ ~Refunded /\ status = "CANCELLED" /\ Shares = {}
    BY <1>1, <1>2, NobodySharesYet
  <1>4. tier \in Tiers \cup {"NONE"}
    BY DEF PaymentsInv, CallsFit, BookingTypes
  <1>5. PICK policy : policy = Refund(tier, Booking).credit
    OBVIOUS
  <1>6. CreditsBack = {NoRelease, policy}
    BY <1>5 DEF CreditsBack
  <1>7. Arg(h).found \in CreditsBack
    BY <1>1, <1>2 DEF DepositInv, CreditFits, HeadCredit, Arg
  <1>8. PICK given, cash, amounts, u :
          /\ given = IF Arg(h).found # NoRelease THEN Arg(h).found
                     ELSE IF credit = NoRelease /\ policy > 0 THEN policy ELSE 0
          /\ amounts = [Refund(tier, Booking) EXCEPT !.credit = given]
          /\ cash = CashOf(amounts)
          /\ u.op = "onCancelled"
          /\ \/ /\ cash = 0 /\ given > 0
                /\ Goes(h, <<[op |-> "refundCredit", amounts |-> amounts]>>)
             \/ Goes(h, <<Refunding!CreateRefund(Arg(h).order, "CANCELLATION", cash, amounts), u>>)
    BY <1>5, ReleaseCreditHolds, ZenonT(60)
  <1>9. given \in {policy, 0}
    BY <1>6, <1>7, <1>8
  <1>10. cash > 0
    BY <1>3, <1>4, <1>5, <1>8, <1>9, SomeCashBack DEF NoCash
  <1>11. PICK s : s = Refunding!CreateRefund(Arg(h).order, "CANCELLATION", cash, amounts)
    OBVIOUS
  <1>12. Goes(h, <<s, u>>)
    BY <1>8, <1>10, <1>11
  <1>13. s.op = "createRefund" /\ s.kind = "CANCELLATION" /\ s.cash > 0
    BY <1>10, <1>11 DEF Refunding!CreateRefund
  <1>14. PICK steps : steps = <<s, u>>
    OBVIOUS
  <1>15. Len(steps) = 2 /\ steps[1] = s /\ steps[2] = u
    BY <1>14
  <1>16. Moves(h, steps)
    BY <1>12, <1>14, GoesMoves DEF PaymentsInv, CallsFit
  <1>17. s \notin Sharing
    BY <1>13 DEF Sharing, LenderOps
  <1>18. One(steps, Sharing)
    <2> SUFFICES ASSUME NEW i \in 1..Len(steps), NEW j \in 1..Len(steps),
                        steps[i] \in Sharing, steps[j] \in Sharing
                 PROVE  i = j
      BY DEF One
    <2>1. (i = 1 \/ i = 2) /\ (j = 1 \/ j = 2)
      BY <1>15
    <2> QED BY <1>15, <1>17, <2>1
  <1>19. AsksSome(todo'[h])
    <2>1. todo'[h] # <<>> /\ Head(todo'[h]) = s /\ s \in Steps
      BY <1>15, <1>16, NextIsNew, <1>1 DEF PaymentsInv, CallsFit
    <2>2. s \in RefundSteps
      BY <1>13, <2>1, RefundForms DEF AskOps, RefundSteps
    <2> QED BY <1>13, <2>1, <2>2 DEF AsksSome, Asking, AskOps
  <1>20. steps[1].op \notin CreditOps
    BY <1>13, <1>15 DEF CreditOps
  <1>21. transfer' = transfer /\ refund' = refund
    BY <1>1 DEF moneyVars
  <1>22. (Refunded' <=> Refunded) /\ Shares' \subseteq Shares
    BY <1>21, SameRefunds, SharesStay
  <1>23. SharesFit'
    BY <1>1, <1>3, <1>22, SharesRest
  <1> QED BY <1>1, <1>3, <1>16, <1>18, <1>19, <1>20, <1>22, <1>23, SharingKept DEF PaymentsInv, CallsFit

LEMMA CreditShares ==
  ASSUME ShareInv, NEW h \in All, RefundCredit(h) \/ PostCredit(h)
  PROVE  ShareInv'
  <1>1. todo[h] # <<>> /\ Head(todo[h]).op \in CreditOps
    BY DEF RefundCredit, PostCredit, At, CreditOps
  <1>2. Head(todo[h]).op \notin CreditOps
    BY <1>1 DEF ShareInv
  <1> QED BY <1>1, <1>2

LEMMA PaymentShares ==
  ASSUME PaymentsInv, OneCloser, DepositInv, ShareInv, ~NoCash,
         NEW h \in All, PaymentStep(h)
  PROVE  ShareInv'
  <1>1. CASE \/ CreateOrder(h) \/ InsertPayment(h) \/ Capture(h) \/ Confirm(h) \/ MarkFailed(h)
             \/ Receive(h) \/ Answer(h)
    BY <1>1, PayingShares
  <1>2. CASE Settle(h) \/ KeepDeposit(h)
    BY <1>2, SettleShares
  <1>3. CASE RefundCancelled(h) \/ FindRelease(h)
    BY <1>3, CancellingShares
  <1>4. CASE ReleaseCredit(h)
    BY <1>4, ReleaseShares
  <1>5. CASE RefundCredit(h) \/ PostCredit(h)
    BY <1>5, CreditShares
  <1>6. CASE Caught(h) /\ UNCHANGED <<bookingVars, moneyVars, gatewayVars, faults>>
    BY <1>6, CaughtShares
  <1> QED BY <1>1, <1>2, <1>3, <1>4, <1>5, <1>6 DEF PaymentStep

(* What starts, and what the gateway and a restart do.                     *)
LEMMA StartsShares ==
  ASSUME PaymentsInv, ShareInv, NEW h \in All,
         \/ Checkout(h) \/ Sweep(h)
         \/ \E o \in Orders : Verify(h, o)
         \/ \E e \in Events : Webhook(h, e)
         \/ \E p \in Unrefunded, amount \in GoodwillGiven : GiveGoodwill(h, p, amount)
  PROVE  ShareInv'
  <1>1. /\ PaymentsInv' /\ Others(h) /\ UNCHANGED <<bookingRow, moneyVars>>
        /\ ~Sweep(h) => ~MayClose(h)
    BY CheckoutHolds, VerifyHolds, WebhookHolds, GoodwillHolds, SweepHolds
  <1>2. RestOfShares /\ (Refunded => Refunded')
    BY <1>1, SameTransfers, SameRefunds DEF bookingRow, moneyVars
  <1>3. CASE ~Sweep(h)
    BY <1>1, <1>2, <1>3, AsideFromSharing
  <1>4. CASE Sweep(h)
    <2>1. PICK steps : steps = <<[op |-> "sweepMissed"], [op |-> "sweepUnsettled"],
                                 [op |-> "retryRefunds"], [op |-> "retryTransfers"]>>
      OBVIOUS
    <2>2. todo'[h] = steps
      BY <1>4, <2>1, SweepHolds
    <2>3. \A i \in 1..Len(steps) : steps[i].op \notin LenderOps
      BY <2>1 DEF LenderOps
    <2>4. Head(steps).op \notin CreditOps
      BY <2>1 DEF CreditOps
    <2>5. ~Has(todo'[h], Sharing)
      BY <2>2, <2>3 DEF Has, Sharing
    <2> QED BY <1>1, <1>2, <2>2, <2>4, <2>5, NoSharingHere
  <1> QED BY <1>3, <1>4

LEMMA ClosingShares ==
  ASSUME PaymentsInv, ShareInv, Cancel \/ Complete
  PROVE  ShareInv'
  <1>1. /\ Closer \in All /\ Others(Closer) /\ status = "CONFIRMED" /\ UNCHANGED moneyVars
        /\ \E s \in Steps : todo'[Closer] = <<s>> /\ s.op \in {"refundCancelled", "settle"}
    BY CloseHolds
  <1>2. PICK s : todo'[Closer] = <<s>> /\ s.op \in {"refundCancelled", "settle"}
    BY <1>1
  <1>3. RestOfShares /\ (Refunded => Refunded')
    BY <1>1, SameTransfers, SameRefunds DEF moneyVars
  <1>4. ~Has(<<s>>, Sharing) /\ Head(<<s>>).op \notin CreditOps
    BY <1>2 DEF Has, Sharing, LenderOps, CreditOps
  <1> QED BY <1>1, <1>2, <1>3, <1>4, NoSharingHere

LEMMA GatewayShares ==
  ASSUME PaymentsInv, ShareInv,
         \/ \E o \in Orders : Pay(o) \/ FailedAttempt(o)
         \/ \E to \in UnpaidCloses : CloseUnpaid(to)
         \/ \E r \in Refunding!RefundIds, ok \in BOOLEAN : RefundSettled(r, ok)
         \/ UNCHANGED vars
  PROVE  ShareInv'
  <1>1. CASE \E r \in Refunding!RefundIds, ok \in BOOLEAN : RefundSettled(r, ok)
    <2>1. PICK r \in RefundIds, ok \in BOOLEAN : RefundSettled(r, ok)
      BY <1>1, Ids
    <2>2. status' = status /\ transfer' = transfer /\ todo' = todo
      BY <2>1 DEF RefundSettled, Refunding!Settle, bookingVars, bookingRow
    <2>3. \A q \in RefundIds : refund'[q].kind = refund[q].kind
      BY <2>1, SettledHolds
    <2>4. Refunded => Refunded'
      BY <2>3, StillRefunded
    <2> QED BY <2>2, <2>4, SameTransfers, StillShared
  <1>2. CASE ~\E r \in Refunding!RefundIds, ok \in BOOLEAN : RefundSettled(r, ok)
    <2>1. /\ UNCHANGED <<moneyVars, todo>>
          /\ status' = status \/ status \notin {"CANCELLED", "COMPLETED"}
      BY <1>2 DEF Pay, FailedAttempt, CloseUnpaid, bookingVars, bookingRow, vars
    <2>2. RestOfShares /\ (Refunded => Refunded')
      BY <2>1, SameTransfers, SameRefunds DEF moneyVars
    <2> QED BY <2>1, <2>2, StillShared
  <1> QED BY <1>1, <1>2

LEMMA RestartShares ==
  ASSUME PaymentsInv, ShareInv, Crash
  PROVE  ShareInv'
  <1>1. UNCHANGED <<bookingVars, moneyVars>> /\ \A h \in All : todo'[h] = <<>>
    BY CrashHolds
  <1>2. PICK S : S = Sharing /\ Sharing' = S
    BY DEF Sharing
  <1>3. AtMostOne(S)' /\ \A h \in All : ~Has(todo'[h], S)
    BY <1>1, EmptyLists DEF AtMostOne
  <1>4. RestOfShares /\ (Refunded => Refunded')
    BY <1>1, SameTransfers, SameRefunds DEF bookingVars, bookingRow, moneyVars
  <1>5. SharesFit'
    BY <1>2, <1>3, <1>4, SharesRest DEF RestOfShares
  <1>6. AtMostOne(Sharing)'
    BY <1>2, <1>3 DEF Sharing
  <1>7. (\A h \in All : Has(todo[h], Sharing) => Refunded \/ AsksSome(todo[h]))'
    BY <1>2, <1>3
  <1>8. (\A h \in All : todo[h] # <<>> => Head(todo[h]).op \notin CreditOps)'
    BY <1>1
  <1> QED BY <1>5, <1>6, <1>7, <1>8 DEF ShareInv

LEMMA NoShareYet ==
  ASSUME Init
  PROVE  ShareInv
  <1>1. (\A h \in All : todo[h] = <<>>) /\ status = "AWAITING_PAYMENT"
        /\ transfer = [t \in TransferIds |-> Paying!NoTransfer]
    BY Ids DEF Init, HandlersInit
  <1>2. AtMostOne(Sharing) /\ \A h \in All : ~Has(todo[h], Sharing)
    BY <1>1, NoCalls
  <1>3. SharesFit
    BY <1>1 DEF SharesFit, Shares
  <1> QED BY <1>1, <1>2, <1>3 DEF ShareInv

LEMMA NextShares ==
  ASSUME PaymentsInv, OneCloser, DepositInv, ShareInv, ~NoCash, [Next]_vars
  PROVE  ShareInv'
  <1>1. CASE \E h \in All : Step(h)
    BY <1>1, PaymentShares, CancellingShares, RefundShares, PayoutShares DEF Step
  <1>2. CASE \E h \in All : \/ Checkout(h) \/ Sweep(h)
                            \/ \E o \in Orders : Verify(h, o)
                            \/ \E e \in Events : Webhook(h, e)
                            \/ \E p \in Unrefunded, amount \in GoodwillGiven : GiveGoodwill(h, p, amount)
    BY <1>2, StartsShares
  <1>3. CASE Cancel \/ Complete
    BY <1>3, ClosingShares
  <1>4. CASE Crash
    BY <1>4, RestartShares
  <1>5. CASE \/ \E o \in Orders : Pay(o) \/ FailedAttempt(o)
             \/ \E to \in UnpaidCloses : CloseUnpaid(to)
             \/ \E r \in Refunding!RefundIds, ok \in BOOLEAN : RefundSettled(r, ok)
             \/ UNCHANGED vars
    BY <1>5, GatewayShares
  <1> QED BY <1>1, <1>2, <1>3, <1>4, <1>5 DEF Next

(* A booking that is cancelled stays so, with its tier.                    *)
LEMMA TierStays ==
  ASSUME PaymentsInv, [Next]_vars, status = "CANCELLED"
  PROVE  status' = "CANCELLED" /\ tier' = tier
  <1>1. CASE \E h \in All : Step(h)
    <2>1. PICK h \in All : Step(h)
      BY <1>1
    <2>2. CASE PaymentStep(h) \/ SweepStep(h)
      BY <2>2 DEF PaymentStep, SweepStep, CreateOrder, InsertPayment, Capture, Confirm, Waiting,
         MarkFailed, Receive, Answer, RefundCancelled, FindRelease, ReleaseCredit, RefundCredit,
         PostCredit, Settle, KeepDeposit, SweepMissed, SweepUnsettled, bookingVars, bookingRow
    <2>3. CASE RefundsPart(h)
      BY <2>3 DEF RefundsPart, bookingVars, bookingRow
    <2>4. CASE PayoutsPart(h)
      BY <2>4, PayoutsRest DEF PayoutsPart
    <2> QED BY <2>1, <2>2, <2>3, <2>4 DEF Step
  <1>2. CASE \E h \in All : \/ Checkout(h) \/ Sweep(h)
                            \/ \E o \in Orders : Verify(h, o)
                            \/ \E e \in Events : Webhook(h, e)
                            \/ \E p \in Unrefunded, amount \in GoodwillGiven : GiveGoodwill(h, p, amount)
    BY <1>2 DEF Checkout, Sweep, Verify, Webhook, GiveGoodwill, bookingRow
  <1>3. CASE Cancel \/ Complete \/ \E to \in UnpaidCloses : CloseUnpaid(to)
    BY <1>3 DEF Cancel, Complete, Closes, CloseUnpaid
  <1>4. CASE \/ Crash
             \/ \E o \in Orders : Pay(o) \/ FailedAttempt(o)
             \/ \E r \in Refunding!RefundIds, ok \in BOOLEAN : RefundSettled(r, ok)
             \/ UNCHANGED vars
    BY <1>4 DEF Crash, Pay, FailedAttempt, RefundSettled, bookingVars, bookingRow, vars
  <1> QED BY <1>1, <1>2, <1>3, <1>4 DEF Next

LEMMA OneShare ==
  ASSUME PaymentsInv, ShareInv
  PROVE  OneShareOfKeptRent
  <1> SUFFICES ASSUME status = "CANCELLED" PROVE Cardinality(Shares) <= 1
    BY Ids DEF OneShareOfKeptRent, Shares, Paying!Rows
  <1>1. \A t, u \in Shares : t = u
    BY DEF ShareInv, SharesFit
  <1>2. CASE Shares = {}
    BY <1>2, FS_EmptySet
  <1>3. CASE Shares # {}
    <2>1. PICK S : S = Shares
      OBVIOUS
    <2>2. PICK t : S = {t}
      BY <1>1, <1>3, <2>1
    <2> QED BY <2>1, <2>2, FS_Singleton
  <1> QED BY <1>2, <1>3

(* The share of every booking that may be closed in any way, whenever it   *)
(* was paid and the policy gives some cash back.                           *)
ShareStands == DepositStands /\ (Off \/ NoCash \/ ShareInv)

LEMMA ShareStandsOn ==
  ASSUME NEW w, Workers = {w}
  PROVE  /\ Init => ShareStands
         /\ PaymentsInv /\ ShareStands /\ [Next]_vars => ShareStands'
  <1>1. Init => ShareStands
    BY DepositStandsOn, NoShareYet DEF ShareStands
  <1>2. PaymentsInv /\ ShareStands /\ [Next]_vars => ShareStands'
    <2> SUFFICES ASSUME PaymentsInv, ShareStands, [Next]_vars PROVE ShareStands'
      OBVIOUS
    <2>1. DepositStands' /\ (Off => Off')
      BY DepositStandsOn, PaidGoesOn DEF ShareStands, DepositStands
    <2>2. NoCash => NoCash'
      BY TierStays DEF NoCash, CashBack, CashOf, Refund
    <2>3. ShareInv /\ ~Off /\ ~NoCash => ShareInv'
      BY NextShares DEF ShareStands, DepositStands
    <2> QED BY <2>1, <2>2, <2>3 DEF ShareStands
  <1> QED BY <1>1, <1>2

(* Where one process runs the sweep, as deployed: the lender of a booking  *)
(* that was paid and then cancelled is paid at most one share of the rent  *)
(* kept, if the policy gives the borrower some cash back, however the      *)
(* cancellation's call, the sweep, failures and restarts overlap.  The     *)
(* share follows the refund in one call (payments.service.ts,              *)
(* refundCancelled, and payouts.service.ts lines 129-130), and the sweep   *)
(* makes that call only when the refund is missing.  Where credit alone    *)
(* goes back, this is left to the runs; where nothing does, it is false.   *)
THEOREM RentShareOnce ==
  ASSUME NEW w, Workers = {w}
  PROVE  Spec => [](paid /\ CashBack => OneShareOfKeptRent)
  <1>1. Init => ShareStands
    BY ShareStandsOn
  <1>2. PaymentsInv /\ ShareStands /\ [Next]_vars => ShareStands'
    BY ShareStandsOn
  <1>3. PaymentsInv /\ ShareStands => (paid /\ CashBack => OneShareOfKeptRent)
    <2> SUFFICES ASSUME PaymentsInv, ShareStands, paid, CashBack PROVE OneShareOfKeptRent
      OBVIOUS
    <2>1. ~Off /\ ~NoCash
      BY DEF Off, NoCash
    <2> QED BY <2>1, OneShare DEF ShareStands
  <1> QED BY <1>1, <1>2, <1>3, PaymentsStayFit, PTL DEF Spec

----------------------------------------------------------------------------
(* The purpose of a payment.  No step loses it, but for the one by which   *)
(* it confirms the booking.                                                *)
RowsGoOn ==
  \A r \in RefundIds :
    \/ refund'[r].kind = refund[r].kind /\ refund'[r].payment = refund[r].payment
    \/ refund[r] = Refunding!NoRefund

SpentGoesOn ==
  \A o \in Orders : payment'[o].status \in Spent => payment[o].status \in Spent \/ RowsOf(o) # {}

LEMMA RowsStayThere ==
  ASSUME RowsGoOn, NEW o
  PROVE  RowsOf(o) \subseteq RowsOf(o)' /\ LateRows(o) \subseteq LateRows(o)'
  BY DEF RowsGoOn, RowsOf, LateRows, Refunding!NoRefund

LEMMA LeftOver ==
  ASSUME NEW h \in All, NEW steps, Moves(h, steps), RowsGoOn,
         NEW o \in Unexplained', o \in Captured, ~HasIt(h, o)
  PROVE  o \in Unexplained
  <1>1. RowsOf(o) = {}
    BY RowsStayThere DEF Unexplained
  <1>2. ASSUME NEW g \in All, HasIt(g, o) PROVE FALSE
    <2>1. g # h /\ todo'[g] = todo[g]
      BY <1>2 DEF Moves, Others
    <2>2. PICK L : L = Late(o) /\ Late(o)' = L
      BY DEF Late, Asking
    <2>3. HasIt(g, o)'
      BY <1>2, <2>1, <2>2 DEF HasIt
    <2> QED BY <2>3 DEF Unexplained
  <1> QED BY <1>1, <1>2 DEF Unexplained

LEMMA RestExplained ==
  ASSUME Explained, NEW h \in All, NEW steps, Moves(h, steps), ~Has(steps, Wrong), RowsGoOn,
         SpentGoesOn
  PROVE  ~Busy(Wrong)' /\ \A o \in Orders : payment'[o].status \in Spent => RowsOf(o)' # {}
  <1>1. PICK W : W = Wrong /\ Wrong' = W
    BY DEF Wrong, Asking
  <1>2. ~Busy(W)'
    <2> SUFFICES ASSUME NEW g \in All, Has(todo'[g], W) PROVE FALSE
      BY DEF Busy
    <2>1. CASE g = h
      <3>1. Has(todo[h], W)
        BY <1>1, <2>1, MovedHas
      <3> QED BY <1>1, <3>1 DEF Explained, Busy
    <2>2. CASE g # h
      BY <1>1, <2>2 DEF Explained, Busy, Moves, Others
    <2> QED BY <2>1, <2>2
  <1>3. ~Busy(Wrong)'
    BY <1>1, <1>2 DEF Wrong, Asking
  <1>4. \A o \in Orders : payment'[o].status \in Spent => RowsOf(o)' # {}
    BY RowsStayThere DEF Explained, SpentGoesOn
  <1> QED BY <1>3, <1>4

LEMMA ExplainedKept ==
  ASSUME Explained, NEW h \in All, NEW steps, Moves(h, steps), ~Has(steps, Wrong), paid' = paid,
         faults'.crashes = 0 => faults.crashes = 0, RowsGoOn, SpentGoesOn,
         \A o \in Captured' : \/ o \in Captured /\ ~HasIt(h, o)
                             \/ RowsOf(o)' # {} \/ HasIt(h, o)'
  PROVE  Explained'
  <1>1. ASSUME NEW o \in Unexplained' PROVE o \in Unexplained
    <2>1. o \in Captured' /\ RowsOf(o)' = {} /\ ~HasIt(h, o)'
      BY <1>1 DEF Unexplained
    <2> QED BY <1>1, <2>1, LeftOver
  <1>2. ~Busy(Wrong)' /\ \A o \in Orders : payment'[o].status \in Spent => RowsOf(o)' # {}
    BY RestExplained
  <1> QED BY <1>1, <1>2 DEF Explained, Spent

(* A step of something else.                                               *)
Elsewhere(h) == todo[h] # <<>> => Arg(h).op \notin AskOps \cup {"confirm"}

LEMMA ElsewhereMove ==
  ASSUME Explained, NEW h \in All, NEW steps, Moves(h, steps),
         \A i \in 1..Len(steps) : steps[i].op \notin AskOps \/ steps[i].kind # "LATE_PAYMENT",
         Elsewhere(h), paid' = paid,
         faults'.crashes = 0 => faults.crashes = 0, RowsGoOn, SpentGoesOn, Captured' = Captured
  PROVE  Explained'
  <1>1. ~Has(steps, Wrong)
    BY DEF Has, Wrong, Asking
  <1>2. \A o : ~HasIt(h, o)
    BY DEF Elsewhere, HasIt, Late, Asking, Arg
  <1> QED BY <1>1, <1>2, ExplainedKept

LEMMA ElsewhereCall ==
  ASSUME PaymentsInv, Explained, NEW h \in All, todo[h] # <<>>, NEW s, s.op \notin AskOps,
         NEW u, u.op \notin AskOps,
         \/ Goes(h, <<>>) \/ Goes(h, <<s>>) \/ Goes(h, <<s, u>>)
         \/ Dropped(h) /\ Others(h), Elsewhere(h), paid' = paid,
         faults'.crashes = 0 => faults.crashes = 0, RowsGoOn, SpentGoesOn, Captured' = Captured
  PROVE  Explained'
  <1>1. PICK steps : /\ Moves(h, steps)
                     /\ steps = <<>> \/ steps = <<s>> \/ steps = <<s, u>>
    BY GoesMoves, DropMoves DEF PaymentsInv, CallsFit
  <1>2. \A i \in 1..Len(steps) : steps[i].op \notin AskOps
    BY <1>1
  <1> QED BY <1>1, <1>2, ElsewhereMove

LEMMA SameRefundRows ==
  ASSUME refund' = refund
  PROVE  RowsGoOn
  <1>1. \A r \in RefundIds : refund'[r].kind = refund[r].kind /\ refund'[r].payment = refund[r].payment
    OBVIOUS
  <1> QED BY <1>1 DEF RowsGoOn

LEMMA SamePayments ==
  ASSUME payment' = payment
  PROVE  SpentGoesOn /\ Captured' = Captured
  BY DEF SpentGoesOn, Captured, PaymentsIn

(* No step of a call is a restart.                                         *)
LEMMA CrashesStay ==
  ASSUME PaymentsInv, NEW h \in All, Step(h)
  PROVE  faults'.crashes = faults.crashes
  <1>1. UNCHANGED faults \/ Refused
    <2>1. CASE PaymentStep(h) \/ SweepStep(h)
      BY <2>1 DEF PaymentStep, SweepStep, CreateOrder, InsertPayment, Capture, Confirm, MarkFailed,
         Receive, Answer, RefundCancelled, FindRelease, ReleaseCredit, RefundCredit, PostCredit,
         Settle, KeepDeposit, SweepMissed, SweepUnsettled
    <2>2. CASE RefundsPart(h)
      <3>1. Refunding!RefundStep(h) \/ Refunding!RetryFailed(h)
        BY <2>2 DEF RefundsPart
      <3> QED BY <3>1, RefundCalls
          DEF Refunding!RefundStep, Refunding!RetryFailed, Refunding!Check, Refunding!Insert,
              Refunding!Attempt, Refunding!Claim, Refunding!Accepted, Refunding!RefusedRefund,
              Refunding!Fail, Refunding!Tally, Refunding!Save
    <2>3. CASE PayoutsPart(h)
      <3>1. Paying!PayoutStep(h) \/ Paying!RetryFailed(h)
        BY <2>3 DEF PayoutsPart
      <3> QED BY <3>1, PayoutCalls
          DEF Paying!PayoutStep, Paying!RetryFailed, Paying!Send, Paying!Wait, Paying!Claim,
              Paying!Created, Paying!RefusedTransfer, Paying!Fail, Paying!Save, Paying!OnConfirmed,
              Paying!OweRent, Paying!OnCancelled, Paying!KeepRent, Paying!Drop, Paying!TakeBack,
              Paying!SaveReversal, Paying!Release, Paying!Unhold, Paying!ReleaseOne,
              Paying!SaveRelease, Paying!SendKept, Paying!CreateKept
    <2> QED BY <2>1, <2>2, <2>3 DEF Step
  <1>2. faults \in [crashes : Nat, failures : Nat]
    BY DEF PaymentsInv, CallsFit, OtherTypes
  <1> QED BY <1>1, <1>2 DEF Refused

(* The payouts have nothing to do with it, nor have the refunds that are   *)
(* written already.                                                        *)
LEMMA PayoutExplained ==
  ASSUME PaymentsInv, Explained, paid' = paid, NEW h \in All, PayoutsPart(h)
  PROVE  Explained'
  <1>1. PayoutMove(h) /\ refund' = refund
    BY PayoutHolds, PayoutsRest
  <1>2. Paying!PayoutStep(h) \/ Paying!RetryFailed(h)
    BY DEF PayoutsPart
  <1>3. payment' = payment
    BY <1>2
        DEF Paying!PayoutStep, Paying!RetryFailed, Paying!Send, Paying!Wait, Paying!Claim,
            Paying!Created, Paying!RefusedTransfer, Paying!Fail, Paying!Save, Paying!OnConfirmed,
            Paying!OweRent, Paying!OnCancelled, Paying!KeepRent, Paying!Drop, Paying!TakeBack,
            Paying!SaveReversal, Paying!Release, Paying!Unhold, Paying!ReleaseOne,
            Paying!SaveRelease, Paying!SendKept, Paying!CreateKept
  <1>4. Arg(h).op # "confirm"
    <2>1. CASE \/ Paying!Send(h) \/ Paying!Wait(h) \/ Paying!Claim(h) \/ Paying!Created(h)
               \/ Paying!RefusedTransfer(h) \/ Paying!Fail(h) \/ Paying!Save(h)
      <3>1. \/ At(h, "send") \/ At(h, "wait") \/ At(h, "claimTransfer") \/ At(h, "callTransfer")
            \/ At(h, "failTransfer") \/ At(h, "saveTransfer")
        BY <2>1, PayoutCalls
            DEF Paying!Send, Paying!Wait, Paying!Claim, Paying!Created, Paying!RefusedTransfer,
                Paying!Fail, Paying!Save
      <3> QED BY <3>1 DEF At, Arg
    <2>2. CASE \/ Paying!OnConfirmed(h) \/ Paying!OweRent(h) \/ Paying!OnCancelled(h)
               \/ Paying!KeepRent(h) \/ Paying!Drop(h) \/ Paying!TakeBack(h)
               \/ Paying!SaveReversal(h)
      <3>1. \/ At(h, "onConfirmed") \/ At(h, "oweRent") \/ At(h, "onCancelled")
            \/ At(h, "keepRent") \/ At(h, "reverse") \/ At(h, "saveReversal")
        BY <2>2, PayoutCalls
            DEF Paying!OnConfirmed, Paying!OweRent, Paying!OnCancelled, Paying!KeepRent,
                Paying!Drop, Paying!TakeBack, Paying!SaveReversal
      <3> QED BY <3>1 DEF At, Arg
    <2>3. CASE \/ Paying!Release(h) \/ Paying!Unhold(h) \/ Paying!ReleaseOne(h)
               \/ Paying!SaveRelease(h) \/ Paying!SendKept(h) \/ Paying!CreateKept(h)
               \/ Paying!RetryFailed(h)
      <3>1. \/ At(h, "releaseAll") \/ At(h, "release") \/ At(h, "saveRelease")
            \/ At(h, "sendKept") \/ At(h, "createKept") \/ At(h, "retryTransfers")
        BY <2>3, PayoutCalls
            DEF Paying!Release, Paying!Unhold, Paying!ReleaseOne, Paying!SaveRelease,
                Paying!SendKept, Paying!CreateKept, Paying!RetryFailed
      <3> QED BY <3>1 DEF At, Arg
    <2> QED BY <1>2, <2>1, <2>2, <2>3 DEF Paying!PayoutStep
  <1>5. Elsewhere(h)
    BY <1>1, <1>4 DEF PayoutMove, Elsewhere
  <1>6. PICK steps : Moves(h, steps) /\ PayoutSteps(h, steps)
    BY <1>1, GoesMoves, DropMoves, NoPayoutStep DEF PaymentsInv, CallsFit, PayoutMove
  <1>7. \A i \in 1..Len(steps) : steps[i].op \notin AskOps
    BY <1>6 DEF PayoutSteps, AskOps, RowOps, SendOps, ReverseOps
  <1>8. faults'.crashes = 0 => faults.crashes = 0
    BY CrashesStay DEF Step
  <1> QED BY <1>1, <1>3, <1>5, <1>6, <1>7, <1>8, SameRefundRows, SamePayments, ElsewhereMove

LEMMA SendingExplained ==
  ASSUME PaymentsInv, Explained, paid' = paid, NEW h \in All, RestOfRefund,
         \/ Refunding!Attempt(h) \/ Refunding!Claim(h) \/ Refunding!Accepted(h)
         \/ Refunding!RefusedRefund(h) \/ Refunding!Fail(h) \/ Refunding!Tally(h)
         \/ Refunding!Save(h) \/ Refunding!RetryFailed(h)
  PROVE  Explained'
  <1>1. /\ todo[h] # <<>> /\ Arg(h).op \in RefundOps \cup {"retryRefunds"}
        /\ \E steps : Goes(h, steps) /\ \A i \in 1..Len(steps) : steps[i].op \in RefundOps
    BY RowGoes
  <1>2. PICK steps : Goes(h, steps) /\ \A i \in 1..Len(steps) : steps[i].op \in RefundOps
    BY <1>1
  <1>3. /\ Moves(h, steps) /\ Elsewhere(h)
        /\ \A i \in 1..Len(steps) : steps[i].op \notin AskOps
    BY <1>1, <1>2, GoesMoves DEF PaymentsInv, CallsFit, Elsewhere, RefundOps, AskOps
  <1>4. faults'.crashes = 0 => faults.crashes = 0
    BY CrashesStay DEF Step, RefundsPart, Refunding!RefundStep, RestOfRefund
  <1>5. /\ RowsGoOn
        /\ \/ payment' = payment
           \/ Refunding!Save(h)
    <2>1. CASE \/ Refunding!Attempt(h) \/ Refunding!Accepted(h) \/ Refunding!RefusedRefund(h)
               \/ Refunding!Tally(h) \/ Refunding!RetryFailed(h)
      <3>1. refund' = refund /\ payment' = payment
        BY <2>1 DEF Refunding!Attempt, Refunding!Accepted, Refunding!RefusedRefund,
                    Refunding!Tally, Refunding!RetryFailed
      <3> QED BY <3>1, SameRefundRows
    <2>2. CASE Refunding!Claim(h) \/ Refunding!Fail(h) \/ Refunding!Save(h)
      <3>1. \A r \in RefundIds : refund'[r].kind = refund[r].kind /\ refund'[r].payment = refund[r].payment
        <4>1. refund \in [RefundIds -> RefundRows \cup {Refunding!NoRefund}]
          BY DEF PaymentsInv, CallsFit, RowTypes
        <4>2. \A r \in RefundIds : DOMAIN refund[r] = {"payment", "kind", "cash", "amounts", "status", "attempts", "sent"}
          BY <4>1 DEF RefundRows, Refunding!NoRefund
        <4> QED BY <2>2, <4>1, <4>2 DEF Refunding!Claim, Refunding!Fail, Refunding!Save
      <3>2. payment' = payment \/ Refunding!Save(h)
        BY <2>2 DEF Refunding!Claim, Refunding!Fail
      <3> QED BY <3>1, <3>2 DEF RowsGoOn
    <2> QED BY <2>1, <2>2
  <1>6. SpentGoesOn /\ Captured' = Captured
    <2>1. CASE payment' = payment
      BY <2>1, SamePayments
    <2>2. CASE Refunding!Save(h)
      <3>1. Captured' = Captured
        BY <2>2, SaveHolds
      <3>2. PICK r, p : r = Arg(h).id /\ p = refund[r].payment
        OBVIOUS
      <3>3. PICK st : payment' = [payment EXCEPT ![p].status = st]
        BY <2>2, <3>2, RefundCalls DEF Refunding!Save
      <3>4. Arg(h).op \in RefundOps
        BY <2>2, RefundCalls DEF Refunding!Save, At, Arg, RefundOps
      <3>5. r \in RefundIds /\ refund[r] \in RefundRows
        BY <1>1, <3>2, <3>4, HeadAbout
      <3>6. RowsOf(p) # {}
        BY <3>2, <3>5 DEF RowsOf, RefundRows, Kinds
      <3>7. payment \in [Orders -> PaymentRows \cup {NoPayment}]
        BY DEF PaymentsInv, CallsFit, RowTypes
      <3>8. \A o \in Orders : o # p => payment'[o] = payment[o]
        BY <3>3, <3>7
      <3> QED BY <3>1, <3>6, <3>8 DEF SpentGoesOn
    <2> QED BY <1>5, <2>1, <2>2
  <1> QED BY <1>3, <1>4, <1>5, <1>6, ElsewhereMove

(* A late payment's refund asks for what was paid, and all of that is left *)
(* as long as no other refund took from it.                                *)
LEMMA AskedIsRight ==
  ASSUME PaymentsInv, Explained, NEW h \in All, todo[h] # <<>>, Arg(h).op \in AskOps
  PROVE  /\ Arg(h) \in [op : AskOps, payment : Orders, kind : Kinds, cash : Int, amounts : Amounts]
         /\ Arg(h).payment \in Captured
         /\ Arg(h).kind = "LATE_PAYMENT" => Arg(h).cash = CashOf(Booking)
         /\ \A o : HasIt(h, o) => o = Arg(h).payment /\ Arg(h).kind = "LATE_PAYMENT"
  <1>1. PICK s : s = Arg(h)
    OBVIOUS
  <1>2. /\ s \in Steps /\ s \in RefundSteps /\ Fits(h, s)
        /\ s \in [op : AskOps, payment : Orders, kind : Kinds, cash : Int, amounts : Amounts]
    BY <1>1, HeadPayment, RefundForms
  <1>3. s.op \in AskOps /\ s.payment \in Captured
    BY <1>1, <1>2 DEF Fits, RefundFits
  <1>4. \A S : s \in S => Busy(S)
    BY <1>1, CallSeq DEF Busy, Has, PaymentsInv, CallsFit
  <1>5. s \notin Wrong
    BY <1>4 DEF Explained
  <1>6. s.kind = "LATE_PAYMENT" => s.cash = CashOf(Booking)
    BY <1>2, <1>3, <1>5 DEF Wrong, Asking
  <1>7. \A o : HasIt(h, o) => o = s.payment /\ s.kind = "LATE_PAYMENT"
    BY <1>1, <1>3 DEF HasIt, Late, Asking, Arg, AskOps
  <1> QED BY <1>1, <1>2, <1>3, <1>6, <1>7

LEMMA NothingBackYet ==
  ASSUME PaymentsInv, Explained, NEW o \in Captured, RowsOf(o) = {}
  PROVE  Refunding!Refundable(o) = CashOf(Booking)
  <1>1. o \in Orders
    BY DEF Captured, PaymentsIn
  <1>2. refund \in [RefundIds -> RefundRows \cup {Refunding!NoRefund}]
    BY DEF PaymentsInv, CallsFit, RowTypes
  <1>3. ASSUME NEW r \in RefundIds, refund[r].payment = o, refund[r] # Refunding!NoRefund
        PROVE  FALSE
    <2>1. refund[r] \in RefundRows
      BY <1>2, <1>3
    <2>2. refund[r].kind # "NONE"
      BY <2>1 DEF RefundRows, Kinds
    <2> QED BY <1>3, <2>2 DEF RowsOf
  <1>6. {r \in Refunding!RefundsOf(o) : refund[r].status \in Refunding!Counted} = {}
    <2>1. \A r \in RefundIds : refund[r].payment = o => refund[r].status = "NONE"
      BY <1>3 DEF Refunding!NoRefund
    <2> QED BY <2>1, Ids DEF Refunding!RefundsOf, Refunding!Counted
  <1>7. payment[o].status = "CAPTURED" /\ payment[o].amount = CashOf(Booking)
    <2>1. payment[o] \in PaymentRows \cup {NoPayment}
      BY <1>1 DEF PaymentsInv, CallsFit, RowTypes
    <2>2. payment[o].status \in {"CAPTURED", "PARTIALLY_REFUNDED", "REFUNDED"}
      BY DEF Captured, PaymentsIn
    <2>3. payment[o].status \notin Spent
      BY <1>1 DEF Explained
    <2> QED BY <2>1, <2>2, <2>3 DEF PaymentRows, NoPayment, Spent
  <1>8. Refunding!CashIn({}) = 0
    <2>1. PICK S : S = {}
      OBVIOUS
    <2>2. [r \in S |-> refund[r].cash] = [r \in S |-> 0]
      BY <2>1
    <2>3. IsFiniteSet(S)
      BY <2>1, FS_EmptySet
    <2> QED BY <2>1, <2>2, <2>3, SumOfZeros, SameSum DEF Refunding!CashIn
  <1>9. Refunding!Refundable(o) = CashOf(Booking) - 0
    BY <1>6, <1>7, <1>8 DEF Refunding!Refundable
  <1> QED BY <1>9, CashIsInt

(* So the refund is allowed, and it is written: or another one took from   *)
(* the payment before.                                                     *)
LEMMA CheckExplained ==
  ASSUME PaymentsInv, Explained, paid' = paid, CashOf(Booking) > 0,
         NEW h \in All, Refunding!Check(h), RestOfRefund
  PROVE  Explained'
  <1>1. PICK x, s : x = Arg(h) /\ s = [x EXCEPT !.op = "insertRefund"]
    OBVIOUS
  <1>2. /\ todo[h] # <<>> /\ x.op = "createRefund" /\ x.op \in AskOps
        /\ UNCHANGED <<payment, refund, books, accepted, faults>>
    BY <1>1, RefundCalls DEF Refunding!Check, At, Arg, AskOps
  <1>3. PICK o : o = x.payment
    OBVIOUS
  <1>4. /\ x \in [op : AskOps, payment : Orders, kind : Kinds, cash : Int, amounts : Amounts]
        /\ o \in Captured /\ (x.kind = "LATE_PAYMENT" => x.cash = CashOf(Booking))
        /\ \A u : HasIt(h, u) => u = o /\ x.kind = "LATE_PAYMENT"
    BY <1>1, <1>2, <1>3, AskedIsRight
  <1>5. /\ s \in [op : AskOps, payment : Orders, kind : Kinds, cash : Int, amounts : Amounts]
        /\ s.op = "insertRefund" /\ s.kind = x.kind /\ s.cash = x.cash /\ s.payment = o
    BY <1>1, <1>3, <1>4 DEF AskOps
  <1>6. PICK steps : Moves(h, steps) /\ (steps = <<>> \/ steps = <<s>>)
    <2>1. Goes(h, <<>>) \/ Goes(h, <<s>>) \/ (Dropped(h) /\ Others(h))
      BY <1>1, CheckHolds
    <2> QED BY <1>2, <2>1, GoesMoves, DropMoves DEF PaymentsInv, CallsFit
  <1>7. ~Has(steps, Wrong)
    BY <1>4, <1>5, <1>6 DEF Has, Wrong, Asking
  <1>8. x.kind = "LATE_PAYMENT" => RowsOf(o)' # {} \/ HasIt(h, o)'
    <2> SUFFICES ASSUME x.kind = "LATE_PAYMENT", RowsOf(o) = {} PROVE HasIt(h, o)'
      BY <1>2 DEF RowsOf
    <2>1. Refunding!Refundable(o) = CashOf(Booking)
      BY <1>4, NothingBackYet
    <2>2. Continue(h, <<s>>)
      <3>1. \/ x.cash > Refunding!Refundable(o) /\ x.cash > 0
            \/ Continue(h, <<s>>)
            \/ x.cash <= 0
        BY <1>1, <1>3, RefundCalls DEF Refunding!Check
      <3> QED BY <1>4, <2>1, <3>1, CashIsInt
    <2>3. PICK q, L : q = todo[h] /\ L = LaterSteps(h) /\ h \in DOMAIN todo /\ Tail(q) \in Seq(L)
      BY <1>2 DEF PaymentsInv, CallsFit, Lists, ListsOf
    <2>4. todo'[h] = <<s>> \o Tail(q)
      BY <2>2, <2>3 DEF Continue
    <2>5. PICK u : u = Tail(q) /\ u \in Seq(L)
      BY <2>3
    <2>6. <<s>> \o u # <<>> /\ Head(<<s>> \o u) = s
      BY <2>5
    <2>7. s \in RefundSteps
      BY <1>5 DEF RefundSteps
    <2>8. s \in Late(o)
      BY <1>5, <2>7 DEF Late, Asking, AskOps
    <2>9. s \in Late(o)'
      BY <2>8 DEF Late, Asking
    <2> QED BY <2>4, <2>5, <2>6, <2>9 DEF HasIt
  <1>9. \A u \in Captured' : (u \in Captured /\ ~HasIt(h, u)) \/ RowsOf(u)' # {} \/ HasIt(h, u)'
    BY <1>2, <1>4, <1>8, SamePayments
  <1> QED BY <1>2, <1>6, <1>7, <1>9, SameRefundRows, SamePayments, ExplainedKept

LEMMA InsertExplained ==
  ASSUME PaymentsInv, Explained, paid' = paid, NEW h \in All, Refunding!Insert(h), RestOfRefund
  PROVE  Explained'
  <1>1. PICK x : x = Arg(h)
    OBVIOUS
  <1>2. PICK o : o = x.payment
    OBVIOUS
  <1>3. x.op \in AskOps /\ todo[h] # <<>>
    BY <1>1, RefundCalls DEF Refunding!Insert, At, Arg, AskOps
  <1>4. x.kind \in Kinds /\ \A u : HasIt(h, u) => u = o
    BY <1>1, <1>2, <1>3, AskedIsRight
  <1>5. \E r \in RefundIds :
          /\ refund[r] = Refunding!NoRefund
          /\ refund'[r] = [payment |-> x.payment, kind |-> x.kind, cash |-> x.cash,
                           amounts |-> x.amounts, status |-> "PENDING", attempts |-> 0,
                           sent |-> FALSE]
          /\ \A q \in RefundIds : q # r => refund'[q] = refund[q]
          /\ Goes(h, <<[op |-> "attempt", id |-> r]>>)
    BY <1>1, InsertHolds
  <1>6. PICK r \in RefundIds :
          /\ refund[r] = Refunding!NoRefund
          /\ refund'[r].kind = x.kind /\ refund'[r].payment = o
          /\ \A q \in RefundIds : q # r => refund'[q] = refund[q]
          /\ Goes(h, <<[op |-> "attempt", id |-> r]>>)
    BY <1>2, <1>5
  <1>7. PICK steps : Moves(h, steps) /\ steps = <<[op |-> "attempt", id |-> r]>>
    BY <1>6, GoesMoves DEF PaymentsInv, CallsFit
  <1>8. ~Has(steps, Wrong)
    BY <1>7 DEF Has, Wrong, Asking, AskOps
  <1>9. RowsGoOn
    BY <1>6 DEF RowsGoOn
  <1>10. RowsOf(o)' # {}
    BY <1>4, <1>6 DEF RowsOf, Kinds
  <1>11. payment' = payment /\ faults' = faults
    BY DEF Refunding!Insert
  <1>12. \A u \in Captured' : (u \in Captured /\ ~HasIt(h, u)) \/ RowsOf(u)' # {}
    BY <1>4, <1>10, <1>11, SamePayments
  <1> QED BY <1>7, <1>8, <1>9, <1>11, <1>12, SamePayments, ExplainedKept

LEMMA RefundExplained ==
  ASSUME PaymentsInv, Explained, paid' = paid, CashOf(Booking) > 0, NEW h \in All, RefundsPart(h)
  PROVE  Explained'
  <1>1. RestOfRefund
    BY DEF RefundsPart, RestOfRefund
  <1>2. CASE Refunding!Check(h)
    BY <1>1, <1>2, CheckExplained
  <1>3. CASE Refunding!Insert(h)
    BY <1>1, <1>3, InsertExplained
  <1>4. CASE ~Refunding!Check(h) /\ ~Refunding!Insert(h)
    BY <1>1, <1>4, SendingExplained DEF RefundsPart, Refunding!RefundStep
  <1> QED BY <1>2, <1>3, <1>4

(* The checkout and the webhooks.                                          *)
LEMMA CaptureExplained ==
  ASSUME PaymentsInv, Explained, paid' = paid, NEW h \in All, Capture(h)
  PROVE  Explained'
  <1>1. /\ PaymentsInv' /\ todo[h] # <<>> /\ refund' = refund /\ faults' = faults
        /\ \/ Goes(h, <<>>) /\ payment' = payment /\ Captured' = Captured
           \/ \E s, o : /\ s = [op |-> "confirm", order |-> o] /\ Goes(h, <<s>>)
                        /\ o \in Orders \ Captured /\ Captured' = Captured \cup {o}
    BY CaptureHolds
  <1>2. At(h, "capture")
    BY DEF Capture
  <1>3. Elsewhere(h) /\ \A o : ~HasIt(h, o)
    BY <1>2 DEF At, Arg, Elsewhere, AskOps, HasIt, Late, Asking
  <1>4. SpentGoesOn
    <2> SUFFICES ASSUME NEW o \in Orders, payment'[o].status \in Spent
                 PROVE  payment[o].status \in Spent
      BY DEF SpentGoesOn
    <2>1. PICK p : \/ payment' = payment
                   \/ payment' = [payment EXCEPT ![p].status = "CAPTURED"]
      BY DEF Capture
    <2>2. payment \in [Orders -> PaymentRows \cup {NoPayment}]
      BY DEF PaymentsInv, CallsFit, RowTypes
    <2>3. "status" \in DOMAIN payment[o]
      BY <2>2 DEF PaymentRows, NoPayment
    <2> QED BY <2>1, <2>2, <2>3 DEF Spent
  <1>5. CASE Goes(h, <<>>) /\ Captured' = Captured
    <2>1. PICK s : s = [op |-> "capture"]
      OBVIOUS
    <2>2. s.op \notin AskOps
      BY <2>1 DEF AskOps
    <2> QED BY <1>1, <1>3, <1>4, <1>5, <2>2, SameRefundRows, ElsewhereCall
  <1>6. CASE \E s, o : /\ s = [op |-> "confirm", order |-> o] /\ Goes(h, <<s>>)
                       /\ o \in Orders \ Captured /\ Captured' = Captured \cup {o}
    <2>1. PICK s, o : /\ s = [op |-> "confirm", order |-> o] /\ Goes(h, <<s>>)
                      /\ o \in Orders \ Captured /\ Captured' = Captured \cup {o}
      BY <1>6
    <2>2. PICK steps : steps = <<s>> /\ Moves(h, steps)
      BY <2>1, GoesMoves DEF PaymentsInv, CallsFit
    <2>3. ~Has(steps, Wrong)
      BY <2>1, <2>2 DEF Has, Wrong, Asking, AskOps
    <2>4. todo'[h] # <<>> /\ Head(todo'[h]) = s
      BY <1>1, <2>2, NextIsNew DEF PaymentsInv, CallsFit
    <2>5. s \in Late(o)'
      BY <2>1 DEF Late, PaymentSteps
    <2>6. HasIt(h, o)'
      BY <2>4, <2>5 DEF HasIt
    <2>7. \A u \in Captured' : (u \in Captured /\ ~HasIt(h, u)) \/ HasIt(h, u)'
      BY <1>3, <2>1, <2>6
    <2> QED BY <1>1, <1>4, <2>2, <2>3, <2>7, SameRefundRows, ExplainedKept
  <1> QED BY <1>1, <1>5, <1>6

(* A payment that confirms the booking is the first to be unexplained, for *)
(* none was before; one that comes late is left with the call.             *)
LEMMA ConfirmExplained ==
  ASSUME PaymentsInv, PaidFits, Explained, Booking.credit = 0, NEW h \in All, Confirm(h)
  PROVE  Explained'
  <1>1. /\ PaymentsInv' /\ todo[h] # <<>> /\ Arg(h).op = "confirm"
        /\ refund' = refund /\ payment' = payment /\ faults' = faults
        /\ \/ /\ status = "AWAITING_PAYMENT"
              /\ \E s, u : s.op = "onConfirmed" /\ u.op = "catch" /\ Goes(h, <<s, u>>)
           \/ /\ status # "AWAITING_PAYMENT"
              /\ \E s \in Asking("LATE_PAYMENT") : /\ s.payment = Arg(h).order
                                                   /\ s.cash = CashOf([Booking EXCEPT !.credit = 0])
                                                   /\ Goes(h, <<s>>)
    BY ConfirmHolds DEF moneyVars
  <1>2. PICK o : o = Arg(h).order
    OBVIOUS
  <1>3. \A u : HasIt(h, u) => u = o
    BY <1>1, <1>2 DEF HasIt, Late, Asking, Arg, AskOps
  <1>4. RowsGoOn /\ SpentGoesOn /\ Captured' = Captured
    BY <1>1, SameRefundRows, SamePayments
  <1>5. CASE status = "AWAITING_PAYMENT"
    <2>1. PICK s, u : s.op = "onConfirmed" /\ u.op = "catch" /\ Goes(h, <<s, u>>)
      BY <1>1, <1>5
    <2>2. PICK steps : steps = <<s, u>> /\ Moves(h, steps)
      BY <1>1, <2>1, GoesMoves DEF PaymentsInv, CallsFit
    <2>3. ~Has(steps, Wrong)
      BY <2>1, <2>2 DEF Has, Wrong, Asking, AskOps
    <2>4. ~Busy(Wrong)' /\ \A p \in Orders : payment'[p].status \in Spent => RowsOf(p)' # {}
      BY <1>4, <2>2, <2>3, RestExplained
    <2>5. ~paid /\ paid' = TRUE
      BY <1>5 DEF Confirm, Waiting, PaidFits, Paid
    <2>6. faults.crashes = 0 => Unexplained = {}
      BY <2>5 DEF Explained
    <2>7. faults.crashes = 0 => \A p \in Unexplained' : p = o
      <3> SUFFICES ASSUME faults.crashes = 0, NEW p \in Unexplained', p # o PROVE FALSE
        OBVIOUS
      <3>1. p \in Captured /\ ~HasIt(h, p)
        BY <1>3, <1>4 DEF Unexplained
      <3>2. p \in Unexplained
        BY <1>4, <2>2, <3>1, LeftOver
      <3> QED BY <2>6, <3>2
    <2> QED BY <1>1, <2>4, <2>5, <2>7 DEF Explained, Spent
  <1>6. CASE status # "AWAITING_PAYMENT"
    <2>1. PICK s \in Asking("LATE_PAYMENT") : /\ s.payment = o
                                              /\ s.cash = CashOf([Booking EXCEPT !.credit = 0])
                                              /\ Goes(h, <<s>>)
      BY <1>1, <1>2, <1>6
    <2>2. s.cash = CashOf(Booking)
      <3>1. Booking = [Booking EXCEPT !.credit = 0]
        BY PaymentsAssumption
      <3> QED BY <2>1, <3>1
    <2>3. PICK steps : steps = <<s>> /\ Moves(h, steps)
      BY <1>1, <2>1, GoesMoves DEF PaymentsInv, CallsFit
    <2>4. ~Has(steps, Wrong)
      BY <2>2, <2>3 DEF Has, Wrong
    <2>5. todo'[h] # <<>> /\ Head(todo'[h]) = s
      BY <1>1, <2>3, NextIsNew DEF PaymentsInv, CallsFit
    <2>6. s \in Late(o)'
      BY <2>1 DEF Late, Asking
    <2>7. HasIt(h, o)'
      BY <2>5, <2>6 DEF HasIt
    <2>8. \A u \in Captured' : (u \in Captured /\ ~HasIt(h, u)) \/ HasIt(h, u)'
      BY <1>3, <1>4, <2>7
    <2>9. paid' = paid
      BY <1>6 DEF Confirm, Waiting
    <2> QED BY <1>1, <1>4, <2>3, <2>4, <2>8, <2>9, ExplainedKept
  <1> QED BY <1>5, <1>6

LEMMA CheckingOutExplained ==
  ASSUME PaymentsInv, Explained, paid' = paid, NEW h \in All,
         \/ CreateOrder(h) \/ InsertPayment(h) \/ MarkFailed(h) \/ Receive(h) \/ Answer(h)
         \/ Caught(h) /\ UNCHANGED <<bookingVars, moneyVars, gatewayVars, faults>>
  PROVE  Explained'
  <1>1. \/ At(h, "createOrder") \/ At(h, "insertPayment") \/ At(h, "markFailed")
        \/ At(h, "receive") \/ At(h, "answer") \/ At(h, "catch")
    BY DEF CreateOrder, InsertPayment, MarkFailed, Receive, Answer, Caught
  <1>2. Elsewhere(h) /\ todo[h] # <<>>
    BY <1>1 DEF At, Arg, Elsewhere, AskOps
  <1>3. refund' = refund
    BY DEF CreateOrder, InsertPayment, MarkFailed, Receive, Answer, moneyVars
  <1>4. faults'.crashes = 0 => faults.crashes = 0
    BY CrashesStay DEF Step, PaymentStep
  <1>5. PICK s, u : /\ s.op \notin AskOps /\ u.op \notin AskOps
                    /\ \/ Goes(h, <<>>) \/ Goes(h, <<s>>) \/ Goes(h, <<s, u>>)
                       \/ Dropped(h) /\ Others(h)
    <2>1. PICK none : none = [op |-> "catch"]
      OBVIOUS
    <2>2. none.op \notin AskOps
      BY <2>1 DEF AskOps
    <2>3. CASE CreateOrder(h)
      <3>1. \/ Dropped(h) /\ Others(h)
            \/ \E s : s.op = "insertPayment" /\ Goes(h, <<s>>)
        BY <2>3, CreateOrderHolds
      <3>2. CASE Dropped(h) /\ Others(h)
        BY ONLY <2>2, <3>2, Zenon
      <3>3. CASE \E s : s.op = "insertPayment" /\ Goes(h, <<s>>)
        <4>1. PICK s : s.op = "insertPayment" /\ Goes(h, <<s>>)
          BY <3>3
        <4>2. s.op \notin AskOps
          BY <4>1 DEF AskOps
        <4> QED BY ONLY <2>2, <4>1, <4>2, Zenon
      <3> QED BY <3>1, <3>2, <3>3
    <2>4. CASE Receive(h)
      <3>1. \/ Goes(h, <<>>)
            \/ \E a, b : /\ a.op \in {"capture", "markFailed"} /\ b.op = "answer"
                         /\ Goes(h, <<a, b>>)
        BY <2>4, ReceiveHolds
      <3>2. CASE Goes(h, <<>>)
        BY ONLY <2>2, <3>2, Zenon
      <3>3. CASE \E a, b : /\ a.op \in {"capture", "markFailed"} /\ b.op = "answer"
                           /\ Goes(h, <<a, b>>)
        <4>1. PICK a, b : /\ a.op \in {"capture", "markFailed"} /\ b.op = "answer"
                          /\ Goes(h, <<a, b>>)
          BY <3>3
        <4>2. a.op \notin AskOps /\ b.op \notin AskOps
          BY <4>1 DEF AskOps
        <4> QED BY ONLY <4>1, <4>2, Zenon
      <3> QED BY <3>1, <3>2, <3>3
    <2>5. CASE ~CreateOrder(h) /\ ~Receive(h)
      <3>1. Goes(h, <<>>)
        BY <2>5, InsertPaymentHolds, MarkFailedHolds, AnswerHolds, CaughtHolds
      <3> QED BY ONLY <2>2, <3>1, Zenon
    <2> QED BY <2>3, <2>4, <2>5
  <1>6. SpentGoesOn /\ Captured' = Captured
    <2>1. CASE payment' = payment
      BY <2>1, SamePayments
    <2>2. CASE payment' # payment
      <3>1. InsertPayment(h) \/ MarkFailed(h)
        BY <2>2 DEF CreateOrder, Receive, Answer, moneyVars
      <3>2. PICK p, row, st : /\ row.status = "CREATED" /\ st = "FAILED"
                              /\ \/ payment' = [payment EXCEPT ![p] = row]
                                 \/ payment' = [payment EXCEPT ![p].status = st]
        <4>1. PICK row : row = [status |-> "CREATED", amount |-> CashOf(Booking)]
          OBVIOUS
        <4>2. PICK p : p = Arg(h).order
          OBVIOUS
        <4>3. \/ payment' = [payment EXCEPT ![p] = row]
              \/ payment' = [payment EXCEPT ![p].status = "FAILED"]
          BY <2>2, <3>1, <4>1, <4>2 DEF InsertPayment, MarkFailed
        <4>4. row.status = "CREATED"
          BY <4>1
        <4> QED BY ONLY <4>3, <4>4, Zenon
      <3>3. payment \in [Orders -> PaymentRows \cup {NoPayment}]
        BY DEF PaymentsInv, CallsFit, RowTypes
      <3>4. SpentGoesOn
        <4> SUFFICES ASSUME NEW o \in Orders, payment'[o].status \in Spent
                     PROVE  payment[o].status \in Spent
          BY DEF SpentGoesOn
        <4>1. "status" \in DOMAIN payment[o]
          BY <3>3 DEF PaymentRows, NoPayment
        <4> QED BY <3>2, <3>3, <4>1 DEF Spent
      <3>5. Captured' = Captured
        BY <3>1, InsertPaymentHolds, MarkFailedHolds
      <3> QED BY <3>4, <3>5
    <2> QED BY <2>1, <2>2
  <1> QED BY <1>2, <1>3, <1>4, <1>5, <1>6, SameRefundRows, ElsewhereCall

(* The refund of a cancellation or of a deposit is not a late payment's.   *)
LEMMA ClosingExplained ==
  ASSUME PaymentsInv, Explained, paid' = paid, NEW h \in All,
         \/ RefundCancelled(h) \/ FindRelease(h) \/ ReleaseCredit(h) \/ RefundCredit(h)
         \/ PostCredit(h) \/ Settle(h) \/ KeepDeposit(h)
  PROVE  Explained'
  <1>1. \/ At(h, "refundCancelled") \/ At(h, "findRelease") \/ At(h, "releaseCredit")
        \/ At(h, "refundCredit") \/ At(h, "postCredit") \/ At(h, "settle")
        \/ At(h, "keepDeposit")
    BY DEF RefundCancelled, FindRelease, ReleaseCredit, RefundCredit, PostCredit, Settle,
           KeepDeposit
  <1>2. Elsewhere(h) /\ todo[h] # <<>>
    BY <1>1 DEF At, Arg, Elsewhere, AskOps
  <1>3. UNCHANGED <<payment, refund, faults>>
    BY DEF RefundCancelled, FindRelease, ReleaseCredit, RefundCredit, PostCredit, Settle,
           KeepDeposit, moneyVars
  <1>4. PICK steps : /\ Goes(h, steps)
                     /\ \A i \in 1..Len(steps) : \/ steps[i].op \notin AskOps
                                                 \/ steps[i].kind # "LATE_PAYMENT"
    <2>1. CASE RefundCancelled(h)
      <3>1. PICK p : Goes(h, <<>>) \/ Goes(h, <<[op |-> "findRelease", order |-> p]>>)
        BY <2>1, RefundCancelledHolds
      <3>2. PICK steps : Goes(h, steps) /\ (steps = <<>> \/ steps = <<[op |-> "findRelease", order |-> p]>>)
        BY <3>1
      <3> QED BY <3>2 DEF AskOps
    <2>2. CASE FindRelease(h)
      <3>1. PICK s : s = [op |-> "releaseCredit", order |-> Arg(h).order, found |-> credit]
        OBVIOUS
      <3>2. PICK steps : Goes(h, steps) /\ steps = <<s>>
        BY <2>2, <3>1, FindReleaseHolds
      <3> QED BY <3>1, <3>2 DEF AskOps
    <2>3. CASE ReleaseCredit(h)
      <3>1. PICK cash, amounts, u :
              /\ u.op = "onCancelled"
              /\ \/ Goes(h, <<[op |-> "refundCredit", amounts |-> amounts]>>)
                 \/ Goes(h, <<Refunding!CreateRefund(Arg(h).order, "CANCELLATION", cash, amounts), u>>)
        BY <2>3, ReleaseCreditHolds
      <3>2. PICK s, c : /\ s = [op |-> "refundCredit", amounts |-> amounts]
                        /\ c = Refunding!CreateRefund(Arg(h).order, "CANCELLATION", cash, amounts)
        OBVIOUS
      <3>3. s.op \notin AskOps /\ u.op \notin AskOps /\ c.kind # "LATE_PAYMENT"
        BY <3>1, <3>2 DEF AskOps, Refunding!CreateRefund
      <3>4. PICK steps : Goes(h, steps) /\ (steps = <<s>> \/ steps = <<c, u>>)
        BY <3>1, <3>2
      <3> QED BY <3>3, <3>4
    <2>4. CASE RefundCredit(h)
      <3>1. CASE Goes(h, <<>>)
        <4>1. PICK steps : Goes(h, steps) /\ steps = <<>>
          BY <3>1
        <4> QED BY <4>1
      <3>2. CASE \E s, u : s.op = "postCredit" /\ u.op = "onCancelled" /\ Goes(h, <<s, u>>)
        <4>1. PICK s, u : s.op = "postCredit" /\ u.op = "onCancelled" /\ Goes(h, <<s, u>>)
          BY <3>2
        <4>2. PICK steps : Goes(h, steps) /\ steps = <<s, u>>
          BY <4>1
        <4> QED BY <4>1, <4>2 DEF AskOps
      <3> QED BY <2>4, <3>1, <3>2, RefundCreditHolds
    <2>5. CASE PostCredit(h) \/ KeepDeposit(h)
      <3>1. PICK steps : Goes(h, steps) /\ steps = <<>>
        BY <2>5, PostCreditHolds, KeepDepositHolds
      <3> QED BY <3>1
    <2>6. CASE Settle(h)
      <3>1. PICK steps : Goes(h, steps) /\ SettleSteps(steps)
        BY <2>6, SettleHolds
      <3> QED BY <3>1 DEF SettleSteps, SettleParts, Asking, AskOps
    <2> QED BY <2>1, <2>2, <2>3, <2>4, <2>5, <2>6
  <1>5. Moves(h, steps)
    BY <1>2, <1>4, GoesMoves DEF PaymentsInv, CallsFit
  <1> QED BY <1>2, <1>3, <1>4, <1>5, SameRefundRows, SamePayments, ElsewhereMove

LEMMA PaymentExplained ==
  ASSUME PaymentsInv, PaidFits, Explained, Booking.credit = 0, NEW h \in All, PaymentStep(h)
  PROVE  Explained'
  <1>1. CASE Confirm(h)
    BY <1>1, ConfirmExplained
  <1>2. CASE ~Confirm(h)
    <2>1. paid' = paid
      BY <1>2 DEF PaymentStep, CreateOrder, InsertPayment, Capture, MarkFailed, Receive, Answer,
         RefundCancelled, FindRelease, ReleaseCredit, RefundCredit, PostCredit, Settle,
         KeepDeposit, bookingVars, bookingRow
    <2> QED BY <1>2, <2>1, CaptureExplained, CheckingOutExplained, ClosingExplained DEF PaymentStep
  <1> QED BY <1>1, <1>2

LEMMA SweepExplained ==
  ASSUME PaymentsInv, Explained, paid' = paid, NEW h \in All, SweepStep(h)
  PROVE  Explained'
  <1>1. /\ todo[h] # <<>> /\ Arg(h).op \in {"sweepMissed", "sweepUnsettled"}
        /\ UNCHANGED <<moneyVars, faults>>
        /\ \/ Goes(h, <<>>)
           \/ \E s : s.op \in {"refundCancelled", "settle"} /\ Goes(h, <<s>>)
    BY SweepMissedHolds, SweepUnsettledHolds DEF SweepStep
  <1>2. Elsewhere(h)
    BY <1>1 DEF Elsewhere, AskOps
  <1>3. PICK s : s.op \notin AskOps /\ (Goes(h, <<>>) \/ Goes(h, <<s>>))
    <2>1. PICK none : none = [op |-> "settle"]
      OBVIOUS
    <2>2. none.op \notin AskOps
      BY <2>1 DEF AskOps
    <2>3. CASE Goes(h, <<>>)
      BY ONLY <2>2, <2>3, Zenon
    <2>4. CASE \E s : s.op \in {"refundCancelled", "settle"} /\ Goes(h, <<s>>)
      <3>1. PICK s : s.op \in {"refundCancelled", "settle"} /\ Goes(h, <<s>>)
        BY <2>4
      <3>2. s.op \notin AskOps
        BY <3>1 DEF AskOps
      <3> QED BY ONLY <3>1, <3>2, Zenon
    <2> QED BY <1>1, <2>3, <2>4
  <1> QED BY <1>1, <1>2, <1>3, SameRefundRows, SamePayments, ElsewhereCall DEF moneyVars

(* What starts, and what the gateway and a restart do.                     *)
LEMMA StartsExplained ==
  ASSUME PaymentsInv, Explained, paid' = paid, NEW h \in All,
         \/ Checkout(h) \/ Sweep(h)
         \/ \E o \in Orders : Verify(h, o)
         \/ \E e \in Events : Webhook(h, e)
         \/ \E p \in Unrefunded, amount \in GoodwillGiven : GiveGoodwill(h, p, amount)
         \/ h = Closer /\ (Cancel \/ Complete)
  PROVE  Explained'
  <1>1. /\ PaymentsInv' /\ todo[h] = <<>> /\ Others(h) /\ UNCHANGED <<moneyVars, faults>>
        /\ \/ \E s : /\ s.op \in {"createOrder", "capture", "receive", "refundCancelled", "settle"}
                     /\ todo'[h] = <<s>>
           \/ \E s : s.op = "createRefund" /\ s.kind = "MANUAL" /\ todo'[h] = <<s>>
           \/ todo'[h] = <<[op |-> "sweepMissed"], [op |-> "sweepUnsettled"],
                           [op |-> "retryRefunds"], [op |-> "retryTransfers"]>>
    BY CheckoutHolds, VerifyHolds, WebhookHolds, SweepHolds, GoodwillHolds, CloseHolds
  <1>2. PICK steps : /\ todo'[h] = steps
                     /\ \A i \in 1..Len(steps) : \/ steps[i].op \notin AskOps
                                                 \/ steps[i].kind # "LATE_PAYMENT"
    BY <1>1 DEF AskOps
  <1>3. Moves(h, steps) /\ Elsewhere(h)
    BY <1>1, <1>2, StartMoves DEF PaymentsInv, CallsFit, Elsewhere
  <1> QED BY <1>1, <1>2, <1>3, SameRefundRows, SamePayments, ElsewhereMove DEF moneyVars

LEMMA StillExplained ==
  ASSUME Explained, todo' = todo, faults' = faults, payment' = payment, paid' = paid, RowsGoOn
  PROVE  Explained'
  <1>1. \A h \in All : \A o : HasIt(h, o)' <=> HasIt(h, o)
    BY DEF HasIt, Late, Asking
  <1>2. \A o : RowsOf(o) \subseteq RowsOf(o)'
    BY RowsStayThere
  <1>3. ~Busy(Wrong)'
    BY DEF Explained, Busy, Wrong, Asking
  <1>4. \A o \in Orders : payment'[o].status \in Spent => RowsOf(o)' # {}
    BY <1>2 DEF Explained
  <1>5. Unexplained' \subseteq Unexplained
    BY <1>1, <1>2, SamePayments DEF Unexplained
  <1> QED BY <1>3, <1>4, <1>5 DEF Explained, Spent

LEMMA GatewayExplained ==
  ASSUME PaymentsInv, Explained, paid' = paid,
         \/ \E o \in Orders : Pay(o) \/ FailedAttempt(o)
         \/ \E to \in UnpaidCloses : CloseUnpaid(to)
         \/ \E r \in Refunding!RefundIds, ok \in BOOLEAN : RefundSettled(r, ok)
         \/ UNCHANGED vars
  PROVE  Explained'
  <1>1. todo' = todo /\ faults' = faults /\ payment' = payment
    BY DEF Pay, FailedAttempt, CloseUnpaid, RefundSettled, Refunding!Settle, moneyVars, vars
  <1>2. CASE \E r \in Refunding!RefundIds, ok \in BOOLEAN : RefundSettled(r, ok)
    <2>1. PICK r \in RefundIds, ok \in BOOLEAN : RefundSettled(r, ok)
      BY <1>2, Ids
    <2>2. RowsGoOn
      BY <2>1, SettledHolds DEF RowsGoOn
    <2> QED BY <1>1, <2>2, StillExplained
  <1>3. CASE ~\E r \in Refunding!RefundIds, ok \in BOOLEAN : RefundSettled(r, ok)
    <2>1. refund' = refund
      BY <1>3 DEF Pay, FailedAttempt, CloseUnpaid, moneyVars, vars
    <2> QED BY <1>1, <2>1, SameRefundRows, StillExplained
  <1> QED BY <1>2, <1>3

LEMMA RestartExplained ==
  ASSUME PaymentsInv, Explained, Crash
  PROVE  Explained'
  <1>1. refund' = refund /\ payment' = payment /\ \A h \in All : todo'[h] = <<>>
    BY CrashHolds DEF moneyVars
  <1>2. faults'.crashes # 0
    <2>1. faults \in [crashes : Nat, failures : Nat]
      BY DEF PaymentsInv, CallsFit, OtherTypes
    <2> QED BY <2>1 DEF Crash, Restart
  <1>3. ~Busy(Wrong)'
    BY <1>1, EmptyLists DEF Busy, Has
  <1> QED BY <1>1, <1>2, <1>3 DEF Explained, Spent, RowsOf

LEMMA NothingPaidYet ==
  ASSUME Init
  PROVE  Explained
  <1>1. (\A h \in All : todo[h] = <<>>) /\ payment = [p \in Orders |-> NoPayment]
    BY DEF Init, HandlersInit
  <1>2. ~Busy(Wrong)
    BY <1>1, NoCalls
  <1>3. Captured = {} /\ \A o \in Orders : payment[o].status \notin Spent
    BY <1>1 DEF Captured, PaymentsIn, NoPayment, Spent
  <1> QED BY <1>2, <1>3 DEF Explained, Unexplained

LEMMA NextExplained ==
  ASSUME PaymentsInv, PaidFits, Explained, Booking.credit = 0, CashOf(Booking) > 0, [Next]_vars
  PROVE  Explained'
  <1>1. CASE \E h \in All : PaymentStep(h)
    BY <1>1, PaymentExplained
  <1>2. CASE \E h \in All : SweepStep(h) \/ RefundsPart(h) \/ PayoutsPart(h)
    <2>1. paid' = paid
      BY <1>2, PayoutsRest DEF SweepStep, SweepMissed, SweepUnsettled, RefundsPart, bookingVars,
         bookingRow
    <2> QED BY <1>2, <2>1, SweepExplained, RefundExplained, PayoutExplained
  <1>3. CASE \/ \E h \in All : \/ Checkout(h) \/ Sweep(h)
                               \/ \E o \in Orders : Verify(h, o)
                               \/ \E e \in Events : Webhook(h, e)
                               \/ \E p \in Unrefunded, amount \in GoodwillGiven : GiveGoodwill(h, p, amount)
             \/ Cancel \/ Complete
    <2>1. paid' = paid
      BY <1>3 DEF Checkout, Sweep, Verify, Webhook, GiveGoodwill, Cancel, Complete, bookingRow
    <2>2. Cancel \/ Complete => Closer \in All
      BY CloseHolds
    <2> QED BY <1>3, <2>1, <2>2, StartsExplained
  <1>4. CASE Crash
    BY <1>4, RestartExplained
  <1>5. CASE \/ \E o \in Orders : Pay(o) \/ FailedAttempt(o)
             \/ \E to \in UnpaidCloses : CloseUnpaid(to)
             \/ \E r \in Refunding!RefundIds, ok \in BOOLEAN : RefundSettled(r, ok)
             \/ UNCHANGED vars
    <2>1. paid' = paid
      BY <1>5 DEF Pay, FailedAttempt, CloseUnpaid, RefundSettled, bookingVars, bookingRow, vars
    <2> QED BY <1>5, <2>1, GatewayExplained
  <1> QED BY <1>1, <1>2, <1>3, <1>4, <1>5 DEF Next, Step

(* One payment at most has no refund when the calls have ended.            *)
LEMMA OneIsLeft ==
  ASSUME PaymentsInv, Explained, Undisturbed,
         NEW refunded, refunded = {refund[r].payment : r \in Refunding!RefundIds}
  PROVE  Cardinality(Captured \ refunded) <= IF paid THEN 1 ELSE 0
  <1>1. \A h \in All : \A o : ~HasIt(h, o)
    BY DEF Undisturbed, AtRest, Free, HasIt
  <1>2. Captured \ refunded \subseteq Unexplained
    BY <1>1, Ids DEF Unexplained, RowsOf
  <1>3. \A o, u \in Captured \ refunded : paid /\ o = u
    BY <1>2 DEF Explained, Undisturbed
  <1>4. CASE Captured \ refunded = {}
    BY <1>4, FS_EmptySet
  <1>5. CASE Captured \ refunded # {}
    <2>1. PICK o : Captured \ refunded = {o}
      BY <1>3, <1>5
    <2>2. paid
      BY <1>3, <2>1
    <2>3. (IF paid THEN 1 ELSE 0) = 1
      BY <2>2, Zenon
    <2>4. Cardinality(Captured \ refunded) = 1
      BY <2>1, FS_Singleton
    <2> QED BY <2>3, <2>4
  <1> QED BY <1>4, <1>5

(* Where one process runs the sweep, as deployed, a booking that counts as *)
(* paid has a payment that is not refunded as late, whichever of the app's *)
(* reports, the webhooks and the closing come first.  And for a booking    *)
(* without credit, whenever no call is in progress and none was cut short, *)
(* every other payment has a refund: of any number of orders, however the  *)
(* booking closes and whatever goodwill is given (payments.service.ts,     *)
(* capture).                                                               *)
THEOREM PaymentsHavePurposes ==
  ASSUME NEW w, Workers = {w}
  PROVE  Spec => []EveryPaymentHasAPurpose
  <1> DEFINE CashOnlyBooking == Booking.credit = 0 /\ CashOf(Booking) > 0
             Inv == DepositStands /\ (CashOnlyBooking => Explained)
  <1>1. Init => Inv
    BY DepositStandsOn, NothingPaidYet
  <1>2. PaymentsInv /\ Inv /\ [Next]_vars => Inv'
    <2> SUFFICES ASSUME PaymentsInv, Inv, [Next]_vars PROVE Inv'
      OBVIOUS
    <2>1. DepositStands'
      BY DepositStandsOn
    <2>2. CashOnlyBooking => Explained'
      BY NextExplained DEF DepositStands
    <2> QED BY <2>1, <2>2
  <1>3. PaymentsInv /\ Inv => EveryPaymentHasAPurpose
    <2> SUFFICES ASSUME PaymentsInv, Inv,
                        NEW late, late = {refund[r].payment : r \in RefundsFor("LATE_PAYMENT")},
                        NEW refunded, refunded = {refund[r].payment : r \in Refunding!RefundIds}
                 PROVE  /\ paid => Captured \ late # {}
                        /\ Undisturbed /\ CashOnlyBooking =>
                             Cardinality(Captured \ refunded) <= IF paid THEN 1 ELSE 0
      BY DEF EveryPaymentHasAPurpose
    <2>1. ASSUME paid PROVE Captured \ late # {}
      <3>1. PICK o \in Orders : InTime(o)
        BY <2>1 DEF DepositStands, PaidFits, Off, DepositInv, PaidInTime
      <3>2. o \in Captured /\ o \notin late
        BY <3>1, Ids DEF InTime, LateRows, RefundsFor
      <3> QED BY <3>2
    <2>2. Undisturbed /\ CashOnlyBooking => Cardinality(Captured \ refunded) <= IF paid THEN 1 ELSE 0
      BY OneIsLeft
    <2> QED BY <2>1, <2>2
  <1> QED BY <1>1, <1>2, <1>3, PaymentsStayFit, PTL DEF Spec
=============================================================================

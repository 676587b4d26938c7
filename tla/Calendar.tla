------------------------------ MODULE Calendar ------------------------------
(***************************************************************************)
(* What the bookings of a listing promise about its days, and nothing      *)
(* else: a day has at most one holder, a holder takes a whole range of     *)
(* free days in one step, keeps exactly that range, and gives all of it    *)
(* back at once.  A day never passes from one holder to another without    *)
(* having been free.  Bookings.tla implements this (docs/ARCHITECTURE.md   *)
(* section 3.5: the double-booking guard).                                 *)
(***************************************************************************)
EXTENDS Integers

CONSTANTS
  Days,           \* a set of integers
  Holders,
  Nobody          \* no holder: not one of Holders

VARIABLE holder           \* day -> who holds it

DaysOf(h) == {d \in Days : holder[d] = h}

TypeOK == holder \in [Days -> Holders \cup {Nobody}]

Init == holder = [d \in Days |-> Nobody]

Take(h) ==
  /\ DaysOf(h) = {}
  /\ \E first, last \in Days :
       /\ first <= last
       /\ \A d \in Days : first <= d /\ d <= last => holder[d] = Nobody
       /\ holder' = [d \in Days |-> IF first <= d /\ d <= last THEN h ELSE holder[d]]

Release(h) ==
  /\ DaysOf(h) # {}
  /\ holder' = [d \in Days |-> IF holder[d] = h THEN Nobody ELSE holder[d]]

Next == \E h \in Holders : Take(h) \/ Release(h)

Spec == Init /\ [][Next]_holder

=============================================================================

------------------------------ MODULE MCDeals ------------------------------
(* Two offers of one chat for one day, or two people who want two days,    *)
(* one of them by an offer.                                                *)
EXTENDS Deals, TLC

CONSTANT Ana

Pair == 0..1

OneChat ==
  [people |-> {Ana}, chats |-> {Ana}, ranges |-> {<<0, 0>>}, offers |-> 2]

TwoPeople ==
  [people |-> Borrowers, chats |-> {Ana}, ranges |-> {<<0, 0>>}, offers |-> 1]

NoOffers ==
  [people |-> Borrowers, chats |-> {}, ranges |-> Ranges, offers |-> 0]

SmallScenes == {OneChat, TwoPeople, NoOffers}

Down == {FALSE}

DealSymmetry ==
  Permutations(Ids) \cup Permutations(Calls) \cup Permutations(Offers)
=============================================================================

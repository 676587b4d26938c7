---------------------------- MODULE MCDiscovery ----------------------------
(* The app writes twice; both write and something breaks; one writes and a *)
(* booking is paid; the lender answers a request, while the item may be    *)
(* taken away; or, with an empty chat, the lender's listings are reviewed, *)
(* searched for and photographed.                                          *)
EXTENDS Discovery, TLC

Talk(ns, b, p, a) == [notes |-> ns, breaks |-> b, pays |-> p, asks |-> a]

Silence == Talk({}, 0, FALSE, FALSE)

Answering == Talk({}, 1, TRUE, TRUE)

Asking == Talk({}, 0, FALSE, TRUE)

Conversations ==
  {Talk({"a", "b"}, 0, FALSE, FALSE), Talk({"a", "r"}, 1, FALSE, FALSE),
   Talk({"a"}, 0, TRUE, FALSE), Talk({"r"}, 1, TRUE, FALSE)}

SmallTalks == Conversations \cup {Silence, Answering, Asking}

Rest == [creates |-> {}, drafts |-> {}, rejected |-> {}, live |-> {}, adds |-> {},
         edits |-> 0, searches |-> {}, crashes |-> 0]

OneLive == [Rest EXCEPT !.live = {"l1"}]

Taken == [OneLive EXCEPT !.edits = 1]

Drafts == [Rest EXCEPT !.drafts = {"l1", "l2"}, !.edits = 2]

Again == [Rest EXCEPT !.rejected = {"l1"}, !.live = {"l2"}, !.edits = 2,
                      !.searches = Searches, !.crashes = 1]

Album == [Rest EXCEPT !.creates = {"l1"}, !.adds = Photos, !.edits = 2, !.crashes = 1]

SmallDesks == {Rest, OneLive, Taken, Drafts, Again, Album}

Pairs ==
  (Conversations \X {Rest}) \cup {<<Answering, OneLive>>, <<Asking, Taken>>}
  \cup ({Silence} \X {Drafts, Again, Album})

Owner == [s \in Searches |-> "ann"]

Symmetry == Permutations(Calls) \cup Permutations(Edits)

=============================================================================

---------------------------- MODULE MCCheckouts ----------------------------
(* A booking with a second checkout, from another page or device.          *)
EXTENDS MCPayments

(* The request that only checks out; one request does everything. *)
CONSTANT Second

OnlyChecksOut ==
  todo[Second] # <<>> => Head(todo[Second]).op \in {"createOrder", "insertPayment"}

(* With a second order nothing restarts, and a booking that was paid is    *)
(* followed until it completes or is cancelled.                            *)
BriefWithTwo ==
  Cardinality(checkouts.created) > 1 =>
    faults.crashes = 0 /\ status \notin {"COMPLETED", "CANCELLED"}

Shortened == OnlyChecksOut /\ BriefWithTwo

OrderSymmetry == Permutations(Orders)

=============================================================================

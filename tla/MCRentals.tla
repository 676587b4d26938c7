------------------------------ MODULE MCRentals ------------------------------
(* A one-day rental: the documents shared and the vault they come from;    *)
(* the handover and the return, each with more photos; a claim against the *)
(* return and against its absence, with its answer; the reviews after it.  *)
EXTENDS Rentals

Scenes ==
  {{"submitDocs", "deleteDoc"}, {"upload", "deleteDoc"}, {"handOver", "moreHandover"},
   {"markReturned", "moreReturn"}, {"markReturned", "openDispute"}, {"openDispute", "respond"},
   {"markReturned", "review"}}
=============================================================================

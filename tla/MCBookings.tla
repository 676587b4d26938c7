----------------------------- MODULE MCBookings -----------------------------
(* A listing with two rental days and ticks of twelve hours: the Indian    *)
(* day starts one tick before the UTC one.                                 *)
EXTENDS Bookings

SecondDay == {1}

UpOrDown == BOOLEAN

=============================================================================

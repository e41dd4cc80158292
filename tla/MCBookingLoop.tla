--------------------------- MODULE MCBookingLoop ---------------------------
(* Every table of 4 to 6 slots in a window of 4, every request. *)
EXTENDS BookingLoop

CONSTANTS own, oth
=============================================================================

------------------------ MODULE MCReservationClosing ------------------------
(***************************************************************************)
(* A few calls about one reservation.                                      *)
(***************************************************************************)
EXTENDS ReservationClosing, TLC

Symmetry == Permutations(Calls)
=============================================================================

---------------------------- MODULE MCReservation ----------------------------
(***************************************************************************)
(* Two tasks that execute any memory instructions on two words of memory.   *)
(***************************************************************************)
EXTENDS Reservation

CONSTANTS t1, t2

MCTask == {t1, t2}

=============================================================================

--------------------------- MODULE MCReservations ---------------------------
(* A small instance of Reservations. *)
EXTENDS Reservations

CONSTANTS k1, k2

MCTexts == {<<k1, k2>>, <<k1, Unknown>>}
=============================================================================

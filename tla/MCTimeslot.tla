----------------------------- MODULE MCTimeslot -----------------------------
(* Timeslot with four objects, so that elements have neighbours on both   *)
(* sides, and with times that tie, precede and follow each other.          *)
EXTENDS Timeslot
=============================================================================

-------------------------- MODULE MCScheduleTable --------------------------
(* ScheduleTable with four keys, so that an element can be inserted and    *)
(* dropped between two others, and with times that tie.                    *)
EXTENDS ScheduleTable
=============================================================================

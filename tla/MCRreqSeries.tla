---------------------------- MODULE MCRreqSeries ----------------------------
(* RreqSeries on three threads (a receive thread, the TUN thread and the   *)
(* periodic thread), two destinations and two heap addresses, so that an   *)
(* address is reused while other threads may still hold it.                *)
EXTENDS RreqSeries
=============================================================================

----------------------------- MODULE MCDataPath -----------------------------
(* DataPath with the TUN thread and two receive threads on either side,    *)
(* which may flush the same buffer, and take packets of the same source.   *)
EXTENDS DataPath
=============================================================================

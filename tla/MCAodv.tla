------------------------------- MODULE MCAodv -------------------------------
(* Aodv on small networks. *)
EXTENDS Aodv, TLC

CONSTANTS a, b, c, d

Triangle == {{a, b}, {b, c}, {a, c}}
Line     == {{a, b}, {b, c}}
AtoC     == {<<a, c>>}
AtoD     == {<<a, d>>}
=============================================================================

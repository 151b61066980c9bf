------------------------------ MODULE MCHello ------------------------------
(* a and b may be neighbours; c, which hears nobody, makes b send answers  *)
(* that a overhears.  Each link is there from the start or not.            *)
EXTENDS Hello

CONSTANTS a, b, c

MCNode == {a, b, c}
MCLink == {<<a, b>>, <<b, a>>, <<c, b>>}
=============================================================================

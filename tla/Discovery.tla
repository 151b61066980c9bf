----------------------------- MODULE Discovery -----------------------------
(***************************************************************************)
(* What the rest of the daemon may expect of route discovery: at most one  *)
(* discovery of a destination runs at a time, and each one ends.  The RREQ *)
(* series of RreqSeries implement it, DataPath builds on it.               *)
(***************************************************************************)
CONSTANTS Key, Id   \* destinations, names of discoveries

VARIABLE discoveries   \* the pairs <<destination, name>> that run

Running(k) == \E i \in Id : <<k, i>> \in discoveries

Init == discoveries = {}

(* A discovery starts when none of its destination runs. *)
Start(k, i) ==
    /\ ~Running(k)
    /\ discoveries' = discoveries \cup {<<k, i>>}

(* A discovery ends: it found a route or gave up. *)
End(k, i) ==
    /\ <<k, i>> \in discoveries
    /\ discoveries' = discoveries \ {<<k, i>>}

Next == \E k \in Key, i \in Id : Start(k, i) \/ End(k, i)

Spec == Init /\ [][Next]_discoveries

(* Every discovery ends. *)
FairSpec == Spec /\ \A k \in Key, i \in Id : WF_discoveries(End(k, i))
=============================================================================

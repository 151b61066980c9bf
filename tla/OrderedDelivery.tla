-------------------------- MODULE OrderedDelivery --------------------------
(***************************************************************************)
(* What the hosts may rely on when they send packets through the mesh.  A  *)
(* packet may get lost.  A destination takes packets in the order in which *)
(* they were numbered, and so none of them twice, as long as it remembers  *)
(* the source.  What it has taken is handed to the host by several hands,  *)
(* in any order: as many packets can be out of place as there are hands.   *)
(* How packets wait for routes, who sends them, and what copies the        *)
(* network makes is not told.                                              *)
(***************************************************************************)
EXTENDS Integers

CONSTANTS
    Dest,       \* hosts
    Broadcast,  \* address of all of them
    Hand,       \* those that hand packets to a host
    Packet,     \* packets of the host that sends
    NoPacket,
    Number      \* numbers, in their order

VARIABLES
    numbered,  \* the messages that are on their way: who for, packet, number
    taken,     \* Dest -> the packets it took since it knows the source
    holds,     \* Dest -> Hand -> the packet that it will hand to the host
    got,       \* Dest -> the packets that its host got
    again,     \* Dest -> the packets that its host got again
    forgot     \* Dest -> the packets it took before it forgot the source

vars == <<numbered, taken, holds, got, again, forgot>>

Init ==
    /\ numbered = {}
    /\ holds = [r \in Dest |-> [x \in Hand |-> NoPacket]]
    /\ taken = [r \in Dest |-> {}] /\ forgot = [r \in Dest |-> {}]
    /\ got = [r \in Dest |-> {}] /\ again = [r \in Dest |-> {}]

(* The packet k gets a number that is greater than all before, once. *)
Enter(to, k, n) ==
    /\ \A m \in numbered : m.packet # k /\ m.num < n
    /\ numbered' = numbered \cup {[to |-> to, packet |-> k, num |-> n]}
    /\ UNCHANGED <<taken, holds, got, again, forgot>>

(* A packet for r is taken, after all those that r remembers to have taken. *)
Take(r, x, m) ==
    /\ m.to \in {r, Broadcast}
    /\ holds[r][x] = NoPacket
    /\ \A o \in numbered : o.packet \in taken[r] => o.num < m.num
    /\ holds' = [holds EXCEPT ![r][x] = m.packet]
    /\ taken' = [taken EXCEPT ![r] = @ \cup {m.packet}]
    /\ UNCHANGED <<numbered, got, again, forgot>>

(* It gets to the host. *)
Deliver(r, x) ==
    LET k == holds[r][x]
    IN  /\ k # NoPacket
        /\ holds' = [holds EXCEPT ![r][x] = NoPacket]
        /\ got' = [got EXCEPT ![r] = @ \cup {k}]
        /\ again' = IF k \in got[r] THEN [again EXCEPT ![r] = @ \cup {k}] ELSE again
        /\ UNCHANGED <<numbered, taken, forgot>>

(* The source was silent for so long that r forgets it. *)
Forget(r) ==
    /\ forgot' = [forgot EXCEPT ![r] = @ \cup taken[r]]
    /\ taken' = [taken EXCEPT ![r] = {}]
    /\ UNCHANGED <<numbered, holds, got, again>>

Next ==
    \/ \E to \in Dest \cup {Broadcast}, k \in Packet, n \in Number : Enter(to, k, n)
    \/ \E r \in Dest, x \in Hand : Deliver(r, x) \/ \E m \in numbered : Take(r, x, m)
    \/ \E r \in Dest : Forget(r)

Spec == Init /\ [][Next]_vars
=============================================================================

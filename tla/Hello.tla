------------------------------- MODULE Hello -------------------------------
(***************************************************************************)
(* How nodes find their bidirectional neighbours: every hello interval a   *)
(* node broadcasts a hello, whoever hears it answers, and an answer makes  *)
(* its sender a neighbour until too many answers in a row are missing      *)
(* (aodv_periodic_send_hello, aodv_handle_hello, nt.c).  RREQs and RREPs   *)
(* from others than neighbours are dropped.                                *)
(*                                                                         *)
(* Links have a direction.  A node hears all frames of those it has a link *)
(* from, also those for other nodes.  Time passes in rounds of one hello   *)
(* interval; a frame arrives, or is lost, in the round it was sent in.     *)
(* Every node has one interface.  What the hellos tell the PDR tracker is  *)
(* left out.                                                               *)
(***************************************************************************)
EXTENDS Naturals, FiniteSets

CONSTANTS
    Node, All,           \* All: the broadcast address
    Link,                \* the pairs <<m, n>> such that n may hear m
    ALLOWED_HELLO_LOST,  \* config.h
    MaxFaults            \* bound: links that break and tables that are reset

ASSUME HelloAssumption ==
    /\ All \notin Node
    /\ Link \subseteq {l \in Node \X Node : l[1] # l[2]}
    /\ ALLOWED_HELLO_LOST \in Nat
    /\ MaxFaults \in Nat

(* The lifetime of a neighbour, in hello intervals (db_nt_init). *)
Timeout == ALLOWED_HELLO_LOST + 1

VARIABLES
    links,     \* the links that work
    broken,    \* those that did
    neigh,     \* Node -> its neighbour table
    age,       \* Node -> Node -> rounds since the last answer
    rerr_due,  \* Node -> the neighbours with a SEND_OUT_RERR schedule
    msgs,      \* frames on the air
    sent,      \* the nodes that sent their hello of this round
    missed,    \* Node -> Node -> rounds in a row without an answer
    reset      \* the nodes whose table was reset

vars == <<links, broken, neigh, age, rerr_due, msgs, sent, missed, reset>>

Ttl   == 1..2
Frame == [from : Node, dhost : Node \cup {All}, at : Node, ttl : Ttl]

(* What dessert_meshsend puts on the air: a frame for all that hear n. *)
Frames(n, dhost, ttl) ==
    {[from |-> n, dhost |-> dhost, at |-> x, ttl |-> ttl] :
        x \in {y \in Node : <<n, y>> \in links}}

Init ==
    /\ links \in SUBSET Link
    /\ broken = {}
    /\ neigh = [n \in Node |-> {}]
    /\ age = [n \in Node |-> [m \in Node |-> 0]]
    /\ rerr_due = [n \in Node |-> {}]
    /\ msgs = {}
    /\ sent = {}
    /\ missed = [n \in Node |-> [m \in Node |-> 0]]
    /\ reset = {}

-----------------------------------------------------------------------------
(* aodv_periodic_send_hello *)
SendHello(n) ==
    /\ n \notin sent
    /\ sent' = sent \cup {n}
    /\ msgs' = msgs \cup Frames(n, All, 2)
    /\ UNCHANGED <<links, broken, neigh, age, rerr_due, missed, reset>>

(* Mutants of IsForMe and Refreshed. *)
Overheard(f) == f.ttl = 1
NotAgain(f)  == IF f.from \in neigh[f.at] THEN age
                ELSE [age EXCEPT ![f.at][f.from] = 0]

(* aodv_handle_hello: a hello that still lives is answered. *)
IsRequest(f) == f.ttl - 1 >= 1

AnswerHello(f) ==
    /\ f \in msgs
    /\ IsRequest(f)
    /\ msgs' = (msgs \ {f}) \cup Frames(f.at, f.from, f.ttl - 1)
    /\ UNCHANGED <<links, broken, neigh, age, rerr_due, sent, missed, reset>>

(* An answer counts if it is addressed to this interface. *)
IsForMe(f) == f.dhost = f.at

(* db_nt_cap2Dneigh: the entry lives for another Timeout. *)
Refreshed(f) == [age EXCEPT ![f.at][f.from] = 0]

TakeAnswer(f) ==
    /\ f \in msgs
    /\ ~IsRequest(f)
    /\ msgs' = msgs \ {f}
    /\ IF IsForMe(f)
         THEN /\ neigh' = [neigh EXCEPT ![f.at] = @ \cup {f.from}]
              /\ age' = Refreshed(f)
              /\ missed' = [missed EXCEPT ![f.at][f.from] = 0]
         ELSE UNCHANGED <<neigh, age, missed>>
    /\ UNCHANGED <<links, broken, rerr_due, sent, reset>>

(* A frame is lost. *)
LoseFrame(f) ==
    /\ f \in msgs
    /\ msgs' = msgs \ {f}
    /\ UNCHANGED <<links, broken, neigh, age, rerr_due, sent, missed, reset>>

(* db_nt_check2Dneigh: frames of m pass aodv_drop_errors.  The purge that   *)
(* it begins with is NeighbourTimeout.                                      *)
IsNeighbour(n, m) == m \in neigh[n]

(* Mutants of IsOld: an entry lives one interval less, or more. *)
OldTooSoon(n, m) == age[n][m] + 1 >= Timeout
OldTooLate(n, m) == age[n][m] > Timeout

(* The entry of m is due in the timeslot. *)
IsOld(n, m) == age[n][m] >= Timeout

(* db_nt_on_neigbor_timeout, whenever the timeslot is purged. *)
NeighbourTimeout(n, m) ==
    /\ m \in neigh[n]
    /\ IsOld(n, m)
    /\ neigh' = [neigh EXCEPT ![n] = @ \ {m}]
    /\ age' = [age EXCEPT ![n][m] = 0]
    /\ rerr_due' = [rerr_due EXCEPT ![n] = @ \cup {m}]
    /\ UNCHANGED <<links, broken, msgs, sent, missed, reset>>

(* aodv_periodic_scexecute takes the schedule. *)
SendRerr(n, m) ==
    /\ m \in rerr_due[n]
    /\ rerr_due' = [rerr_due EXCEPT ![n] = @ \ {m}]
    /\ UNCHANGED <<links, broken, neigh, age, msgs, sent, missed, reset>>

Faults == Cardinality(broken) + Cardinality(reset)

(* aodv_db_nt_neighbor_reset, from the command line: no RERR is scheduled. *)
ResetTable(n) ==
    /\ Faults < MaxFaults   \* bound
    /\ reset' = reset \cup {n}
    /\ neigh' = [neigh EXCEPT ![n] = {}]
    /\ age' = [age EXCEPT ![n] = [m \in Node |-> 0]]
    /\ UNCHANGED <<links, broken, rerr_due, msgs, sent, missed>>

BreakLink(l) ==
    /\ Faults < MaxFaults   \* bound
    /\ l \in links
    /\ links' = links \ {l}
    /\ broken' = broken \cup {l}
    /\ UNCHANGED <<neigh, age, rerr_due, msgs, sent, missed, reset>>

(* The next hello interval.  aodv_periodic_cleanup_database runs more often *)
(* than that (DB_CLEANUP_INTERVAL), so that no entry is overdue by then.    *)
Tick ==
    /\ sent = Node
    /\ msgs = {}
    /\ \A n \in Node : \A m \in neigh[n] : ~IsOld(n, m)
    /\ age' = [n \in Node |-> [m \in Node |->
                  IF m \in neigh[n] THEN age[n][m] + 1 ELSE 0]]
    /\ missed' = [n \in Node |-> [m \in Node |->
                     IF missed[n][m] < Timeout THEN missed[n][m] + 1
                                               ELSE Timeout]]
    /\ sent' = {}
    /\ UNCHANGED <<links, broken, neigh, rerr_due, msgs, reset>>

Deliver(f) == AnswerHello(f) \/ TakeAnswer(f)

Next ==
    \/ \E n \in Node : SendHello(n) \/ ResetTable(n)
    \/ \E f \in msgs : Deliver(f) \/ LoseFrame(f)
    \/ \E n, m \in Node : NeighbourTimeout(n, m) \/ SendRerr(n, m)
    \/ \E l \in links : BreakLink(l)
    \/ Tick

Spec == Init /\ [][Next]_vars

(* Time passes, the periodic thread runs, and the frames of a round do not *)
(* stay on the air.  No frame need ever arrive.                            *)
FairSpec ==
    /\ Spec
    /\ WF_vars(Tick)
    /\ WF_vars(\E n \in Node : SendHello(n))
    /\ WF_vars(\E f \in msgs : Deliver(f) \/ LoseFrame(f))
    /\ WF_vars(\E n, m \in Node : NeighbourTimeout(n, m))

-----------------------------------------------------------------------------
TypeOK ==
    /\ links \subseteq Link /\ broken \subseteq Link
    /\ neigh \in [Node -> SUBSET Node]
    /\ age \in [Node -> [Node -> 0..Timeout]]
    /\ rerr_due \in [Node -> SUBSET Node]
    /\ msgs \subseteq Frame
    /\ sent \subseteq Node /\ reset \subseteq Node
    /\ missed \in [Node -> [Node -> 0..Timeout]]

(* A neighbour is one that hears us and that we hear: what a node overhears *)
(* of others' hellos never makes it accept RREQs and RREPs over a link that *)
(* has only one direction (aodv_drop_errors).                               *)
NeighboursAreBidirectional ==
    \A n \in Node : \A m \in neigh[n] :
        {<<n, m>>, <<m, n>>} \subseteq links \cup broken

(* A neighbour times out only when ALLOWED_HELLO_LOST whole intervals went  *)
(* by without an answer of its, whatever happened to the table meanwhile.   *)
DroppedOnlyAfterLosses ==
    [][\A n, m \in Node :
          m \in rerr_due'[n] /\ m \notin rerr_due[n] =>
              missed[n][m] > ALLOWED_HELLO_LOST]_vars

(* If one direction of the link to a neighbour breaks, a SEND_OUT_RERR is   *)
(* scheduled in the end, though the neighbour may still be heard answering  *)
(* others.  Only a reset of the table forgets it.                           *)
BrokenIsReported ==
    \A n, m \in Node :
        (IsNeighbour(n, m) /\ {<<n, m>>, <<m, n>>} \cap broken # {})
            ~> (m \in rerr_due[n] \/ n \in reset)
=============================================================================

----------------------------- MODULE RoutingOps -----------------------------
(***************************************************************************)
(* What the functions of aodv_rt.c do to the routing table and the next    *)
(* hop table of one node, as operators on their values.                    *)
(*                                                                         *)
(* A routing table rt maps every address to an entry; the entry of an      *)
(* address that is not in the hash table is Absent.  The next hop table    *)
(* nht (next hop -> destination list) is the set of its <<hop, dest>>      *)
(* pairs.  A pair holds a pointer to the entry of dest; dangling is the    *)
(* set of the pairs whose entry has been freed.                            *)
(*                                                                         *)
(* Left out: the hop count, which no decision reads, the output interface  *)
(* (one interface for a node), the precursor lists, which nothing reads,   *)
(* and the flags WARN and LOCAL_USED, which NodeRoutes has apart.          *)
(***************************************************************************)
EXTENDS SeqNum

CONSTANTS Node, NoNode

ASSUME NoNodeAssumption == NoNode \notin Node

(* known is the complement of AODV_FLAGS_NEXT_HOP_UNKNOWN, valid that of   *)
(* AODV_FLAGS_ROUTE_INVALID.                                               *)
Entry == [exists : BOOLEAN, known : BOOLEAN, valid : BOOLEAN,
          next : Node \cup {NoNode}, seq : SeqNo, metric : Metric]

Absent == [exists |-> FALSE, known |-> FALSE, valid |-> FALSE,
           next |-> NoNode, seq |-> 0, metric |-> MaxMetric]

(* rt_entry_create *)
NewEntry == [exists |-> TRUE, known |-> FALSE, valid |-> FALSE,
             next |-> NoNode, seq |-> 0, metric |-> MaxMetric]

Lookup(rt, d) == IF rt[d].exists THEN rt[d] ELSE NewEntry

-----------------------------------------------------------------------------
(* Mutants of the definitions below. *)
AnyOtherIsNew(rt, orig, seq, metric) ==
    IF rt[orig].seq = seq /\ metric >= rt[orig].metric THEN "OLD" ELSE "NEW"
BumpOnBreak(e) == [exists |-> e.exists, known |-> e.known, valid |-> FALSE,
                   next |-> e.next, seq |-> SeqSucc(e.seq), metric |-> e.metric]
UsedIfOlder(rt, dest, seq) == ~(rt[dest].known /\ hf_comp_u32(seq, rt[dest].seq) > 0)
KeepsOldPair(rt, nht, dest, hop) == nht \cup {<<hop, dest>>}
KeepsDangling(rt, dangling, dest, hop) == dangling
InvalidateOne(rt, D) ==
    [d \in Node |-> IF D # {} /\ d = CHOOSE x \in D : TRUE
                    THEN [rt[d] EXCEPT !.valid = FALSE] ELSE rt[d]]

(* What aodv_db_rt_capt_rreq makes of a RREQ of orig. *)
CaptResult(rt, orig, seq, metric) ==
    LET e   == Lookup(rt, orig)
        cmp == hf_comp_u32(e.seq, seq)
    IN  IF cmp = 0 /\ hf_comp_metric(e.metric, metric) < 0 THEN "METRIC_HIT"
        ELSE IF cmp < 0 THEN "NEW" ELSE "OLD"

(* aodv_db_rt_capt_rreq.  The flags stay as they are, and so does nht. *)
CaptRreq(rt, dest, orig, prev, seq, metric) ==
    [d \in Node |->
        IF d = orig /\ CaptResult(rt, orig, seq, metric) # "OLD"
          THEN [exists |-> TRUE, known |-> rt[d].known, valid |-> rt[d].valid,
                next |-> prev, seq |-> seq, metric |-> metric]
        ELSE IF d \in {orig, dest} THEN Lookup(rt, d)
        ELSE rt[d]]

(* The return value of aodv_db_rt_capt_rrep: is the RREP used? *)
CaptUsed(rt, dest, seq) ==
    ~(rt[dest].known /\ hf_comp_u32(rt[dest].seq, seq) > 0)

(* aodv_db_rt_capt_rrep, when it uses the RREP. *)
CaptRrep(rt, dest, hop, seq, metric) ==
    [rt EXCEPT ![dest] = [exists |-> TRUE, known |-> TRUE, valid |-> TRUE,
                          next |-> hop, seq |-> seq, metric |-> metric]]

(* The pair of nht that belongs to the entry of dest, by its next hop. *)
OwnPair(rt, dest) == IF rt[dest].known THEN {<<rt[dest].next, dest>>} ELSE {}

(* The destination moves in nht from its old next hop to the new one. *)
RrepNht(rt, nht, dest, hop) == (nht \ OwnPair(rt, dest)) \cup {<<hop, dest>>}

RrepDangling(rt, dangling, dest, hop) ==
    dangling \ (OwnPair(rt, dest) \cup {<<hop, dest>>})

-----------------------------------------------------------------------------
(* aodv_db_rt_getroute2dest finds a route. *)
HasRoute(rt, d) == rt[d].known /\ rt[d].valid

(* aodv_db_rt_markrouteinv returns true. *)
MarkedInvalid(rt, d, seq) == rt[d].exists /\ ~(hf_comp_u32(rt[d].seq, seq) > 0)

Invalidate(e) == [exists |-> e.exists, known |-> e.known, valid |-> FALSE,
                  next |-> e.next, seq |-> e.seq, metric |-> e.metric]

(* The destinations of D are marked invalid. *)
InvalidateAll(rt, D) ==
    [d \in Node |-> IF d \in D THEN Invalidate(rt[d]) ELSE rt[d]]

(* The destination list of a next hop, without the dangling pointers. *)
DestsOver(nht, dangling, hop) == {d \in Node : <<hop, d>> \in nht \ dangling}

(* purge_rt_entry: the entry of d is freed. *)
PurgeEntry(rt, d) == [rt EXCEPT ![d] = Absent]

PurgeNht(rt, nht, d) == nht \ OwnPair(rt, d)

PurgeDangling(rt, nht, dangling, d) ==
    (dangling \ OwnPair(rt, d)) \cup {p \in PurgeNht(rt, nht, d) : p[2] = d}
=============================================================================

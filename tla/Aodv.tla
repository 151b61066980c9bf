-------------------------------- MODULE Aodv --------------------------------
(***************************************************************************)
(* A network of des-aodv nodes: route discovery by flooding RREQs, the     *)
(* RREPs that come back, link breaks and the RERRs they cause, expiry of   *)
(* routes and restarts of nodes.                                           *)
(*                                                                         *)
(* One step is one pipeline callback or one periodic task of one node.     *)
(* Frames in flight are a set with one element for every receiver.  They   *)
(* arrive in any order; one that is lost just never arrives.  A node has   *)
(* one mesh interface, and one address stands for both.  Time is abstract: *)
(* a timeout may strike at any moment.                                     *)
(***************************************************************************)
EXTENDS RoutingOps, FiniteSets

CONSTANTS
    Link,         \* the links of the network at the start: pairs {m, n}
    Flow,         \* the pairs <<o, d>> such that o has packets for d
    MetricStep,   \* what aodv_metric_do adds: 0 for RFC, 1 for HOP_COUNT
    dest_only,    \* only the destination answers a RREQ
    RreqTtl,      \* the values of the TTL a RREQ starts with
    MAX_MAC_SEQ_PER_EXT, \* destinations that an extension of a RERR holds
    MaxSeqNum,    \* bound: sequence numbers a node uses
    MaxFaults     \* bound: links that break, nodes that restart and routes
                  \* that expire, together

ASSUME NetworkAssumption ==
    /\ Link \subseteq SUBSET Node
    /\ Flow \subseteq Node \X Node
    /\ MetricStep \in {0, 1}
    /\ dest_only \in BOOLEAN
    /\ RreqTtl \subseteq Nat
    /\ MAX_MAC_SEQ_PER_EXT \in Nat \ {0}
    /\ MaxSeqNum \in Nat
    /\ MaxSeqNum < HalfSeq   \* no node's number comes round: the code has 2^32 of
                             \* them, and older and newer is undecided at the half
    /\ MaxFaults \in Nat

VARIABLES
    rt, nht, dangling,  \* Node -> its tables, see RoutingOps
    seq_num,            \* Node -> seq_num_global
    series,             \* Node -> Node -> the RREQ it repeats, or NoSeries
    neigh,              \* Node -> its bidirectional neighbours (hello)
    rerr_due,           \* Node -> neighbours with a SEND_OUT_RERR schedule
    links,              \* the links that work
    msgs,               \* frames in flight
    breaks, restarts, expiries  \* faults so far

faults == breaks + restarts + expiries
tables == <<rt, nht, dangling>>
counts == <<breaks, restarts, expiries>>
vars   == <<rt, nht, dangling, seq_num, series, neigh, rerr_due, links, msgs,
            breaks, restarts, expiries>>

NoSeries == [active |-> FALSE, unknown |-> TRUE, dseq |-> 0]
Series   == [active : BOOLEAN, unknown : BOOLEAN, dseq : SeqNo]

Rreq == [type : {"RREQ"}, to : Node, from : Node, orig : Node, dest : Node,
         seq : SeqNo, unknown : BOOLEAN, dseq : SeqNo, ttl : Nat, metric : Metric]
Rrep == [type : {"RREP"}, to : Node, from : Node, orig : Node, dest : Node,
         seq : SeqNo, metric : Metric]
Rerr == [type : {"RERR"}, to : Node, from : Node, orig : Node,
         lost : SUBSET (Node \X SeqNo)]

Neighbours(n) == {m \in Node : m # n /\ {m, n} \in links}

(* aodv_metric_do for the metrics RFC and HOP_COUNT, on a uint16_t. *)
MetricDo(metric) ==
    IF MetricStep = 0 THEN metric ELSE IF metric = MaxMetric THEN 0 ELSE metric + 1

(* The frames that dessert_meshsend puts on the air: one for each neighbour *)
(* that can hear n, or for the neighbour `to` if it can.                    *)
RreqFrames(n, orig, dest, seq, unknown, dseq, ttl, metric) ==
    {[type |-> "RREQ", to |-> x, from |-> n, orig |-> orig, dest |-> dest,
      seq |-> seq, unknown |-> unknown, dseq |-> dseq, ttl |-> ttl,
      metric |-> metric] : x \in Neighbours(n)}

RrepFrames(n, to, orig, dest, seq, metric) ==
    {[type |-> "RREP", to |-> x, from |-> n, orig |-> orig, dest |-> dest,
      seq |-> seq, metric |-> metric] : x \in Neighbours(n) \cap {to}}

RerrFrames(n, orig, lost) ==
    {[type |-> "RERR", to |-> x, from |-> n, orig |-> orig, lost |-> lost] :
        x \in Neighbours(n)}

(* The destinations of each RERR that goes out for a list: aodv_create_rerr *)
(* is called until the list is empty.  It fills extensions of an RERR, but  *)
(* counts up to one destination more than an extension holds.  What         *)
(* libdessert makes of a long list is therefore open: it is split in any    *)
(* way, or refused, which sends RERRs without destinations.                 *)
RerrLists(lost) ==
    IF lost = {} THEN {{}}
    ELSE IF Cardinality(lost) <= MAX_MAC_SEQ_PER_EXT THEN {{lost}}
    ELSE SUBSET SUBSET lost

Init ==
    /\ rt = [n \in Node |-> [d \in Node |-> Absent]]
    /\ nht = [n \in Node |-> {}]
    /\ dangling = [n \in Node |-> {}]
    /\ seq_num = [n \in Node |-> 0]
    /\ series = [n \in Node |-> [d \in Node |-> NoSeries]]
    /\ links = Link
    /\ neigh = [n \in Node |-> {m \in Node : m # n /\ {m, n} \in Link}]
    /\ rerr_due = [n \in Node |-> {}]
    /\ msgs = {}
    /\ breaks = 0 /\ restarts = 0 /\ expiries = 0

-----------------------------------------------------------------------------
(* aodv_send_rreq_real with the sequence number drawn for it.  The message *)
(* is that of the series: its view of the destination is the one at the    *)
(* time the series started.                                                *)
SendRreq(o, d, s) ==
    /\ seq_num[o] < MaxSeqNum
    /\ seq_num' = [seq_num EXCEPT ![o] = SeqSucc(@)]
    /\ \E ttl \in RreqTtl :
         msgs' = msgs \cup
            RreqFrames(o, o, d, SeqSucc(seq_num[o]), s.unknown, s.dseq, ttl, 0)
    /\ UNCHANGED <<tables, neigh, rerr_due, links, counts>>

(* The same, when RREQ_RATELIMIT is reached: the series is rescheduled.    *)
PostponeRreq == UNCHANGED <<tables, seq_num, neigh, rerr_due, links, msgs, counts>>

(* aodv_sys2rp finds no route to d: aodv_send_rreq starts a series, unless *)
(* one is running.  _create_rreq asks the table for the last known         *)
(* sequence number of d.                                                   *)
StartDiscovery(o, d) ==
    LET s == [active |-> TRUE, unknown |-> ~rt[o][d].known,
              dseq |-> IF rt[o][d].known THEN rt[o][d].seq ELSE 0]
    IN  /\ <<o, d>> \in Flow
        /\ ~HasRoute(rt[o], d)
        /\ ~series[o][d].active
        /\ series' = [series EXCEPT ![o][d] = s]
        /\ SendRreq(o, d, s) \/ PostponeRreq

(* aodv_send_rreq_repeat *)
RepeatRreq(o, d) ==
    /\ series[o][d].active
    /\ SendRreq(o, d, series[o][d])
    /\ UNCHANGED series

(* The series gives up. *)
GiveUp(o, d) ==
    /\ series[o][d].active
    /\ series' = [series EXCEPT ![o][d] = NoSeries]
    /\ UNCHANGED <<tables, seq_num, neigh, rerr_due, links, msgs, counts>>

(* aodv_drop_errors: a node ignores frames that it created, and RREQs and  *)
(* RREPs from a neighbour that is not known to be bidirectional.           *)
DropUnidirectional(m) == m.type \in {"RREQ", "RREP"} /\ m.from \notin neigh[m.to]

Dropped(m) ==
    \/ m.type = "RREP" /\ m.dest = m.to
    \/ m.type # "RREP" /\ m.orig = m.to
    \/ DropUnidirectional(m)

(* aodv_handle_rreq: the reply of the destination.  Its number grows on a  *)
(* metric hit, and is at least the one the originator asked for.           *)
(* Mutants of OwnSeq *)
KeepSeq(m, result)    == seq_num[m.to]
AlwaysBump(m, result) == SeqSucc(seq_num[m.to])

OwnSeq(m, result) ==
    IF result = "METRIC_HIT" THEN SeqSucc(seq_num[m.to]) ELSE seq_num[m.to]

ReplySeq(m, result) ==
    LET own == OwnSeq(m, result)
    IN  IF ~m.unknown /\ hf_comp_u32(m.dseq, own) > 0 THEN m.dseq ELSE own

(* aodv_handle_rreq: a node that knows a sequence number of the            *)
(* destination, not older than the one asked for, answers in its place.    *)
RepairBlindly(m, e) == ~dest_only   \* mutant

LocalRepair(m, e) ==
    /\ ~dest_only
    /\ e.known
    /\ m.unknown \/ ~(hf_comp_u32(m.dseq, e.seq) > 0)

(* What the node sends after it has processed the RREQ; e is its entry of  *)
(* the destination, metric that of the path to the originator.             *)
RreqOutput(m, e, metric, reply) ==
    LET n   == m.to
        ttl == IF m.ttl > 0 THEN m.ttl - 1 ELSE 0
    IN  IF m.dest = n THEN RrepFrames(n, m.from, m.orig, n, reply, 0)
        ELSE IF LocalRepair(m, e) THEN RrepFrames(n, m.from, m.orig, m.dest, e.seq, e.metric)
        ELSE IF ttl = 0 THEN {}
        ELSE RreqFrames(n, m.orig, m.dest, m.seq, m.unknown, m.dseq, ttl, metric)

(* aodv_handle_rreq.  A RREQ that is not old also counts as a RREP for its *)
(* originator with sequence number 0, and then ends a discovery of it.     *)
HandleRreq(m) ==
    LET n      == m.to
        metric == MetricDo(m.metric)
        result == CaptResult(rt[n], m.orig, m.seq, metric)
        rt1    == CaptRreq(rt[n], m.dest, m.orig, m.from, m.seq, metric)
        used   == result # "OLD" /\ CaptUsed(rt1, m.orig, 0)
        rt2    == IF used THEN CaptRrep(rt1, m.orig, m.from, 0, metric) ELSE rt1
        reply  == ReplySeq(m, result)
        out    == IF result = "OLD" THEN {} ELSE RreqOutput(m, rt2[m.dest], metric, reply)
    IN  /\ m.type = "RREQ"
        /\ m.dest = n /\ result = "METRIC_HIT" => seq_num[n] < MaxSeqNum   \* bound
        /\ rt' = [rt EXCEPT ![n] = rt2]
        /\ nht' = [nht EXCEPT ![n] =
                IF used THEN RrepNht(rt1, @, m.orig, m.from) ELSE @]
        /\ dangling' = [dangling EXCEPT ![n] =
                IF used THEN RrepDangling(rt1, @, m.orig, m.from) ELSE @]
        /\ series' = [series EXCEPT ![n][m.orig] = IF used THEN NoSeries ELSE @]
        /\ seq_num' = [seq_num EXCEPT ![n] =
                IF m.dest = n /\ result # "OLD" THEN reply ELSE @]
        /\ msgs' = (msgs \ {m}) \cup out
        /\ UNCHANGED <<neigh, rerr_due, links, counts>>

(* aodv_handle_rrep: a RREP that is used goes on along the reverse route,  *)
(* or, at its addressee, ends the discovery.                               *)
HandleRrep(m) ==
    LET n      == m.to
        metric == MetricDo(m.metric)
        used   == CaptUsed(rt[n], m.dest, m.seq)
        rt1    == CaptRrep(rt[n], m.dest, m.from, m.seq, metric)
        out    == IF m.orig # n /\ HasRoute(rt1, m.orig)
                    THEN RrepFrames(n, rt1[m.orig].next, m.orig, m.dest, m.seq, metric)
                    ELSE {}
    IN  /\ m.type = "RREP"
        /\ IF used
             THEN /\ rt' = [rt EXCEPT ![n] = rt1]
                  /\ nht' = [nht EXCEPT ![n] = RrepNht(rt[n], @, m.dest, m.from)]
                  /\ dangling' = [dangling EXCEPT ![n] = RrepDangling(rt[n], @, m.dest, m.from)]
                  /\ series' = [series EXCEPT ![n][m.dest] = IF m.orig = n THEN NoSeries ELSE @]
                  /\ msgs' = (msgs \ {m}) \cup out
             ELSE /\ msgs' = msgs \ {m}
                  /\ UNCHANGED <<tables, series>>
        /\ UNCHANGED <<seq_num, neigh, rerr_due, links, counts>>

(* aodv_handle_rerr: the routes over the sender that are not newer become  *)
(* invalid; if there are any, the RERR goes on.                            *)
HandleRerr(m) ==
    LET n   == m.to
        hit == {d \in Node : /\ rt[n][d].known /\ rt[n][d].next = m.from
                             /\ \E s \in SeqNo : /\ <<d, s>> \in m.lost
                                                 /\ MarkedInvalid(rt[n], d, s)}
    IN  /\ m.type = "RERR"
        /\ rt' = [rt EXCEPT ![n] = InvalidateAll(@, hit)]
        /\ msgs' = (msgs \ {m}) \cup
             IF hit = {} THEN {}
             ELSE RerrFrames(n, m.orig, m.lost)
        /\ UNCHANGED <<nht, dangling, seq_num, series, neigh, rerr_due, links, counts>>

(* The pipeline: aodv_drop_errors comes before the handlers.               *)
Receive(m) ==
    /\ ~Dropped(m)
    /\ HandleRreq(m) \/ HandleRrep(m) \/ HandleRerr(m)

-----------------------------------------------------------------------------
(* A link stops working. *)
BreakLink(l) ==
    /\ faults < MaxFaults
    /\ l \in links
    /\ links' = links \ {l}
    /\ breaks' = breaks + 1
    /\ UNCHANGED <<tables, seq_num, series, neigh, rerr_due, msgs, restarts, expiries>>

(* No hello answer came for ALLOWED_HELLO_LOST + 1 intervals:              *)
(* db_nt_on_neigbor_timeout plans a RERR.                                  *)
NeighbourTimeout(n, m) ==
    /\ m \in neigh[n]
    /\ {m, n} \notin links
    /\ neigh' = [neigh EXCEPT ![n] = @ \ {m}]
    /\ rerr_due' = [rerr_due EXCEPT ![n] = @ \cup {m}]
    /\ UNCHANGED <<tables, seq_num, series, links, msgs, counts>>

(* The SEND_OUT_RERR case of aodv_periodic_scexecute.  Memory behind the   *)
(* dangling pointers of the destination list may be that of any entries:   *)
(* they are invalidated and reported, the latter with any number.          *)
SendRerr(n, m) ==
    LET over  == DestsOver(nht[n], dangling[n], m)
        stale == {d \in Node : <<m, d>> \in dangling[n]}
    IN  /\ m \in rerr_due[n]
        /\ rerr_due' = [rerr_due EXCEPT ![n] = @ \ {m}]
        /\ \E junk \in SUBSET (IF stale = {} THEN {} ELSE Node), s \in SeqNo :
             LET lost == {<<d, rt[n][d].seq>> : d \in over} \cup {<<d, s>> : d \in junk}
             IN  /\ rt' = [rt EXCEPT ![n] = InvalidateAll(@, over \cup junk)]
                 /\ \E parts \in RerrLists(lost) :
                      msgs' = msgs \cup UNION {RerrFrames(n, n, part) : part \in parts}
        /\ UNCHANGED <<nht, dangling, seq_num, series, neigh, links, counts>>

(* The same, when RERR_RATELIMIT is reached: the schedule is used up.      *)
SkipRerr(n, m) ==
    /\ m \in rerr_due[n]
    /\ rerr_due' = [rerr_due EXCEPT ![n] = @ \ {m}]
    /\ UNCHANGED <<tables, seq_num, series, neigh, links, msgs, counts>>

(* aodv_forward gets a data packet for d from p and has no route: it sends *)
(* a RERR with the sequence number UINT32_MAX.                             *)
StrandedData(n, d, p) ==
    /\ d # n /\ p # n /\ {n, p} \in links
    /\ HasRoute(rt[p], d) /\ rt[p][d].next = n
    /\ ~HasRoute(rt[n], d)
    /\ msgs' = msgs \cup RerrFrames(n, n, {<<d, SEQ_MAX>>})
    /\ UNCHANGED <<tables, seq_num, series, neigh, rerr_due, links, counts>>

(* MY_ROUTE_TIMEOUT without use: the entry is purged. *)
Expire(n, d) ==
    /\ faults < MaxFaults
    /\ rt[n][d].exists
    /\ rt' = [rt EXCEPT ![n] = PurgeEntry(@, d)]
    /\ nht' = [nht EXCEPT ![n] = PurgeNht(rt[n], @, d)]
    /\ dangling' = [dangling EXCEPT ![n] = PurgeDangling(rt[n], nht[n], @, d)]
    /\ expiries' = expiries + 1
    /\ UNCHANGED <<seq_num, series, neigh, rerr_due, links, msgs, breaks, restarts>>

(* The daemon is restarted: everything it knew is gone, its own sequence   *)
(* number included; the neighbours come back with the next hello.          *)
Restart(n) ==
    /\ faults < MaxFaults
    /\ rt' = [rt EXCEPT ![n] = [d \in Node |-> Absent]]
    /\ nht' = [nht EXCEPT ![n] = {}]
    /\ dangling' = [dangling EXCEPT ![n] = {}]
    /\ seq_num' = [seq_num EXCEPT ![n] = 0]
    /\ series' = [series EXCEPT ![n] = [d \in Node |-> NoSeries]]
    /\ neigh' = [neigh EXCEPT ![n] = Neighbours(n)]
    /\ rerr_due' = [rerr_due EXCEPT ![n] = {}]
    /\ restarts' = restarts + 1
    /\ UNCHANGED <<links, msgs, breaks, expiries>>

Next ==
    \/ \E o, d \in Node : StartDiscovery(o, d) \/ RepeatRreq(o, d) \/ GiveUp(o, d)
    \/ \E m \in msgs : Receive(m)
    \/ \E l \in links : BreakLink(l)
    \/ \E n, m \in Node : NeighbourTimeout(n, m) \/ SendRerr(n, m) \/ SkipRerr(n, m)
    \/ \E n, d, p \in Node : StrandedData(n, d, p)
    \/ \E n, d \in Node : Expire(n, d)
    \/ \E n \in Node : Restart(n)

Spec == Init /\ [][Next]_vars

-----------------------------------------------------------------------------
TypeOK ==
    /\ rt \in [Node -> [Node -> Entry]]
    /\ nht \in [Node -> SUBSET (Node \X Node)]
    /\ dangling \in [Node -> SUBSET (Node \X Node)]
    /\ seq_num \in [Node -> 0..MaxSeqNum]
    /\ series \in [Node -> [Node -> Series]]
    /\ neigh \in [Node -> SUBSET Node]
    /\ rerr_due \in [Node -> SUBSET Node]
    /\ links \subseteq Link
    /\ msgs \subseteq Rreq \cup Rrep \cup Rerr
    /\ breaks \in 0..MaxFaults /\ restarts \in 0..MaxFaults /\ expiries \in 0..MaxFaults

(* As long as no node restarts, nobody ever has a newer sequence number    *)
(* for a node than the node itself: neither a table nor a frame nor a      *)
(* running series.  Every comparison that picks the newer of two routes    *)
(* depends on it.                                                          *)
SeqNotAhead == restarts = 0 =>
    /\ \A n, d \in Node : rt[n][d].seq <= seq_num[d]
    /\ \A o, d \in Node : series[o][d].dseq <= seq_num[d]
    /\ \A m \in msgs :
         /\ m.type = "RREQ" => m.seq <= seq_num[m.orig] /\ m.dseq <= seq_num[m.dest]
         /\ m.type = "RREP" => m.seq <= seq_num[m.dest]

(* No node routes packets for itself to a neighbour.                       *)
NoRouteToSelf == \A n \in Node : ~rt[n][n].known

(* As long as nobody restarts and nothing expires, a next hop has itself   *)
(* heard of the destination: packets are stranded only where a route was   *)
(* invalidated, never where there was none.                                *)
NextHopKnowsDest ==
    restarts + expiries = 0 =>
        \A n, d \in Node : rt[n][d].known =>
            LET m == rt[n][d].next IN m = d \/ rt[m][d].known

(* A destination that learns of a better path to an originator answers it  *)
(* with a number newer than any that is about in the network, "so that the *)
(* updated RREP doesn't get discarded as old" (line 379), unless it has    *)
(* forgotten its number in a restart.                                      *)
HitReplyIsNewest ==
    [][\A m \in msgs :
         (/\ restarts = 0
          /\ m.type = "RREQ" /\ m.dest = m.to
          /\ Receive(m)
          /\ CaptResult(rt[m.to], m.orig, m.seq, MetricDo(m.metric)) = "METRIC_HIT")
         => /\ \A n \in Node : rt[n][m.to].seq < seq_num'[m.to]
            /\ \A f \in msgs : f.type = "RREP" /\ f.dest = m.to => f.seq < seq_num'[m.to]]_vars

(* Line 401: a node that sends a RREP for another node has a valid route   *)
(* to it.                                                                  *)
ReplierHasRoute ==
    [][\A f \in msgs' \ msgs :
         f.type = "RREP" /\ f.from # f.dest => HasRoute(rt'[f.from], f.dest)]_vars

(* A RREQ that comes back to a node after it has sent it on is recognised: *)
(* "we don't need ttl for loop detection" (line 250).                      *)
SentOn(m) == \E f \in msgs : /\ f.type = "RREQ" /\ f.from = m.to
                             /\ f.orig = m.orig /\ f.dest = m.dest /\ f.seq = m.seq
                             /\ f.metric <= MetricDo(m.metric)

ReturnedRreqIsOld ==
    [][\A m \in msgs :
         m.type = "RREQ" /\ SentOn(m) /\ Receive(m) =>
            CaptResult(rt[m.to], m.orig, m.seq, MetricDo(m.metric)) = "OLD"]_vars

(* While a route stays known, its sequence number never gets older.        *)
SeqNeverOlder ==
    [][\A n, d \in Node : rt[n][d].known /\ rt'[n][d].known =>
          hf_comp_u32(rt[n][d].seq, rt'[n][d].seq) <= 0]_vars
=============================================================================

----------------------------- MODULE NodeRoutes -----------------------------
(***************************************************************************)
(* The routing table of one node under its threads.                        *)
(*                                                                         *)
(* Every aodv_db_ call holds db_rwlock and is one step, but a handler      *)
(* makes several of them, and between two calls of one thread the others   *)
(* run: the receive threads (handlers of RREQs, RREPs and RERRs), the TUN  *)
(* thread, the periodic thread and the command line.  Module Aodv takes a  *)
(* handler in one step instead and looks at many nodes.                    *)
(*                                                                         *)
(* The frames that arrive are arbitrary: any route, number and metric of   *)
(* the sets below.  Time is abstract: a timeout may strike at any moment.  *)
(*                                                                         *)
(* The next hop table points to entries of the routing table, and nothing  *)
(* clears such a pointer when its entry is freed.  Memory that was freed   *)
(* holds anything, or an entry that was created since: what is written     *)
(* through a dangling pointer hits any entries or none, and what is read   *)
(* through it, and put into a RERR, is the address of any entry or of none.*)
(*                                                                         *)
(* Entries are purged within calls: by aodv_db_cleanup, and by any call    *)
(* that ends in timeslot_addobject (rt_entry_create, getroute2dest), on    *)
(* whatever thread.  Those calls read nothing of a purged entry, and purge *)
(* none that they use; their purges are steps of their own here, before or *)
(* after the rest of the call.                                             *)
(***************************************************************************)
EXTENDS RoutingOps

CONSTANTS
    Rx,          \* the receive threads
    Hop,         \* the neighbours
    Rreqs,       \* the RREQs that may arrive,
    Rreps,       \* the RREPs, and
    Rerrs,       \* the RERRs, one for each destination they list
    Wanted,      \* destinations of the packets of this host
    dest_only    \* only the destination answers a RREQ

(* metric includes what aodv_metric_do adds; dest of a RERR is the         *)
(* destination that it reports, and orig and metric do not matter.         *)
Frame == [from : Hop, orig : Node, dest : Node, seq : SeqNo, metric : Metric]

ASSUME FrameAssumption ==
    /\ Hop \subseteq Node
    /\ Rreqs \subseteq Frame /\ Rreps \subseteq Frame /\ Rerrs \subseteq Frame
    /\ Wanted \subseteq Node
    /\ dest_only \in BOOLEAN

(* The numbers of RREQs and RREPs stay in the lower half of the range: in   *)
(* the upper half they would be older than the number 0 that an entry       *)
(* starts with.  (A RERR may carry UINT32_MAX.)                             *)
ASSUME NumberAssumption == \A m \in Rreqs \cup Rreps : m.seq < HalfSeq

VARIABLES
    rt, nht, dangling,  \* the tables, see RoutingOps
    local_used, warned, \* entries with AODV_FLAGS_ROUTE_LOCAL_USED and _WARN
    rx,                 \* Rx -> where a receive thread is in its handler
    per,                \* where the periodic thread is in its RERR task
    moved,              \* history: destinations of which a RREQ has ever
                        \* changed a known next hop
    strayed,            \* history: those whose next hop is from such a RREQ
    fresh               \* history: destinations of RREPs used since the
                        \* periodic thread invalidated routes for a RERR

tables == <<rt, nht, dangling>>
flags  == <<local_used, warned>>
history == <<moved, strayed, fresh>>
vars   == <<rt, nht, dangling, local_used, warned, rx, per, moved, strayed, fresh>>

(* The locals of a handler: the frame, without the fields that are not     *)
(* needed any more; num is what a locked call has told it, and gone    *)
(* says that the entry it was read from has been freed since (history).    *)
Only(d, seq) == [from |-> NoNode, orig |-> NoNode, dest |-> d, seq |-> seq, metric |-> 0]

WithoutSeq(m) == [from |-> m.from, orig |-> m.orig, dest |-> m.dest, seq |-> 0,
                  metric |-> m.metric]

At(pc, m, num) == [pc |-> pc, msg |-> m, num |-> num, gone |-> FALSE]

Idle == At("idle", Only(NoNode, 0), 0)

Local == [from : Hop \cup {NoNode}, orig : Node \cup {NoNode},
          dest : Node \cup {NoNode}, seq : SeqNo, metric : Metric]

Thread == [pc : {"idle", "as_rrep", "dest_seq", "metric", "forward", "mark"},
           msg : Local, num : SeqNo, gone : BOOLEAN]

PerIdle == [pc |-> "idle", hop |-> NoNode]
Per     == [pc : {"idle", "inv", "list"}, hop : Hop \cup {NoNode}]

Goto(t, local) == rx' = [rx EXCEPT ![t] = local]

Init ==
    /\ rt = [d \in Node |-> Absent]
    /\ nht = {} /\ dangling = {}
    /\ local_used = {} /\ warned = {}
    /\ rx = [t \in Rx |-> Idle]
    /\ per = PerIdle
    /\ moved = {} /\ strayed = {} /\ fresh = {}

-----------------------------------------------------------------------------
(* aodv_handle_rreq, first call: aodv_db_capt_rreq.  The next hop of the   *)
(* originator changes, its place in the next hop table does not.           *)
Moves(m) ==
    /\ CaptResult(rt, m.orig, m.seq, m.metric) # "OLD"
    /\ rt[m.orig].known
    /\ rt[m.orig].next # m.from

CaptureRreq(t, m) ==
    /\ rx[t].pc = "idle"
    /\ rt' = CaptRreq(rt, m.dest, m.orig, m.from, m.seq, m.metric)
    /\ moved' = IF Moves(m) THEN moved \cup {m.orig} ELSE moved
    /\ strayed' = IF Moves(m) THEN strayed \cup {m.orig} ELSE strayed
    /\ CASE CaptResult(rt, m.orig, m.seq, m.metric) = "OLD" -> UNCHANGED rx
         [] OTHER -> Goto(t, At("as_rrep", WithoutSeq(m), 0))
    /\ UNCHANGED <<nht, dangling, flags, per, fresh>>

(* aodv_db_capt_rrep, when the RREP is used. *)
UseRrep(d, m, seq) ==
    /\ rt' = CaptRrep(rt, d, m.from, seq, m.metric)
    /\ nht' = RrepNht(rt, nht, d, m.from)
    /\ dangling' = RrepDangling(rt, dangling, d, m.from)
    /\ warned' = warned \ {d}
    /\ strayed' = strayed \ {d}
    /\ fresh' = IF per.pc = "list" THEN fresh \cup {d} ELSE {}

(* aodv_handle_rreq, second call: the RREQ as a RREP with number 0.  The   *)
(* node is the destination of the RREQ, or it goes on with the third call. *)
ProcessAsRrep(t) ==
    LET m == rx[t].msg
    IN  /\ rx[t].pc = "as_rrep"
        /\ IF CaptUsed(rt, m.orig, 0) THEN UseRrep(m.orig, m, 0)
           ELSE UNCHANGED <<tables, warned, strayed, fresh>>
        /\ Goto(t, Idle) \/ Goto(t, At("dest_seq", Only(m.dest, 0), 0))
        /\ UNCHANGED <<local_used, per, moved>>

(* Third call: aodv_db_get_destination_sequence_number.  Whether the node  *)
(* answers in place of the destination depends also on the number that the *)
(* RREQ asks for, which is arbitrary here.                                 *)
GetDestSeq(t) ==
    LET d == rx[t].msg.dest
    IN  /\ rx[t].pc = "dest_seq"
        /\ \/ Goto(t, Idle)
           \/ /\ ~dest_only
              /\ rt[d].known
              /\ Goto(t, At("metric", Only(d, 0), rt[d].seq))
        /\ UNCHANGED <<tables, flags, per, history>>

(* Fourth call: aodv_db_get_metric, like aodv_db_get_hopcount after it.    *)
(* The RREP with this metric and the number read before goes out.          *)
GetMetric(t) ==
    /\ rx[t].pc = "metric"
    /\ Goto(t, Idle)
    /\ UNCHANGED <<tables, flags, per, history>>

(* aodv_handle_rrep: aodv_db_capt_rrep.  The RREP is for this node and     *)
(* ends a discovery, or it goes on.                                        *)
CaptureRrep(t, m) ==
    /\ rx[t].pc = "idle"
    /\ IF CaptUsed(rt, m.dest, m.seq)
         THEN /\ UseRrep(m.dest, m, m.seq)
              /\ UNCHANGED rx \/ Goto(t, At("forward", Only(m.orig, 0), 0))
         ELSE /\ rt' = [rt EXCEPT ![m.dest] = Lookup(rt, m.dest)]
              /\ UNCHANGED <<nht, dangling, warned, strayed, fresh, rx>>
    /\ UNCHANGED <<local_used, per, moved>>

(* aodv_db_getroute2dest finds the reverse route, or the RREP is dropped.  *)
(* Neither changes the tables: the precursor lists are not read.           *)
ForwardRrep(t) ==
    /\ rx[t].pc = "forward"
    /\ Goto(t, Idle)
    /\ UNCHANGED <<tables, flags, per, history>>

(* aodv_handle_rerr, for one destination of the list: aodv_db_getnexthop.  *)
LookupNextHop(t, m) ==
    /\ rx[t].pc = "idle"
    /\ rt[m.dest].known /\ rt[m.dest].next = m.from
    /\ Goto(t, At("mark", Only(m.dest, m.seq), 0))
    /\ UNCHANGED <<tables, flags, per, history>>

(* The next call: aodv_db_markrouteinv. *)
MarkRoute(t) ==
    LET m == rx[t].msg
    IN  /\ rx[t].pc = "mark"
        /\ rt' = IF MarkedInvalid(rt, m.dest, m.seq) THEN InvalidateAll(rt, {m.dest})
                 ELSE rt
        /\ Goto(t, Idle)
        /\ UNCHANGED <<nht, dangling, flags, per, history>>

-----------------------------------------------------------------------------
(* aodv_sys2rp in the TUN thread: aodv_db_getroute2dest with a flag. *)
SendData(d) ==
    /\ HasRoute(rt, d)
    /\ local_used' = local_used \cup {d}
    /\ UNCHANGED <<tables, warned, rx, per, history>>

(* The command line: aodv_db_routing_reset. *)
RoutingReset ==
    /\ rt' = InvalidateAll(rt, {d \in Node : rt[d].exists})
    /\ UNCHANGED <<nht, dangling, flags, rx, per, history>>

-----------------------------------------------------------------------------
(* purge_rt_entry, called by timeslot_purgeobjects. *)
Expire(d) ==
    /\ rt[d].exists
    /\ rt' = PurgeEntry(rt, d)
    /\ nht' = PurgeNht(rt, nht, d)
    /\ dangling' = PurgeDangling(rt, nht, dangling, d)
    /\ local_used' = local_used \ {d}
    /\ warned' = warned \ {d}
    /\ rx' = [t \in Rx |->
                IF rx[t].pc = "metric" /\ rx[t].msg.dest = d
                THEN [rx[t] EXCEPT !.gone = TRUE] ELSE rx[t]]
    /\ strayed' = strayed \ {d}
    /\ UNCHANGED <<per, moved, fresh>>

(* The periodic thread.  A neighbour has timed out, at any moment:         *)
(* aodv_periodic_scexecute pops the SEND_OUT_RERR schedule of that, unless *)
(* RERR_RATELIMIT is reached.                                              *)
PopRerr(h) ==
    /\ per.pc = "idle"
    /\ per' = [pc |-> "inv", hop |-> h]
    /\ UNCHANGED <<tables, flags, rx, history>>

(* The pointers of the destination list of h that lead nowhere. *)
Stale(h) == {d \in Node : <<h, d>> \in dangling}

(* What is written and read through them. *)
Junk(h) == IF Stale(h) = {} THEN {{}} ELSE SUBSET {d \in Node : rt[d].exists}

InNht(h) == \E d \in Node : <<h, d>> \in nht

(* aodv_db_inv_over_nexthop *)
OnlyUnwarned(h) == DestsOver(nht, dangling, h) \ warned   \* mutant

Broken(h) == DestsOver(nht, dangling, h)

InvOverNexthop ==
    LET h == per.hop
    IN  /\ per.pc = "inv"
        /\ \E junk \in Junk(h) : rt' = InvalidateAll(rt, Broken(h) \cup junk)
        /\ per' = IF InNht(h) THEN [pc |-> "list", hop |-> h] ELSE PerIdle
        /\ UNCHANGED <<nht, dangling, flags, rx, history>>

(* What aodv_db_get_destlist may put on the list for the RERR: it takes    *)
(* the addresses from the entries that the pointers lead to.               *)
Reported(h) == Broken(h) \cup UNION Junk(h)

(* aodv_db_get_destlist; the RERR with this list goes out. *)
GetDestlist ==
    /\ per.pc = "list"
    /\ per' = PerIdle
    /\ fresh' = {}
    /\ UNCHANGED <<tables, flags, rx, moved, strayed>>

(* SEND_OUT_RWARN: the routes over h in use are warned about, once each:   *)
(* aodv_db_get_warn_endpoints_from_neighbor_and_set_warn.                  *)
Endangered(h) == (Broken(h) \cap local_used) \ warned

Warn(h) ==
    /\ per.pc = "idle"
    /\ \E junk \in Junk(h) : warned' = warned \cup Endangered(h) \cup junk
    /\ UNCHANGED <<tables, local_used, rx, per, history>>

Next ==
    \/ \E t \in Rx : \/ \E m \in Rreqs : CaptureRreq(t, m)
                     \/ \E m \in Rreps : CaptureRrep(t, m)
                     \/ \E m \in Rerrs : LookupNextHop(t, m)
    \/ \E t \in Rx : \/ ProcessAsRrep(t) \/ GetDestSeq(t) \/ GetMetric(t)
                     \/ ForwardRrep(t) \/ MarkRoute(t)
    \/ \E d \in Node : Expire(d)
    \/ \E d \in Wanted : SendData(d)
    \/ \E h \in Hop : PopRerr(h) \/ Warn(h)
    \/ RoutingReset \/ InvOverNexthop \/ GetDestlist

Spec == Init /\ [][Next]_vars

-----------------------------------------------------------------------------
TypeOK ==
    /\ rt \in [Node -> Entry]
    /\ nht \subseteq Node \X Node
    /\ dangling \subseteq nht
    /\ local_used \subseteq Node /\ warned \subseteq Node
    /\ rx \in [Rx -> Thread]
    /\ per \in Per
    /\ moved \subseteq Node /\ strayed \subseteq Node /\ fresh \subseteq Node

HopsOf(d) == {h \in Node : <<h, d>> \in nht}

Mirrored(d) ==
    /\ HopsOf(d) = IF rt[d].known THEN {rt[d].next} ELSE {}
    /\ \A h \in Node : <<h, d>> \notin dangling

(* aodv_rt.h:70, "Mapping next_hop -> destination list": the destination   *)
(* lists of the next hop table hold exactly the next hops of the routing   *)
(* table, and no pointer to an entry that purge_rt_entry has freed, except *)
(* for destinations of which a RREQ has replaced a known next hop.         *)
OnlyRreqsUnmirror == \A d \in Node \ moved : Mirrored(d)

(* Once the routes over a lost neighbour have been invalidated, and        *)
(* whatever other threads change and purge in between, a route over it is  *)
(* usable only because a new RREP said so, or was missed because its next  *)
(* hop is from a RREQ that replaced a known one.                           *)
BreakIsComplete ==
    per.pc = "list" =>
        \A d \in Node : HasRoute(rt, d) /\ rt[d].next = per.hop => d \in fresh \cup strayed

(* A RERR reports no usable route, whatever is purged, created and learnt  *)
(* between the two calls of aodv_periodic_scexecute, except one that a     *)
(* RREP has restored, and one read through a dangling pointer, which takes *)
(* a destination whose known next hop a RREQ has once replaced.            *)
ReportIsLost ==
    per.pc = "list" =>
        \A d \in Reported(per.hop) : HasRoute(rt, d) =>
            \/ d \in fresh
            \/ d \notin Broken(per.hop) /\ Stale(per.hop) \cap moved # {}

(* A node that answers for a destination combines a number, read first,    *)
(* with a metric, read later.  Unless the entry was freed in between, the  *)
(* metric is that of a route at least as new as the number, so that no     *)
(* RREP dresses an old route up as a new one.                              *)
RepairIsNotOutdated ==
    \A t \in Rx : rx[t].pc = "metric" /\ ~rx[t].gone =>
        LET e == rt[rx[t].msg.dest]
        IN  e.known /\ ~(hf_comp_u32(rx[t].num, e.seq) > 0)

(* Whatever order the calls of the handlers come in, an entry that stays   *)
(* known never goes back to an older number: also the number 0 that line   *)
(* 369 captures, after another call, undoes no RREP that came in between.  *)
SeqNeverOlder ==
    [][\A d \in Node : rt[d].known /\ rt'[d].known =>
          ~(hf_comp_u32(rt[d].seq, rt'[d].seq) > 0)]_vars
=============================================================================

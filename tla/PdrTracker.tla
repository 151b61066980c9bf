----------------------------- MODULE PdrTracker -----------------------------
(***************************************************************************)
(* The PDR tracker of one node for one of its neighbours: pdr.c, with what *)
(* aodv_metric.c makes of it.                                              *)
(*                                                                         *)
(* The neighbour sends a numbered hello in each of its hello intervals.    *)
(* Every receive thread may hear it (two radios on one channel both do),   *)
(* captures it, and then asks for the number of hellos in the tracking     *)
(* interval, in a second database call, to answer with it.                 *)
(*                                                                         *)
(* Time passes in ticks; a handler is done within the tick it began in,    *)
(* and left is the number of ticks until an object of a timeslot is due.   *)
(* The order of timestamps is the matter of module Timeslot.               *)
(***************************************************************************)
EXTENDS SeqNum, FiniteSets

CONSTANTS
    Rx,          \* the receive threads
    Intervals,   \* hello intervals of the neighbour and of this node,
    Factors,     \* and tracking factors, that the command line sets
    HELLO_INTERVAL, PDR_TRACKING_FACTOR,  \* the ones that this node starts with
    MinTracking, \* PDR_MIN_TRACKING_INTERVAL
    PurgeFactor, \* PDR_TRACKING_PURGE_FACTOR
    CountMod,    \* 2^8, for the uint8_t counters
    HelloMod,    \* 2^16, for the numbers of hellos
    Answers,     \* counts that the neighbour may answer with
    EtxOne,      \* 0x100, the ETX of a link without losses
    MaxSwitches  \* bound on the changes of parameters and of the neighbour

(* A hello interval or a tracking factor of 0, which the command line      *)
(* accepts too, makes the code divide by 0.                                *)
ASSUME TrackerAssumption ==
    /\ Intervals \subseteq Nat \ {0} /\ HELLO_INTERVAL \in Intervals
    /\ Factors \subseteq Nat \ {0} /\ PDR_TRACKING_FACTOR \in Factors
    /\ MinTracking \in Nat /\ PurgeFactor \in Nat \ {0}
    /\ CountMod \in Nat \ {0} /\ HelloMod \in Nat \ {0}
    /\ EtxOne \in Nat /\ MaxMetric > 0
    /\ Answers \subseteq 0..(CountMod - 1)
    /\ MaxSwitches \in Nat

VARIABLES
    entry,                            \* the entry of the neighbour
    hello_interval, tracking_factor,  \* parameters of this node
    nb_expected,                      \* pdr_nt.nb_expected_hellos
    answering,                        \* threads between the two calls of
                                      \* aodv_handle_hello
    peer,                             \* the neighbour
    air,                              \* threads that may hear its last hello
    switches,                         \* changes so far
    repeats, streak, steady           \* history, since the entry exists:
        \* captures of a hello that was listed already, modulo CountMod;
        \* hellos heard in a row, at most HelloMod - 1; the neighbour has
        \* kept its interval

params  == <<hello_interval, tracking_factor, nb_expected>>
history == <<repeats, streak, steady>>
vars    == <<entry, params, answering, peer, air, switches, history>>

HelloNo == 0..(HelloMod - 1)
NotYet  == HelloMod - 1     \* the next hello is number 0
Count   == 0..(CountMod - 1)

(* listed are the keys of msg_list, left their times in the timeslot of    *)
(* the entry, whose length is watch; the entry itself is purged when gone  *)
(* is 0.                                                                   *)
Entry == [exists : BOOLEAN, interv : Nat, watch : Nat, expected : Nat, purge : Nat, gone : Nat,
          rcvd : Count, nb_rcvd : Count, listed : SUBSET HelloNo, left : [HelloNo -> Nat]]

-----------------------------------------------------------------------------
(* Mutants of the definitions below. *)
WatchTooShort(interv, factor) == interv

KeepsCount(e) == [e EXCEPT !.listed = {s \in e.listed : e.left[s] > 0}]

SubtractsPlainly(e) ==
    [e EXCEPT !.listed = {s \in e.listed : e.left[s] > 0},
              !.rcvd   = e.rcvd - Cardinality({s \in e.listed : e.left[s] = 0})]

RefreshesToo(e) ==
    LET due == {s \in e.listed : e.left[s] = 0}
    IN  [e EXCEPT !.listed = e.listed \ due,
                  !.rcvd = (e.rcvd - Cardinality(due)) % CountMod,
                  !.gone = e.purge]

Unclamped(count, expected) == count

AddsWithWrap(m, link) == (m + link) % (MaxMetric + 1)
-----------------------------------------------------------------------------
(* The number of hellos that a tracking interval holds. *)
Expected(interv, factor) ==
    IF interv * factor >= MinTracking THEN factor ELSE MinTracking \div interv

Watch(interv, factor) ==
    IF interv * factor >= MinTracking THEN interv * factor ELSE MinTracking

Purge(interv, factor) == interv * factor * PurgeFactor

NoEntry == [exists |-> FALSE, interv |-> 0, watch |-> 0, expected |-> 0, purge |-> 0, gone |-> 0,
            rcvd |-> 0, nb_rcvd |-> 0, listed |-> {}, left |-> [s \in HelloNo |-> 0]]

(* pdr_neighbor_entry_create, pdr_neighbor_entry_update and the refresh of *)
(* the entry.  An update leaves the length of the timeslot as it is.       *)
Refreshed(e, interv) ==
    LET f == tracking_factor
        c == IF e.exists THEN e
             ELSE [NoEntry EXCEPT !.exists = TRUE, !.watch = Watch(interv, f)]
        u == IF c.interv = interv THEN c
             ELSE [c EXCEPT !.interv = interv, !.expected = Expected(interv, f),
                            !.purge = Purge(interv, f)]
    IN  [u EXCEPT !.gone = u.purge]

(* The hello number s is listed, again if it is, and counted. *)
Captured(e, s) ==
    [e EXCEPT !.listed = e.listed \cup {s},
              !.left[s] = e.watch,
              !.rcvd = (e.rcvd + 1) % CountMod]

(* pdr_nt_cleanup: the hellos that are due leave the list and the count. *)
Purged(e) ==
    LET due == {s \in e.listed : e.left[s] = 0}
    IN  [e EXCEPT !.listed = e.listed \ due,
                  !.rcvd = (e.rcvd - Cardinality(due)) % CountMod]

Init ==
    /\ entry = NoEntry
    /\ hello_interval = HELLO_INTERVAL /\ tracking_factor = PDR_TRACKING_FACTOR
    /\ nb_expected = Expected(hello_interval, tracking_factor)
    /\ answering = {}
    /\ \E i \in Intervals : peer = [on |-> TRUE, interv |-> i, due |-> 0, seq |-> NotYet]
    /\ air = {}
    /\ switches = 0
    /\ repeats = 0 /\ streak = 0 /\ steady = TRUE

-----------------------------------------------------------------------------
(* The neighbour broadcasts its next hello; some threads hear it. *)
NbHello ==
    /\ peer.on /\ peer.due = 0 /\ air = {}
    /\ peer' = [peer EXCEPT !.due = peer.interv, !.seq = (peer.seq + 1) % HelloMod]
    /\ \E hears \in SUBSET Rx :
         /\ air' = hears
         /\ streak' = IF hears = {} THEN 0
                      ELSE IF streak = HelloMod - 1 THEN streak ELSE streak + 1
    /\ UNCHANGED <<entry, params, answering, switches, repeats, steady>>

(* aodv_handle_hello: aodv_db_pdr_cap_hello, which ends in a purge of the  *)
(* list by timeslot_addobject.                                             *)
CaptureHello(t) ==
    LET again == peer.seq \in entry.listed
    IN  /\ t \in air /\ t \notin answering
        /\ entry' = Purged(Captured(Refreshed(entry, peer.interv), peer.seq))
        /\ air' = air \ {t}
        /\ answering' = answering \cup {t}
        /\ repeats' = IF ~entry.exists THEN 0
                      ELSE IF again THEN (repeats + 1) % CountMod ELSE repeats
        /\ steady' = (steady \/ ~entry.exists)
        /\ UNCHANGED <<params, peer, switches, streak>>

(* Its next call: aodv_db_pdr_get_rcvdhellocount, for the answer. *)
GetRcvdHelloCount(t) ==
    /\ t \in answering
    /\ answering' = answering \ {t}
    /\ entry' = IF entry.exists THEN Purged(entry) ELSE entry
    /\ UNCHANGED <<params, peer, air, switches, history>>

(* aodv_handle_hello: the neighbour answers a hello of this node, with its *)
(* interval and a count; aodv_db_pdr_cap_hellorsp.                         *)
CaptureHelloRsp(count) ==
    /\ peer.on /\ air = {}
    /\ entry' = [Refreshed(entry, peer.interv) EXCEPT !.nb_rcvd = count]
    /\ repeats' = IF entry.exists THEN repeats ELSE 0
    /\ steady' = (steady \/ ~entry.exists)
    /\ UNCHANGED <<params, answering, peer, air, switches, streak>>

(* aodv_metric_do: aodv_db_pdr_get_pdr, _get_etx_mul or _get_etx_add. *)
Measure ==
    /\ entry.exists
    /\ entry' = Purged(entry)
    /\ UNCHANGED <<params, answering, peer, air, switches, history>>

(* aodv_db_cleanup: pdr_nt_purge_nb. *)
Cleanup ==
    /\ entry.exists /\ entry.gone = 0
    /\ entry' = NoEntry
    /\ repeats' = 0 /\ streak' = 0 /\ steady' = TRUE
    /\ UNCHANGED <<params, answering, peer, air, switches>>

Less(n) == IF n = 0 THEN 0 ELSE n - 1

Tick ==
    /\ air = {} /\ answering = {}
    /\ peer.on => peer.due > 0
    /\ entry.gone > 0 \/ ~entry.exists
    /\ entry' = [entry EXCEPT !.gone = Less(entry.gone),
                              !.left = [s \in HelloNo |-> Less(entry.left[s])]]
    /\ peer' = [peer EXCEPT !.due = Less(peer.due)]
    /\ UNCHANGED <<params, answering, air, switches, history>>

(* The neighbour is gone, or comes back and counts its hellos from 0 on. *)
NbStop ==
    /\ peer.on /\ air = {}
    /\ switches < MaxSwitches /\ switches' = switches + 1
    /\ peer' = [peer EXCEPT !.on = FALSE, !.due = 0, !.seq = NotYet]
    /\ streak' = 0
    /\ UNCHANGED <<entry, params, answering, air, repeats, steady>>

NbStart(i) ==
    /\ ~peer.on
    /\ peer' = [on |-> TRUE, interv |-> i, due |-> 0, seq |-> NotYet]
    /\ steady' = (steady /\ (entry.exists => entry.interv = i))
    /\ UNCHANGED <<entry, params, answering, air, switches, repeats, streak>>

(* cli_set_hello_interval at the neighbour, which starts its timer again. *)
NbSetInterval(i) ==
    /\ peer.on /\ air = {} /\ i # peer.interv
    /\ switches < MaxSwitches /\ switches' = switches + 1
    /\ peer' = [peer EXCEPT !.interv = i, !.due = i]
    /\ steady' = ~entry.exists
    /\ UNCHANGED <<entry, params, answering, air, repeats, streak>>

(* cli_set_hello_interval and cli_set_tracking_factor at this node. *)
SetParameters(i, f) ==
    /\ switches < MaxSwitches /\ switches' = switches + 1
    /\ hello_interval' = i /\ tracking_factor' = f
    /\ i = hello_interval \/ f = tracking_factor
    /\ nb_expected' = Expected(i, f)
    /\ UNCHANGED <<entry, answering, peer, air, history>>

Next ==
    \/ NbHello
    \/ \E t \in Rx : CaptureHello(t) \/ GetRcvdHelloCount(t)
    \/ \E count \in Answers : CaptureHelloRsp(count)
    \/ Measure \/ Cleanup \/ Tick
    \/ NbStop
    \/ \E i \in Intervals : NbStart(i) \/ NbSetInterval(i)
    \/ \E i \in Intervals, f \in Factors : SetParameters(i, f)

(* Time passes, threads finish their handlers, and the clean-up runs. *)
Fairness ==
    /\ WF_vars(Tick) /\ WF_vars(Cleanup)
    /\ \A t \in Rx : WF_vars(CaptureHello(t)) /\ WF_vars(GetRcvdHelloCount(t))

Spec == Init /\ [][Next]_vars /\ Fairness

-----------------------------------------------------------------------------
(* The metrics that are made of an entry.  min(count, expected) *)
Clamped(count, expected) == IF count < expected THEN count ELSE expected

(* aodv_db_pdr_nt_get_pdr *)
Pdr(e) == IF e.rcvd >= e.expected THEN MaxMetric ELSE (MaxMetric * e.rcvd) \div e.expected

(* aodv_db_pdr_nt_get_etx_mul *)
EtxMul(e) ==
    (MaxMetric * Clamped(e.rcvd, e.expected) * Clamped(e.nb_rcvd, nb_expected))
        \div (e.expected * nb_expected)

(* aodv_db_pdr_nt_get_etx_add.  Without a return after the unknown link is *)
(* answered, the code goes on to divide by 0: anything may come out.       *)
EtxAdd(e) ==
    LET rates == Clamped(e.rcvd, e.expected) * Clamped(e.nb_rcvd, nb_expected)
    IN  IF rates = 0 THEN Metric
        ELSE {Clamped((EtxOne * e.expected * nb_expected) \div rates, MaxMetric)}

(* aodv_metric_do, AODV_METRIC_PDR and AODV_METRIC_ETX_ADD: the metric of  *)
(* a path that is longer by one link.                                      *)
LongerPdr(m, link) == (m * link) \div MaxMetric

LongerEtxAdd(m, link) == IF MaxMetric - link > m THEN m + link ELSE MaxMetric

-----------------------------------------------------------------------------
TypeOK ==
    /\ entry \in Entry
    /\ hello_interval \in Intervals /\ tracking_factor \in Factors /\ nb_expected \in Nat
    /\ answering \subseteq Rx /\ air \subseteq Rx
    /\ peer \in [on : BOOLEAN, interv : Intervals, due : Nat, seq : HelloNo]
    /\ switches \in 0..MaxSwitches
    /\ repeats \in Count /\ streak \in HelloNo /\ steady \in BOOLEAN

(* The 8-bit count is the number of listed hellos and of all the repeats   *)
(* since the entry exists: pdr_nt_purge_hello_msg takes every hello off it *)
(* once, however often it was captured.                                    *)
CountIsListed ==
    entry.exists => entry.rcvd = (Cardinality(entry.listed) + repeats) % CountMod

(* A link without losses has the best PDR: between two hellos of a         *)
(* neighbour that has kept its interval, and when as many hellos in a row  *)
(* have been heard as are expected, so many are listed.                    *)
Lossless == /\ entry.exists /\ steady /\ streak >= entry.expected /\ repeats = 0
            /\ air = {} /\ peer.on /\ peer.due > 0

LosslessIsFull ==
    Lossless /\ Cardinality(entry.listed) < CountMod => Pdr(entry) = MaxMetric

(* aodv_cli.c:163, "usage %s [0..1000]" of cli_set_tracking_factor: the    *)
(* same for every factor that the command line takes, while the counter of *)
(* received hellos is a uint8_t.                                           *)
AnyFactorIsFull == Lossless => Pdr(entry) = MaxMetric

(* pdr.c:327, "clamp rcvd counts to prevent pdr's over 1": the round trip  *)
(* is no better than the way here, and a link needs one transmission.      *)
RatesAreBounded ==
    entry.exists =>
        /\ EtxMul(entry) <= Pdr(entry) /\ Pdr(entry) <= MaxMetric
        /\ entry.rcvd > 0 /\ entry.nb_rcvd > 0 =>
             \A etx \in EtxAdd(entry) : etx >= Clamped(EtxOne, MaxMetric)

(* "prevent overflow", aodv_metric.c:53: a path never becomes better by    *)
(* another link, whatever the tracker says of that link.                   *)
PathNeverImproves ==
    entry.exists =>
        \A m \in Metric :
            /\ LongerPdr(m, Pdr(entry)) <= m
            /\ \A etx \in EtxAdd(entry) : LongerEtxAdd(m, etx) \in m..MaxMetric

(* A neighbour that is gone for good is forgotten. *)
SilentIsForgotten == ~peer.on ~> (~entry.exists \/ peer.on)
=============================================================================

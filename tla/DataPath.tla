------------------------------ MODULE DataPath ------------------------------
(***************************************************************************)
(* The way of a data packet from the host's TUN interface to the TUN       *)
(* interface of its destination (aodv_forward.c, packet_buffer.c, ds.c).   *)
(* A packet with no route waits in a buffer until a route request is       *)
(* answered; the receive thread that gets the answer sends it out.         *)
(*                                                                         *)
(* One step is one call that takes a lock, or one call outside any.  The   *)
(* discovery of a route is that of module Discovery, which RreqSeries      *)
(* implements: it runs until it is cancelled or gives up.  The network     *)
(* between source and destination loses, repeats and reorders messages.    *)
(* Several receive threads of a destination take packets from it, and one  *)
(* hands its packet to the host after it has released the database.        *)
(* Time is abstract: a buffer can be purged, and the entry by which a      *)
(* destination tells old packets can time out, at any moment.              *)
(***************************************************************************)
EXTENDS Naturals, Sequences

CONSTANTS
    Dest,                        \* addresses the host sends to
    Broadcast,                   \* ether_broadcast
    SysThread,                   \* the thread that reads the TUN interface
    RxThread,                    \* the mesh receive threads, of each node
    FIFO_BUFFER_MAX_ENTRY_SIZE,  \* config.h: UINT32_MAX, so many as never wait
    SeqMod,                      \* the values of data_seq_global: 2^16
    MaxPackets,                  \* bound: packets the host sends
    MaxRoutes                    \* bound: times a route is learnt

ASSUME DataPathAssumption ==
    /\ Broadcast \notin Dest
    /\ SysThread \notin RxThread
    /\ FIFO_BUFFER_MAX_ENTRY_SIZE \in Nat \ {0}
    /\ SeqMod \in Nat \ {0}
    /\ MaxPackets \in Nat
    /\ MaxRoutes \in Nat

Thread   == RxThread \cup {SysThread}
Packet   == 1..MaxPackets
NoPacket == 0
Number   == 0..(SeqMod - 1)
NoNumber == SeqMod
Message  == [to : Dest \cup {Broadcast}, packet : Packet, num : Number]

VARIABLES
    route,      \* the destinations with a valid route
    buffer,     \* Dest -> the packets that wait, oldest first
    discovery,  \* Dest -> its route discovery
    data_seq,   \* data_seq_global
    pc, dest,   \* Thread -> what it does next, for which destination
    hand,       \* Thread -> the packet it holds
    num,        \* Thread -> the number it drew for the packet, or 0
    air,        \* the messages that were sent
    entry,      \* Dest -> the last number it took from this source
    holds,      \* Dest -> receive thread -> the packet it will hand to the host
    got,        \* Dest -> the packets that its host got
    again,      \* history: Dest -> the packets that its host got again
    taken,      \* history: Dest -> what it took while it had the entry
    forgot,     \* history: Dest -> what it took before the entry timed out
    made,       \* packets of the host so far
    routes      \* routes learnt so far (for the bound only)

receiver == <<entry, holds, got, again, taken, forgot>>
vars == <<route, buffer, discovery, data_seq, pc, dest, hand, num, air,
          entry, holds, got, again, taken, forgot, made, routes>>

Init ==
    /\ route = {}
    /\ buffer = [d \in Dest |-> <<>>]
    /\ discovery = [d \in Dest |-> "none"]
    /\ data_seq = 0
    /\ pc = [p \in Thread |-> "idle"]
    /\ dest = [p \in Thread |-> Broadcast]
    /\ hand = [p \in Thread |-> NoPacket]
    /\ num = [p \in Thread |-> 0]
    /\ air = {}
    /\ entry = [d \in Dest |-> NoNumber]
    /\ holds = [d \in Dest |-> [x \in RxThread |-> NoPacket]]
    /\ got = [d \in Dest |-> {}] /\ again = [d \in Dest |-> {}]
    /\ taken = [d \in Dest |-> {}] /\ forgot = [d \in Dest |-> {}]
    /\ made = 0 /\ routes = 0

Goto(p, step) == pc' = [pc EXCEPT ![p] = step]

-----------------------------------------------------------------------------
(* The TUN thread. *)

(* Mutant of NeedsRoute: ether_broadcast is looked up like an address. *)
LooksUpAll(d) == d \notin route

(* A packet waits for a route, unless it is for everybody. *)
NeedsRoute(d) == d \notin route \cup {Broadcast}

(* aodv_sys2rp up to aodv_db_getroute2dest *)
HostSends(d) ==
    /\ pc[SysThread] = "idle"
    /\ made < MaxPackets   \* bound
    /\ made' = made + 1
    /\ hand' = [hand EXCEPT ![SysThread] = made + 1]
    /\ dest' = [dest EXCEPT ![SysThread] = d]
    /\ Goto(SysThread, IF NeedsRoute(d) THEN "push" ELSE "draw")
    /\ UNCHANGED <<route, buffer, discovery, data_seq, num, air, receiver, routes>>

(* fl_push_packet: when the list is full its oldest packet goes.  (With    *)
(* UINT32_MAX as the limit it never is.)                                   *)
Pushed(q, n) ==
    IF Len(q) < FIFO_BUFFER_MAX_ENTRY_SIZE THEN Append(q, n) ELSE Tail(Append(q, n))

(* aodv_db_push_packet *)
PushPacket ==
    LET d == dest[SysThread] IN
    /\ pc[SysThread] = "push"
    /\ buffer' = [buffer EXCEPT ![d] = Pushed(@, hand[SysThread])]
    /\ hand' = [hand EXCEPT ![SysThread] = NoPacket]
    /\ Goto(SysThread, "rreq")
    /\ UNCHANGED <<route, discovery, data_seq, dest, num, air, receiver, made, routes>>

(* aodv_pipeline_new_series *)
RreqNeeded(d) == discovery[d] # "running"

Discover(d) ==
    discovery' = IF RreqNeeded(d) THEN [discovery EXCEPT ![d] = "running"]
                 ELSE discovery

(* aodv_send_rreq, called by aodv_sys2rp *)
SendRreq ==
    /\ pc[SysThread] = "rreq"
    /\ Discover(dest[SysThread])
    /\ Goto(SysThread, "idle")
    /\ UNCHANGED <<route, buffer, data_seq, dest, hand, num, air, receiver, made, routes>>

-----------------------------------------------------------------------------
(* The receive threads. *)

(* Mutant of After: the buffer is flushed before the series is deleted. *)
FlushFirst(step) ==
    CASE step = "learn" -> "pop" [] step = "flush" -> "cancel" [] OTHER -> "idle"

(* What follows what in aodv_handle_rrep and aodv_send_packets_from_buffer. *)
After(step) ==
    CASE step = "learn" -> "cancel" [] step = "cancel" -> "pop" [] OTHER -> "idle"

(* aodv_handle_rrep up to aodv_db_capt_rrep: a RREP for this node is used. *)
(* A RREQ of d that aodv_handle_rreq uses as a RREP does the same.         *)
LearnRoute(p, d) ==
    /\ pc[p] = "idle"
    /\ routes < MaxRoutes   \* bound
    /\ routes' = routes + 1
    /\ route' = route \cup {d}
    /\ dest' = [dest EXCEPT ![p] = d]
    /\ Goto(p, After("learn"))
    /\ UNCHANGED <<buffer, discovery, data_seq, hand, num, air, receiver, made>>

(* aodv_pipeline_delete_series_ether *)
DeleteSeries(p) ==
    LET d == dest[p] IN
    /\ pc[p] = "cancel"
    /\ discovery' = IF discovery[d] = "running"
                      THEN [discovery EXCEPT ![d] = "none"] ELSE discovery
    /\ Goto(p, After("cancel"))
    /\ UNCHANGED <<route, buffer, data_seq, dest, hand, num, air, receiver, made, routes>>

(* Mutant of Popped: the last packet stays in the list. *)
PoppedBadly(q) == IF Len(q) = 1 THEN q ELSE Tail(q)

(* fl_pop_packet *)
Popped(q) == Tail(q)

(* aodv_db_pop_packet *)
PopPacket(p) ==
    LET d == dest[p] IN
    /\ pc[p] = "pop"
    /\ buffer[d] # <<>>
    /\ hand' = [hand EXCEPT ![p] = Head(buffer[d])]
    /\ buffer' = [buffer EXCEPT ![d] = Popped(@)]
    /\ Goto(p, "draw")
    /\ UNCHANGED <<route, discovery, data_seq, dest, num, air, receiver, made, routes>>

(* It returns NULL and the loop ends. *)
PopNothing(p) ==
    /\ pc[p] = "pop"
    /\ buffer[dest[p]] = <<>>
    /\ Goto(p, After("flush"))
    /\ UNCHANGED <<route, buffer, discovery, data_seq, dest, hand, num, air,
                   receiver, made, routes>>

-----------------------------------------------------------------------------
(* Both kinds of threads. *)

NextNumber == (data_seq + 1) % SeqMod

(* ++data_seq_global, under data_seq_lock *)
DrawNumber(p) ==
    /\ pc[p] = "draw"
    /\ data_seq' = NextNumber
    /\ num' = [num EXCEPT ![p] = NextNumber]
    /\ Goto(p, "send")
    /\ UNCHANGED <<route, buffer, discovery, dest, hand, air, receiver, made, routes>>

(* Mutant of AfterSend: one packet is sent, not all of them. *)
SendsOne(p) == "idle"

AfterSend(p) == IF p = SysThread THEN "idle" ELSE "pop"

(* dessert_meshsend *)
Send(p) ==
    /\ pc[p] = "send"
    /\ air' = air \cup {[to |-> dest[p], packet |-> hand[p], num |-> num[p]]}
    /\ hand' = [hand EXCEPT ![p] = NoPacket]
    /\ num' = [num EXCEPT ![p] = 0]
    /\ Goto(p, AfterSend(p))
    /\ UNCHANGED <<route, buffer, discovery, data_seq, dest, receiver, made, routes>>

-----------------------------------------------------------------------------
(* What the rest of the daemon does meanwhile. *)

threads == <<data_seq, pc, dest, hand, num, air, made>>

(* A route becomes valid by a RREP that this node forwards for another:    *)
(* no series is deleted and no packet is sent.                             *)
RouteByOthers(d) ==
    /\ d \notin route
    /\ routes < MaxRoutes   \* bound
    /\ routes' = routes + 1
    /\ route' = route \cup {d}
    /\ UNCHANGED <<buffer, discovery, threads, receiver>>

(* The route is invalidated, or it expires. *)
LoseRoute(d) ==
    /\ d \in route
    /\ route' = route \ {d}
    /\ UNCHANGED <<buffer, discovery, threads, receiver, routes>>

(* The last RREQ of the series is sent. *)
GiveUp(d) ==
    /\ discovery[d] = "running"
    /\ discovery' = [discovery EXCEPT ![d] = "failed"]
    /\ UNCHANGED <<route, buffer, threads, receiver, routes>>

(* aodv_periodic_send_rreq and AODV_SC_SEND_OUT_RWARN: a RREQ for a route  *)
(* that the host has used, whether it is still valid or not.  (Which were  *)
(* used is not recorded: here it may be any.)                              *)
Rediscover(d) ==
    /\ Discover(d)
    /\ UNCHANGED <<route, buffer, threads, receiver, routes>>

(* purge_packets: the last push to this destination timed out. *)
PurgePackets(d) ==
    /\ buffer[d] # <<>>
    /\ buffer' = [buffer EXCEPT ![d] = <<>>]
    /\ UNCHANGED <<route, discovery, threads, receiver, routes>>

-----------------------------------------------------------------------------
(* The destination. *)

(* Mutant of Newer: only the last number is turned down. *)
Different(old, new) == old # new

(* aodv_db_ds_capt_data_seq; the difference is that of two ints. *)
Newer(old, new) == old > SeqMod \div 2 + new \/ old < new

(* A receive thread x of node r gets a copy of message m: from the air     *)
(* come copies, in any order.  A packet that is newer is taken, under      *)
(* db_rwlock.                                                              *)
Capture(r, x, m) ==
    /\ holds[r][x] = NoPacket
    /\ entry[r] = NoNumber \/ Newer(entry[r], m.num)
    /\ entry' = [entry EXCEPT ![r] = m.num]
    /\ holds' = [holds EXCEPT ![r][x] = m.packet]
    /\ taken' = [taken EXCEPT ![r] = @ \cup {m.packet}]
    /\ UNCHANGED <<route, buffer, discovery, threads, routes, got, again, forgot>>

(* aodv_local_unicast.  A packet that is not newer is dropped. *)
LocalUnicast(r, x, m) == m.to = r /\ Capture(r, x, m)

(* aodv_forward_broadcast; what it forwards is one more copy. *)
ForwardBroadcast(r, x, m) == m.to = Broadcast /\ Capture(r, x, m)

Receive(r, x, m) == LocalUnicast(r, x, m) \/ ForwardBroadcast(r, x, m)

(* The last call of both, without a lock: dessert_syssend_msg. *)
SysSend(r, x) ==
    LET k == holds[r][x] IN
    /\ k # NoPacket
    /\ holds' = [holds EXCEPT ![r][x] = NoPacket]
    /\ got' = [got EXCEPT ![r] = @ \cup {k}]
    /\ again' = IF k \in got[r] THEN [again EXCEPT ![r] = @ \cup {k}] ELSE again
    /\ UNCHANGED <<route, buffer, discovery, threads, routes, entry, taken, forgot>>

(* db_nt_on_ds_timeout: AODV_DATA_SEQ_TIMEOUT after the last packet that   *)
(* was newer the entry of the source is freed.                             *)
DsTimeout(r) ==
    /\ entry[r] # NoNumber
    /\ entry' = [entry EXCEPT ![r] = NoNumber]
    /\ forgot' = [forgot EXCEPT ![r] = @ \cup taken[r]]
    /\ taken' = [taken EXCEPT ![r] = {}]
    /\ UNCHANGED <<route, buffer, discovery, threads, routes, holds, got, again>>

Next ==
    \/ \E d \in Dest \cup {Broadcast} : HostSends(d)
    \/ PushPacket
    \/ SendRreq
    \/ \E p \in RxThread : \/ \E d \in Dest : LearnRoute(p, d)
                           \/ DeleteSeries(p)
                           \/ PopPacket(p)
                           \/ PopNothing(p)
    \/ \E p \in Thread : DrawNumber(p) \/ Send(p)
    \/ \E d \in Dest : \/ RouteByOthers(d) \/ LoseRoute(d)
                       \/ GiveUp(d) \/ Rediscover(d)
                       \/ PurgePackets(d)
    \/ \E r \in Dest, x \in RxThread : \/ \E m \in air : Receive(r, x, m)
                                       \/ SysSend(r, x)
    \/ \E r \in Dest : DsTimeout(r)

Spec == Init /\ [][Next]_vars

(* Threads go on with what they have begun, and a discovery ends (this is  *)
(* what DiscoveriesEnd of RreqSeries shows).                               *)
Fairness ==
    /\ WF_vars(PushPacket) /\ WF_vars(SendRreq)
    /\ \A p \in RxThread : WF_vars(DeleteSeries(p) \/ PopPacket(p) \/ PopNothing(p))
    /\ \A p \in Thread : WF_vars(DrawNumber(p) \/ Send(p))
    /\ \A d \in Dest : WF_vars(GiveUp(d))

FairSpec == Spec /\ Fairness

-----------------------------------------------------------------------------
SysStates == {"idle", "draw", "send", "push", "rreq"}
RxStates  == {"idle", "draw", "send", "cancel", "pop"}

(* The type of the state.  In particular only packets for one destination  *)
(* are pushed or flushed, and no list grows beyond its limit.              *)
TypeOK ==
    /\ route \subseteq Dest
    /\ buffer \in [Dest -> Seq(Packet)]
    /\ \A d \in Dest : Len(buffer[d]) <= FIFO_BUFFER_MAX_ENTRY_SIZE
    /\ discovery \in [Dest -> {"none", "running", "failed"}]
    /\ data_seq \in Number
    /\ pc \in [Thread -> SysStates \cup RxStates]
    /\ pc[SysThread] \in SysStates
    /\ \A p \in RxThread : pc[p] \in RxStates
    /\ dest \in [Thread -> Dest \cup {Broadcast}]
    /\ pc[SysThread] \in {"push", "rreq"} => dest[SysThread] \in Dest
    /\ \A p \in RxThread : pc[p] # "idle" => dest[p] \in Dest
    /\ hand \in [Thread -> Packet \cup {NoPacket}]
    /\ num \in [Thread -> Number]
    /\ air \subseteq Message
    /\ entry \in [Dest -> Number \cup {NoNumber}]
    /\ holds \in [Dest -> [RxThread -> Packet \cup {NoPacket}]]
    /\ got \in [Dest -> SUBSET Packet] /\ again \in [Dest -> SUBSET Packet]
    /\ taken \in [Dest -> SUBSET Packet] /\ forgot \in [Dest -> SUBSET Packet]
    /\ made \in 0..MaxPackets /\ routes \in 0..MaxRoutes

(* Who will see to the packets that wait for d: a discovery that runs or   *)
(* that gave up, the TUN thread about to start one, or a receive thread    *)
(* that will still look into the buffer.                                   *)
Flushing(p, d) == dest[p] = d /\ pc[p] \in {"pop", "draw", "send"}

Awaited(d) ==
    \/ discovery[d] \in {"running", "failed"}
    \/ pc[SysThread] = "rreq" /\ dest[SysThread] = d
    \/ \E p \in RxThread : Flushing(p, d)

(* No packet is forgotten in the buffer: however the push of aodv_sys2rp   *)
(* and the request after it interleave with the cancelling and flushing of *)
(* aodv_send_packets_from_buffer, somebody still sees to it.               *)
BufferedIsAwaited == \A d \in Dest : buffer[d] # <<>> => Awaited(d)

(* A packet is in one place and under one number: two threads that empty   *)
(* one buffer never hold, send or destroy the same message, and what was   *)
(* sent is in no buffer any more.                                          *)
Waiting(d) == {buffer[d][i] : i \in DOMAIN buffer[d]}

PacketsAreOnce ==
    /\ \A p, q \in Thread : p # q /\ hand[p] # NoPacket => hand[p] # hand[q]
    /\ \A d \in Dest : \A i, j \in DOMAIN buffer[d] :
         i # j => buffer[d][i] # buffer[d][j]
    /\ \A d, e \in Dest : d # e => Waiting(d) \cap Waiting(e) = {}
    /\ \A p \in Thread, d \in Dest : hand[p] \notin Waiting(d)
    /\ \A m \in air :
         /\ \A p \in Thread : hand[p] # m.packet
         /\ \A d \in Dest : m.packet \notin Waiting(d)
         /\ \A n \in air : m.packet = n.packet => m = n

(* While the packets sent take up no more than half of the numbers, a host *)
(* gets a packet again only if the destination had forgotten the source in *)
(* between: as long as it has the entry no copy, however late, and on      *)
(* whichever receive thread, comes through.  Beyond half of the numbers a  *)
(* late copy counts as newer, although no number came twice.               *)
DeliveredOnce == made <= SeqMod \div 2 => \A r \in Dest : again[r] \subseteq forgot[r]

(* The messages that have a number: sent, or in the hand of a thread that  *)
(* has drawn it.                                                           *)
Outgoing(p) == [to |-> dest[p], packet |-> hand[p], num |-> num[p]]

Entered == air \cup {Outgoing(p) : p \in {t \in Thread : pc[t] = "send"}}

Abstract == INSTANCE OrderedDelivery WITH Hand <- RxThread, numbered <- Entered

(* Whatever threads share the sending, and whatever the network loses,     *)
(* repeats and reorders: a destination takes packets in the order of their *)
(* numbers, and hence once, until it forgets the source.  Its host gets    *)
(* what was taken, and only packets that its receive threads hold at the   *)
(* same time can change places.  It holds for at most SeqMod \div 2        *)
(* packets; with more, a late copy counts as newer.                        *)
IsOrderedDelivery == Abstract!Spec

(* A packet that waits is sent, or destroyed, or its discovery has failed. *)
PacketsMoveOn ==
    \A d \in Dest, n \in Packet :
        n \in Waiting(d) ~> n \notin Waiting(d) \/ discovery[d] = "failed"
=============================================================================

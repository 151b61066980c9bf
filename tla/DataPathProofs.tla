--------------------------- MODULE DataPathProofs ---------------------------
(* Proofs about DataPath, for any destinations and receive threads, any    *)
(* limit of the buffer and any number of packets and routes.               *)
EXTENDS DataPath, FiniteSetTheorems, TLAPS

(* The assumptions on the constants, as one fact to cite. *)
LEMMA ConstantFacts ==
    /\ Broadcast \notin Dest
    /\ SysThread \notin RxThread
    /\ SysThread \in Thread /\ RxThread \subseteq Thread
    /\ FIFO_BUFFER_MAX_ENTRY_SIZE \in Nat /\ FIFO_BUFFER_MAX_ENTRY_SIZE > 0
    /\ SeqMod \in Nat /\ SeqMod > 0
    /\ MaxPackets \in Nat /\ MaxRoutes \in Nat
BY DataPathAssumption DEF Thread

(* The number after the last is in range again. *)
LEMMA NextNumberType ==
    ASSUME data_seq \in Number
    PROVE  NextNumber \in Number
BY ConstantFacts DEF NextNumber, Number

(* Pushing keeps the list of a destination within its limit. *)
LEMMA PushedType ==
    ASSUME NEW q \in Seq(Packet), Len(q) <= FIFO_BUFFER_MAX_ENTRY_SIZE,
           NEW n \in Packet
    PROVE  /\ Pushed(q, n) \in Seq(Packet)
           /\ Len(Pushed(q, n)) <= FIFO_BUFFER_MAX_ENTRY_SIZE
<1>1. /\ Append(q, n) \in Seq(Packet)
      /\ Len(Append(q, n)) = Len(q) + 1
  OBVIOUS
<1>2. Len(q) \in Nat
  OBVIOUS
<1>3. CASE Len(q) < FIFO_BUFFER_MAX_ENTRY_SIZE
  BY <1>1, <1>2, <1>3, ConstantFacts DEF Pushed
<1>4. CASE ~(Len(q) < FIFO_BUFFER_MAX_ENTRY_SIZE)
  <2>1. Append(q, n) # <<>>
    BY <1>1, <1>2
  <2>2. /\ Tail(Append(q, n)) \in Seq(Packet)
        /\ Len(Tail(Append(q, n))) = Len(q)
    BY <1>1, <1>2, <2>1
  <2> QED BY <1>4, <2>2 DEF Pushed
<1> QED BY <1>3, <1>4

(* Popping keeps it there, and what is popped is a packet. *)
LEMMA PoppedType ==
    ASSUME NEW q \in Seq(Packet), q # <<>>
    PROVE  /\ Head(q) \in Packet
           /\ Popped(q) \in Seq(Packet)
           /\ Len(Popped(q)) <= Len(q)
BY DEF Popped

(* What After and AfterSend can yield. *)
LEMMA AfterType ==
    /\ After("learn") = "cancel" /\ After("cancel") = "pop" /\ After("flush") = "idle"
    /\ AfterSend(SysThread) = "idle"
    /\ \A p \in RxThread : AfterSend(p) = "pop"
BY ConstantFacts DEF After, AfterSend

-----------------------------------------------------------------------------
(* TypeOK is inductive with the packets that threads hold: a thread that   *)
(* is about to push or send a packet has one.                              *)
HandsFull == \A p \in Thread : pc[p] \in {"push", "draw", "send"} => hand[p] \in Packet

TInv == TypeOK /\ HandsFull

(* It holds initially. *)
LEMMA TypeInit == Init => TInv
BY ConstantFacts DEF Init, TInv, TypeOK, HandsFull, SysStates, RxStates,
   Number, NoPacket, NoNumber, Thread

(* The TUN thread preserves it. *)
LEMMA SysTypeStep ==
    ASSUME TInv, (\E d \in Dest \cup {Broadcast} : HostSends(d)) \/ PushPacket \/ SendRreq
    PROVE  TInv'
<1>1. ASSUME NEW d \in Dest \cup {Broadcast}, HostSends(d) PROVE TInv'
  <2>1. made + 1 \in Packet /\ made + 1 \in 0..MaxPackets
    BY <1>1, ConstantFacts DEF HostSends, Packet, TInv, TypeOK
  <2>2. d \in Dest \/ d \in route \cup {Broadcast}
    BY <1>1
  <2>3. TypeOK'
    BY <1>1, <2>1, <2>2, ConstantFacts
    DEF HostSends, NeedsRoute, Goto, TInv, TypeOK, receiver, SysStates, RxStates
  <2> QED BY <1>1, <2>1, <2>3 DEF HostSends, Goto, TInv, TypeOK, HandsFull
<1>2. CASE PushPacket
  <2> DEFINE d == dest[SysThread]
  <2>1. d \in Dest /\ hand[SysThread] \in Packet
    BY <1>2, ConstantFacts DEF PushPacket, TInv, TypeOK, HandsFull
  <2>2. /\ Pushed(buffer[d], hand[SysThread]) \in Seq(Packet)
        /\ Len(Pushed(buffer[d], hand[SysThread])) <= FIFO_BUFFER_MAX_ENTRY_SIZE
    BY <2>1, PushedType DEF TInv, TypeOK
  <2>3. TypeOK'
    BY <1>2, <2>1, <2>2, ConstantFacts
    DEF PushPacket, Goto, TInv, TypeOK, receiver, SysStates, RxStates
  <2> QED BY <1>2, <2>3 DEF PushPacket, Goto, TInv, TypeOK, HandsFull
<1>3. CASE SendRreq
  BY <1>3, ConstantFacts
  DEF SendRreq, Discover, Goto, TInv, TypeOK, HandsFull, receiver, SysStates, RxStates
<1> QED BY <1>1, <1>2, <1>3

(* The steps that only a receive thread takes preserve it. *)
LEMMA RxTypeStep ==
    ASSUME TInv, NEW p \in RxThread,
           (\E d \in Dest : LearnRoute(p, d)) \/ DeleteSeries(p)
             \/ PopPacket(p) \/ PopNothing(p)
    PROVE  TInv'
<1>0. p \in Thread /\ p # SysThread
  BY ConstantFacts
<1>1. ASSUME NEW d \in Dest, LearnRoute(p, d) PROVE TInv'
  BY <1>0, <1>1, ConstantFacts, AfterType
  DEF LearnRoute, Goto, TInv, TypeOK, HandsFull, receiver, SysStates, RxStates
<1>2. CASE DeleteSeries(p)
  BY <1>0, <1>2, ConstantFacts, AfterType
  DEF DeleteSeries, Goto, TInv, TypeOK, HandsFull, receiver, SysStates, RxStates
<1>3. CASE PopPacket(p)
  <2> DEFINE q == buffer[dest[p]]
  <2>1. dest[p] \in Dest
    BY <1>0, <1>3 DEF PopPacket, TInv, TypeOK
  <2>2. q \in Seq(Packet) /\ q # <<>> /\ Len(q) <= FIFO_BUFFER_MAX_ENTRY_SIZE
    BY <1>3, <2>1 DEF PopPacket, TInv, TypeOK
  <2>3. /\ Head(q) \in Packet /\ Popped(q) \in Seq(Packet)
        /\ Len(Popped(q)) <= FIFO_BUFFER_MAX_ENTRY_SIZE
    <3>1. Len(q) \in Nat /\ Len(Popped(q)) \in Nat
      BY <2>2, PoppedType
    <3> QED BY <2>2, <3>1, PoppedType, ConstantFacts
  <2>4. TypeOK'
    BY <1>0, <1>3, <2>1, <2>3, ConstantFacts
    DEF PopPacket, Goto, TInv, TypeOK, receiver, SysStates, RxStates
  <2> QED BY <1>0, <1>3, <2>3, <2>4 DEF PopPacket, Goto, TInv, TypeOK, HandsFull
<1>4. CASE PopNothing(p)
  BY <1>0, <1>4, ConstantFacts, AfterType
  DEF PopNothing, Goto, TInv, TypeOK, HandsFull, receiver, SysStates, RxStates
<1> QED BY <1>1, <1>2, <1>3, <1>4

(* Numbering and sending a packet preserve it. *)
LEMMA SendTypeStep ==
    ASSUME TInv, NEW p \in Thread, DrawNumber(p) \/ Send(p)
    PROVE  TInv'
<1>1. CASE DrawNumber(p)
  BY <1>1, ConstantFacts, NextNumberType
  DEF DrawNumber, Goto, TInv, TypeOK, HandsFull, receiver, SysStates, RxStates, Number
<1>2. CASE Send(p)
  <2> DEFINE m == [to |-> dest[p], packet |-> hand[p], num |-> num[p]]
  <2>1. m \in Message
    BY <1>2 DEF Send, TInv, TypeOK, HandsFull, Message
  <2>2. air' = air \cup {m}
    BY <1>2 DEF Send
  <2>3. air' \subseteq Message
    BY <2>1, <2>2 DEF TInv, TypeOK
  <2>4. p \in RxThread \/ p = SysThread
    BY DEF Thread
  <2>5. /\ pc' \in [Thread -> SysStates \cup RxStates]
        /\ pc'[SysThread] \in SysStates
        /\ \A t \in RxThread : pc'[t] \in RxStates
    BY <1>2, <2>4, AfterType, ConstantFacts
    DEF Send, Goto, TInv, TypeOK, SysStates, RxStates
  <2>6. hand' \in [Thread -> Packet \cup {NoPacket}] /\ num' \in [Thread -> Number]
    BY <1>2, ConstantFacts DEF Send, TInv, TypeOK, Number
  <2>7. /\ pc'[SysThread] \in {"push", "rreq"} => dest'[SysThread] \in Dest
        /\ \A t \in RxThread : pc'[t] # "idle" => dest'[t] \in Dest
    BY <1>2, <2>4, AfterType, ConstantFacts DEF Send, Goto, TInv, TypeOK
  <2>8. HandsFull'
    BY <1>2, <2>4, AfterType, ConstantFacts DEF Send, Goto, TInv, TypeOK, HandsFull
  <2>9. TypeOK'
    BY <1>2, <2>3, <2>5, <2>6, <2>7 DEF Send, TInv, TypeOK, receiver
  <2> QED BY <2>8, <2>9 DEF TInv
<1> QED BY <1>1, <1>2

(* Routes, discoveries and purges preserve it. *)
LEMMA OtherTypeStep ==
    ASSUME TInv, NEW d \in Dest,
           RouteByOthers(d) \/ LoseRoute(d) \/ GiveUp(d) \/ Rediscover(d) \/ PurgePackets(d)
    PROVE  TInv'
<1>1. CASE RouteByOthers(d)
  BY <1>1, ConstantFacts DEF RouteByOthers, threads, receiver, TInv, TypeOK, HandsFull
<1>2. CASE LoseRoute(d)
  BY <1>2 DEF LoseRoute, threads, receiver, TInv, TypeOK, HandsFull
<1>3. CASE GiveUp(d)
  BY <1>3 DEF GiveUp, threads, receiver, TInv, TypeOK, HandsFull
<1>4. CASE Rediscover(d)
  BY <1>4 DEF Rediscover, Discover, threads, receiver, TInv, TypeOK, HandsFull
<1>5. CASE PurgePackets(d)
  <2>1. <<>> \in Seq(Packet) /\ Len(<<>>) <= FIFO_BUFFER_MAX_ENTRY_SIZE
    BY ConstantFacts
  <2> QED BY <1>5, <2>1 DEF PurgePackets, threads, receiver, TInv, TypeOK, HandsFull
<1> QED BY <1>1, <1>2, <1>3, <1>4, <1>5

(* The destination preserves it. *)
AtDest(r) ==
    \/ \E x \in RxThread : SysSend(r, x) \/ \E m \in air : Receive(r, x, m)
    \/ DsTimeout(r)

LEMMA ReceiveTypeStep ==
    ASSUME TInv, NEW r \in Dest, AtDest(r)
    PROVE  TInv'
<1>1. UNCHANGED <<route, buffer, discovery, threads, routes>>
  BY DEF AtDest, Receive, LocalUnicast, ForwardBroadcast, Capture, SysSend, DsTimeout
<1>2. /\ entry' \in [Dest -> Number \cup {NoNumber}]
      /\ holds' \in [Dest -> [RxThread -> Packet \cup {NoPacket}]]
      /\ got' \in [Dest -> SUBSET Packet] /\ again' \in [Dest -> SUBSET Packet]
      /\ taken' \in [Dest -> SUBSET Packet] /\ forgot' \in [Dest -> SUBSET Packet]
  <2>1. ASSUME NEW x \in RxThread, NEW m \in air, Receive(r, x, m) PROVE <1>2!:
    <3>1. m.packet \in Packet /\ m.num \in Number
      BY DEF TInv, TypeOK, Message
    <3>2. Capture(r, x, m)
      BY <2>1 DEF Receive, LocalUnicast, ForwardBroadcast
    <3> QED BY <3>1, <3>2 DEF Capture, TInv, TypeOK
  <2>2. ASSUME NEW x \in RxThread, SysSend(r, x) PROVE <1>2!:
    <3>1. holds[r][x] \in Packet
      BY <2>2 DEF SysSend, TInv, TypeOK
    <3> QED BY <2>2, <3>1 DEF SysSend, TInv, TypeOK
  <2>3. CASE DsTimeout(r)
    BY <2>3 DEF DsTimeout, TInv, TypeOK
  <2> QED BY <2>1, <2>2, <2>3 DEF AtDest
<1> QED BY <1>1, <1>2 DEF threads, TInv, TypeOK, HandsFull

(* Every step preserves it. *)
LEMMA TypeStep == TInv /\ [Next]_vars => TInv'
<1> SUFFICES ASSUME TInv, [Next]_vars PROVE TInv'
  OBVIOUS
<1>1. CASE UNCHANGED vars
  BY <1>1 DEF vars, TInv, TypeOK, HandsFull
<1>2. CASE Next
  BY <1>2, SysTypeStep, RxTypeStep, SendTypeStep, OtherTypeStep, ReceiveTypeStep
  DEF Next, AtDest
<1> QED BY <1>1, <1>2

(* The state has its type: in particular no list of waiting packets grows  *)
(* beyond its limit, and every message sent carries a packet and a number. *)
THEOREM DataTypeCorrect == Spec => []TypeOK
<1>1. TInv => TypeOK
  BY DEF TInv
<1> QED BY TypeInit, TypeStep, <1>1, PTL DEF Spec

-----------------------------------------------------------------------------
(* Each kind of step leaves somebody to see to the packets that wait.      *)

(* First those of the TUN thread.                                          *)
LEMMA SysAwaitedStep ==
    ASSUME TypeOK, BufferedIsAwaited,
           (\E d \in Dest \cup {Broadcast} : HostSends(d)) \/ PushPacket \/ SendRreq
    PROVE  BufferedIsAwaited'
<1>1. ASSUME NEW d \in Dest \cup {Broadcast}, HostSends(d) PROVE BufferedIsAwaited'
  BY <1>1, ConstantFacts
  DEF HostSends, Goto, TypeOK, BufferedIsAwaited, Awaited, Flushing
(* The packet pushed is awaited by the TUN thread, which is to send a RREQ. *)
<1>2. CASE PushPacket
  BY <1>2, ConstantFacts DEF PushPacket, Goto, TypeOK, BufferedIsAwaited, Awaited, Flushing
(* When it has done so a discovery runs, its own or an older one.          *)
<1>3. CASE SendRreq
  <2>1. discovery'[dest[SysThread]] = "running"
    BY <1>3, ConstantFacts DEF SendRreq, Discover, RreqNeeded, TypeOK
  <2>2. \A e \in Dest : e # dest[SysThread] => discovery'[e] = discovery[e]
    BY <1>3 DEF SendRreq, Discover, TypeOK
  <2>3. buffer' = buffer /\ dest' = dest /\ \A p \in RxThread : pc'[p] = pc[p]
    BY <1>3, ConstantFacts DEF SendRreq, Goto, TypeOK
  <2> SUFFICES ASSUME NEW e \in Dest, buffer'[e] # <<>> PROVE Awaited(e)'
    BY DEF BufferedIsAwaited
  <2> QED BY <2>1, <2>2, <2>3 DEF BufferedIsAwaited, Awaited, Flushing
<1> QED BY <1>1, <1>2, <1>3

(* The same for the steps of the receive threads. *)
LEMMA RxAwaitedStep ==
    ASSUME TypeOK, BufferedIsAwaited, NEW p \in RxThread,
           (\E d \in Dest : LearnRoute(p, d)) \/ DeleteSeries(p)
             \/ PopPacket(p) \/ PopNothing(p)
    PROVE  BufferedIsAwaited'
<1>0. p \in Thread /\ p # SysThread
  BY ConstantFacts
<1>1. ASSUME NEW d \in Dest, LearnRoute(p, d) PROVE BufferedIsAwaited'
  <2>1. /\ UNCHANGED <<buffer, discovery>> /\ pc[p] = "idle"
        /\ \A t \in Thread : t # p => pc'[t] = pc[t] /\ dest'[t] = dest[t]
    BY <1>0, <1>1 DEF LearnRoute, Goto, TypeOK
  <2> QED BY <1>0, <2>1, ConstantFacts DEF BufferedIsAwaited, Awaited, Flushing
(* Whoever cancels the discovery flushes the buffer next.                  *)
<1>2. CASE DeleteSeries(p)
  <2>1. Flushing(p, dest[p])'
    BY <1>0, <1>2, AfterType DEF DeleteSeries, Goto, TypeOK, Flushing
  <2>2. \A e \in Dest : e # dest[p] => discovery'[e] = discovery[e]
    BY <1>2 DEF DeleteSeries, TypeOK
  <2>3. /\ buffer' = buffer /\ dest' = dest
        /\ \A t \in Thread : t # p => pc'[t] = pc[t]
    BY <1>2 DEF DeleteSeries, Goto, TypeOK
  <2>4. pc[p] = "cancel"
    BY <1>2 DEF DeleteSeries
  <2> SUFFICES ASSUME NEW e \in Dest, buffer'[e] # <<>> PROVE Awaited(e)'
    BY DEF BufferedIsAwaited
  <2>5. CASE e = dest[p]
    BY <2>1, <2>3, <2>5 DEF Awaited, Flushing
  <2>6. CASE e # dest[p]
    BY <1>0, <2>2, <2>3, <2>4, <2>6, ConstantFacts DEF BufferedIsAwaited, Awaited, Flushing
  <2> QED BY <2>5, <2>6
<1>3. CASE PopPacket(p)
  <2>1. /\ \A e \in Dest : e # dest[p] => buffer'[e] = buffer[e]
        /\ discovery' = discovery /\ dest' = dest
        /\ \A t \in Thread : t # p => pc'[t] = pc[t]
        /\ pc'[p] = "draw"
    BY <1>3, <1>0 DEF PopPacket, Goto, TypeOK
  <2> QED BY <1>0, <2>1, ConstantFacts DEF BufferedIsAwaited, Awaited, Flushing
(* Whoever stops flushing has found the buffer empty.                      *)
<1>4. CASE PopNothing(p)
  <2>1. /\ buffer[dest[p]] = <<>> /\ UNCHANGED <<buffer, discovery, dest>>
        /\ \A t \in Thread : t # p => pc'[t] = pc[t]
    BY <1>4, <1>0 DEF PopNothing, Goto, TypeOK
  <2> QED BY <1>0, <2>1, ConstantFacts DEF BufferedIsAwaited, Awaited, Flushing
<1> QED BY <1>1, <1>2, <1>3, <1>4

(* The same for all other steps. *)
LEMMA OtherAwaitedStep ==
    ASSUME TypeOK, BufferedIsAwaited, Next,
           ~((\E d \in Dest \cup {Broadcast} : HostSends(d)) \/ PushPacket \/ SendRreq),
           ~\E p \in RxThread : (\E d \in Dest : LearnRoute(p, d)) \/ DeleteSeries(p)
                                   \/ PopPacket(p) \/ PopNothing(p)
    PROVE  BufferedIsAwaited'
<1>1. ASSUME NEW p \in Thread, DrawNumber(p) PROVE BufferedIsAwaited'
  <2>1. /\ UNCHANGED <<buffer, discovery, dest>> /\ pc[p] = "draw" /\ pc'[p] = "send"
        /\ \A t \in Thread : t # p => pc'[t] = pc[t]
    BY <1>1 DEF DrawNumber, Goto, TypeOK
  <2> QED BY <2>1, ConstantFacts DEF BufferedIsAwaited, Awaited, Flushing
(* A receive thread that has sent a packet looks for the next one.         *)
<1>2. ASSUME NEW p \in Thread, Send(p) PROVE BufferedIsAwaited'
  <2>1. /\ UNCHANGED <<buffer, discovery, dest>> /\ pc[p] = "send"
        /\ p \in RxThread => pc'[p] = "pop"
        /\ \A t \in Thread : t # p => pc'[t] = pc[t]
    BY <1>2, AfterType DEF Send, Goto, TypeOK
  <2> QED BY <2>1, ConstantFacts DEF BufferedIsAwaited, Awaited, Flushing
<1>3. ASSUME NEW d \in Dest, RouteByOthers(d) \/ LoseRoute(d) PROVE BufferedIsAwaited'
  BY <1>3 DEF RouteByOthers, LoseRoute, threads, BufferedIsAwaited, Awaited, Flushing
<1>4. ASSUME NEW d \in Dest, GiveUp(d) \/ Rediscover(d) PROVE BufferedIsAwaited'
  <2>1. /\ discovery'[d] \in {"running", "failed"}
        /\ \A e \in Dest : e # d => discovery'[e] = discovery[e]
    BY <1>4 DEF GiveUp, Rediscover, Discover, RreqNeeded, TypeOK
  <2>2. UNCHANGED <<buffer, pc, dest>>
    BY <1>4 DEF GiveUp, Rediscover, threads
  <2> QED BY <2>1, <2>2 DEF BufferedIsAwaited, Awaited, Flushing
<1>5. ASSUME NEW d \in Dest, PurgePackets(d) PROVE BufferedIsAwaited'
  BY <1>5 DEF PurgePackets, threads, TypeOK, BufferedIsAwaited, Awaited, Flushing
<1>6. ASSUME NEW r \in Dest, AtDest(r) PROVE BufferedIsAwaited'
  <2>1. UNCHANGED <<buffer, discovery, pc, dest>>
    BY <1>6 DEF AtDest, Receive, LocalUnicast, ForwardBroadcast, Capture, SysSend,
                DsTimeout, threads
  <2> QED BY <2>1 DEF BufferedIsAwaited, Awaited, Flushing
<1> QED BY <1>1, <1>2, <1>3, <1>4, <1>5, <1>6 DEF Next, AtDest

(* No packet is forgotten in the buffer, in whatever order the TUN thread  *)
(* pushes and requests while receive threads cancel and flush.             *)
THEOREM NoPacketIsForgotten == Spec => []BufferedIsAwaited
<1>1. Init => BufferedIsAwaited
  BY DEF Init, BufferedIsAwaited
<1>2. TypeOK /\ BufferedIsAwaited /\ [Next]_vars => BufferedIsAwaited'
  <2> SUFFICES ASSUME TypeOK, BufferedIsAwaited, [Next]_vars PROVE BufferedIsAwaited'
    OBVIOUS
  <2>1. CASE UNCHANGED vars
    BY <2>1 DEF vars, BufferedIsAwaited, Awaited, Flushing
  <2>2. CASE Next
    BY <2>2, SysAwaitedStep, RxAwaitedStep, OtherAwaitedStep
  <2> QED BY <2>1, <2>2
<1> QED BY DataTypeCorrect, <1>1, <1>2, PTL DEF Spec

-----------------------------------------------------------------------------
(* What the two list operations do to the packets of a list. *)
Elems(q)  == {q[i] : i \in DOMAIN q}
Single(q) == \A i, j \in DOMAIN q : i # j => q[i] # q[j]

LEMMA EmptyOnce == Elems(<<>>) = {} /\ Single(<<>>)
<1>1. DOMAIN <<>> = {}
  OBVIOUS
<1> QED BY <1>1 DEF Elems, Single

LEMMA AppendOnce ==
    ASSUME NEW q \in Seq(Packet), NEW n \in Packet, Single(q), n \notin Elems(q)
    PROVE  /\ Single(Append(q, n))
           /\ Elems(Append(q, n)) = Elems(q) \cup {n}
<1> DEFINE s == Append(q, n)
<1>1. /\ Len(q) \in Nat /\ DOMAIN q = 1..Len(q) /\ DOMAIN s = 1..(Len(q) + 1)
      /\ \A i \in 1..Len(q) : s[i] = q[i]
      /\ s[Len(q) + 1] = n
  OBVIOUS
<1> HIDE DEF s
<1>2. \A i \in DOMAIN s : i \in DOMAIN q \/ i = Len(q) + 1
  BY <1>1
<1>3. Single(s)
  BY <1>1, <1>2 DEF Single, Elems
<1>4. Elems(s) = Elems(q) \cup {n}
  <2>1. Elems(s) \subseteq Elems(q) \cup {n}
    BY <1>1, <1>2 DEF Elems
  <2>2. Elems(q) \subseteq Elems(s) /\ n \in Elems(s)
    BY <1>1 DEF Elems
  <2> QED BY <2>1, <2>2
<1> QED BY <1>3, <1>4 DEF s

LEMMA TailOnce ==
    ASSUME NEW q \in Seq(Packet), q # <<>>, Single(q)
    PROVE  /\ Single(Tail(q)) /\ Elems(Tail(q)) \subseteq Elems(q)
           /\ Head(q) \in Elems(q) /\ Head(q) \notin Elems(Tail(q))
<1> DEFINE s == Tail(q)
<1>1. /\ Len(q) \in Nat \ {0} /\ DOMAIN q = 1..Len(q) /\ DOMAIN s = 1..(Len(q) - 1)
      /\ \A i \in 1..(Len(q) - 1) : s[i] = q[i + 1]
      /\ Head(q) = q[1]
  OBVIOUS
<1> HIDE DEF s
<1>2. \A i \in DOMAIN s : i + 1 \in DOMAIN q /\ s[i] = q[i + 1] /\ i + 1 # 1
  BY <1>1
<1>3. Single(s)
  <2> SUFFICES ASSUME NEW i \in DOMAIN s, NEW j \in DOMAIN s, i # j PROVE s[i] # s[j]
    BY DEF Single
  <2>1. i + 1 # j + 1
    BY <1>1
  <2> QED BY <1>2, <2>1 DEF Single
<1>4. Elems(s) \subseteq Elems(q)
  BY <1>2 DEF Elems
<1>5. 1 \in DOMAIN q
  BY <1>1
<1>6. Head(q) \in Elems(q) /\ Head(q) \notin Elems(s)
  BY <1>1, <1>2, <1>5 DEF Elems, Single
<1> QED BY <1>3, <1>4, <1>6 DEF s

LEMMA PushedOnce ==
    ASSUME NEW q \in Seq(Packet), NEW n \in Packet, Single(q), n \notin Elems(q)
    PROVE  /\ Single(Pushed(q, n))
           /\ Elems(Pushed(q, n)) \subseteq Elems(q) \cup {n}
<1>1. /\ Single(Append(q, n)) /\ Elems(Append(q, n)) = Elems(q) \cup {n}
  BY AppendOnce
<1>2. Append(q, n) \in Seq(Packet) /\ Append(q, n) # <<>>
  <2>1. Append(q, n) \in Seq(Packet) /\ Len(Append(q, n)) = Len(q) + 1 /\ Len(q) \in Nat
    OBVIOUS
  <2> QED BY <2>1
<1>3. /\ Single(Tail(Append(q, n)))
      /\ Elems(Tail(Append(q, n))) \subseteq Elems(q) \cup {n}
  BY <1>1, <1>2, TailOnce
<1> QED BY <1>1, <1>3 DEF Pushed

-----------------------------------------------------------------------------
(* The places of packets: only packets made are anywhere, and a thread     *)
(* with nothing to push or send holds none.                                *)
Placed ==
    /\ \A p \in Thread : hand[p] # NoPacket => hand[p] \in 1..made
    /\ \A d \in Dest : Elems(buffer[d]) \subseteq 1..made
    /\ \A m \in air : m.packet \in 1..made
    /\ \A p \in Thread : pc[p] \notin {"push", "draw", "send"} => hand[p] = NoPacket

(* PacketsAreOnce in terms of the elements of lists. *)
Once ==
    /\ \A p, q \in Thread : p # q /\ hand[p] # NoPacket => hand[p] # hand[q]
    /\ \A d \in Dest : Single(buffer[d])
    /\ \A d, e \in Dest : d # e => Elems(buffer[d]) \cap Elems(buffer[e]) = {}
    /\ \A p \in Thread, d \in Dest : hand[p] \notin Elems(buffer[d])
    /\ \A m \in air :
         /\ \A p \in Thread : hand[p] # m.packet
         /\ \A d \in Dest : m.packet \notin Elems(buffer[d])
         /\ \A n \in air : m.packet = n.packet => m = n

OnceInv == TInv /\ Once /\ Placed

(* The same packets in the same places. *)
LEMMA SamePlaces ==
    ASSUME OnceInv, UNCHANGED <<hand, buffer, air, made>>,
           \A p \in Thread :
              pc'[p] \in {"push", "draw", "send"} \/ pc'[p] = pc[p] \/ hand[p] = NoPacket
    PROVE  Once' /\ Placed'
BY DEF OnceInv, Once, Placed

LEMMA SysPlaces ==
    ASSUME OnceInv, (\E d \in Dest \cup {Broadcast} : HostSends(d)) \/ PushPacket \/ SendRreq
    PROVE  Once' /\ Placed'
<1>1. ASSUME NEW d \in Dest \cup {Broadcast}, HostSends(d) PROVE Once' /\ Placed'
  <2>1. /\ UNCHANGED <<buffer, air>> /\ made \in Nat /\ made' = made + 1
        /\ SysThread \in Thread /\ hand[SysThread] = NoPacket
        /\ \A p \in Thread : p # SysThread => pc'[p] = pc[p] /\ hand'[p] = hand[p]
        /\ hand'[SysThread] = made + 1
    <3>1. /\ pc[SysThread] = "idle" /\ made' = made + 1
          /\ hand' = [hand EXCEPT ![SysThread] = made + 1]
          /\ UNCHANGED <<buffer, air>>
          /\ \E s : pc' = [pc EXCEPT ![SysThread] = s]
      BY <1>1 DEF HostSends, Goto
    <3>2. made \in Nat /\ SysThread \in Thread
      BY ConstantFacts DEF OnceInv, TInv, TypeOK
    <3>3. hand[SysThread] = NoPacket
      BY <3>1, <3>2 DEF OnceInv, Placed
    <3> QED BY <3>1, <3>2, <3>3 DEF OnceInv, TInv, TypeOK
  <2>a. pc'[SysThread] \in {"draw", "push"}
    BY <1>1, ConstantFacts DEF HostSends, Goto, OnceInv, TInv, TypeOK
  <2>2. /\ \A e \in Dest : Elems(buffer'[e]) = Elems(buffer[e])
        /\ 1..made \subseteq 1..made' /\ made + 1 \in 1..made' /\ made + 1 \notin 1..made
    BY <2>1
  <2>3. Placed'
    BY <2>1, <2>a, <2>2 DEF OnceInv, Placed
  <2>b. \A p \in Thread : p # SysThread => hand'[p] # made + 1
    BY <2>1, <2>2 DEF OnceInv, Placed, NoPacket
  <2>c. \A p \in Thread, e \in Dest : hand'[p] \notin Elems(buffer'[e])
    BY <2>1, <2>2 DEF OnceInv, Placed, Once
  <2>d. \A m \in air, p \in Thread : hand'[p] # m.packet
    BY <2>1, <2>2 DEF OnceInv, Placed, Once
  <2>4. Once'
    BY <2>1, <2>2, <2>b, <2>c, <2>d DEF OnceInv, Once
  <2> QED BY <2>3, <2>4
<1>2. CASE PushPacket
  <2> DEFINE d == dest[SysThread]
             n == hand[SysThread]
  <2>1. /\ d \in Dest /\ n \in Packet /\ n # NoPacket /\ SysThread \in Thread
        /\ buffer[d] \in Seq(Packet) /\ UNCHANGED <<air, made>>
        /\ buffer'[d] = Pushed(buffer[d], n)
        /\ \A e \in Dest : e # d => buffer'[e] = buffer[e]
        /\ hand'[SysThread] = NoPacket
        /\ \A p \in Thread : p # SysThread => pc'[p] = pc[p] /\ hand'[p] = hand[p]
    BY <1>2, ConstantFacts
    DEF PushPacket, Goto, OnceInv, TInv, TypeOK, HandsFull, NoPacket, Packet
  <2>2. /\ Single(buffer[d]) /\ n \notin Elems(buffer[d])
    BY <2>1 DEF OnceInv, Once, Single
  <2>3. Single(buffer'[d]) /\ Elems(buffer'[d]) \subseteq Elems(buffer[d]) \cup {n}
    BY <2>1, <2>2, PushedOnce
  <2>4. /\ Elems(buffer'[d]) \subseteq Elems(buffer[d]) \cup {n}
        /\ \A e \in Dest : e # d => Elems(buffer'[e]) = Elems(buffer[e])
    BY <2>1, <2>3
  <2>5. \A e \in Dest : NoPacket \notin Elems(buffer[e]) /\ NoPacket \notin Elems(buffer'[e])
    BY <2>1, <2>4 DEF OnceInv, Placed, NoPacket
  <2> HIDE DEF d, n
  <2>6. Placed'
    BY <2>1, <2>4 DEF OnceInv, Placed, n
  <2>7. \A e \in Dest : Single(buffer'[e])
    BY <2>1, <2>3 DEF OnceInv, Once, Single
  <2>8. \A p \in Thread : p # SysThread /\ hand[p] # NoPacket => hand[p] # n
    BY <2>1 DEF OnceInv, Once, n
  <2>9. \A e, f \in Dest : e # f => Elems(buffer'[e]) \cap Elems(buffer'[f]) = {}
    BY <2>1, <2>4 DEF OnceInv, Once, n
  <2>10. \A p \in Thread, e \in Dest : hand'[p] \notin Elems(buffer'[e])
    BY <2>1, <2>4, <2>5, <2>8 DEF OnceInv, Once, n
  <2>11. \A p, q \in Thread : p # q /\ hand'[p] # NoPacket => hand'[p] # hand'[q]
    BY <2>1 DEF OnceInv, Once
  <2>12. \A m \in air : /\ \A p \in Thread : hand'[p] # m.packet
                        /\ \A e \in Dest : m.packet \notin Elems(buffer'[e])
                        /\ \A o \in air : m.packet = o.packet => m = o
    BY <2>1, <2>4 DEF OnceInv, Placed, Once, NoPacket, n
  <2>13. air' = air
    BY <2>1
  <2> QED BY <2>6, <2>7, <2>9, <2>10, <2>11, <2>12, <2>13 DEF Once
<1>3. CASE SendRreq
  <2>1. /\ UNCHANGED <<hand, buffer, air, made>> /\ hand[SysThread] = NoPacket
        /\ \A p \in Thread : p # SysThread => pc'[p] = pc[p]
    BY <1>3, ConstantFacts DEF SendRreq, Goto, OnceInv, Placed, TInv, TypeOK
  <2> QED BY <2>1, SamePlaces
<1> QED BY <1>1, <1>2, <1>3

LEMMA PopPlaces ==
    ASSUME OnceInv, NEW p \in RxThread, PopPacket(p)
    PROVE  Once' /\ Placed'
<1> DEFINE d == dest[p]
           n == Head(buffer[d])
<1>1. /\ p \in Thread /\ d \in Dest /\ hand[p] = NoPacket
      /\ buffer[d] \in Seq(Packet) /\ buffer[d] # <<>> /\ UNCHANGED <<air, made>>
      /\ buffer'[d] = Tail(buffer[d])
      /\ \A e \in Dest : e # d => buffer'[e] = buffer[e]
      /\ hand'[p] = n /\ pc'[p] = "draw"
      /\ \A t \in Thread : t # p => pc'[t] = pc[t] /\ hand'[t] = hand[t]
  BY ConstantFacts DEF PopPacket, Popped, Goto, OnceInv, Placed, TInv, TypeOK
<1>2. Single(buffer[d])
  BY <1>1 DEF OnceInv, Once, Single
<1>3. /\ Single(buffer'[d]) /\ Elems(buffer'[d]) \subseteq Elems(buffer[d])
      /\ n \in Elems(buffer[d]) /\ n \notin Elems(buffer'[d])
  BY <1>1, <1>2, TailOnce
<1>4. /\ Elems(buffer'[d]) \subseteq Elems(buffer[d]) /\ n \in Elems(buffer[d]) /\ n \notin Elems(buffer'[d])
      /\ \A e \in Dest : e # d => Elems(buffer'[e]) = Elems(buffer[e])
  BY <1>1, <1>3
<1> HIDE DEF d, n
<1>5. Placed'
  BY <1>1, <1>4 DEF OnceInv, Placed
<1>6. \A e \in Dest : Single(buffer'[e])
  BY <1>1, <1>3 DEF OnceInv, Once
<1>7. \A e, f \in Dest : e # f => Elems(buffer'[e]) \cap Elems(buffer'[f]) = {}
  BY <1>1, <1>4 DEF OnceInv, Once
<1>8. \A t \in Thread, e \in Dest : hand'[t] \notin Elems(buffer'[e])
  BY <1>1, <1>4 DEF OnceInv, Once
<1>9. \A s, t \in Thread : s # t /\ hand'[s] # NoPacket => hand'[s] # hand'[t]
  BY <1>1, <1>4 DEF OnceInv, Once
<1>10. \A m \in air : /\ \A t \in Thread : hand'[t] # m.packet
                      /\ \A e \in Dest : m.packet \notin Elems(buffer'[e])
                      /\ \A o \in air : m.packet = o.packet => m = o
  BY <1>1, <1>4 DEF OnceInv, Once
<1>11. air' = air
  BY <1>1
<1> QED BY <1>5, <1>6, <1>7, <1>8, <1>9, <1>10, <1>11 DEF Once

LEMMA SendPlaces ==
    ASSUME OnceInv, NEW p \in Thread, Send(p)
    PROVE  Once' /\ Placed'
<1> DEFINE n == hand[p]
           msg == [to |-> dest[p], packet |-> n, num |-> num[p]]
<1>1. /\ n \in Packet /\ n # NoPacket /\ UNCHANGED <<buffer, made>>
      /\ hand'[p] = NoPacket
      /\ \A t \in Thread : t # p => pc'[t] = pc[t] /\ hand'[t] = hand[t]
      /\ air' = air \cup {msg} /\ msg.packet = n
  BY DEF Send, Goto, OnceInv, TInv, TypeOK, HandsFull, NoPacket, Packet
<1>2. \A e \in Dest : Elems(buffer'[e]) = Elems(buffer[e]) /\ NoPacket \notin Elems(buffer[e])
  BY <1>1 DEF OnceInv, Placed, NoPacket
<1> HIDE DEF n, msg
<1>3. Placed'
  BY <1>1, <1>2 DEF OnceInv, Placed, n
<1>4. \A e \in Dest : Single(buffer'[e])
  BY <1>1 DEF OnceInv, Once
<1>5. \A e, f \in Dest : e # f => Elems(buffer'[e]) \cap Elems(buffer'[f]) = {}
  BY <1>2 DEF OnceInv, Once
<1>6. \A t \in Thread, e \in Dest : hand'[t] \notin Elems(buffer'[e])
  BY <1>1, <1>2 DEF OnceInv, Once
<1>7. \A s, t \in Thread : s # t /\ hand'[s] # NoPacket => hand'[s] # hand'[t]
  BY <1>1 DEF OnceInv, Once
<1>8. \A t \in Thread : t # p => hand[t] # n
  BY <1>1 DEF OnceInv, Once, n
<1>9. \A m \in air' : /\ \A t \in Thread : hand'[t] # m.packet
                      /\ \A e \in Dest : m.packet \notin Elems(buffer'[e])
                      /\ \A o \in air' : m.packet = o.packet => m = o
  <2>1. \A m \in air : m.packet # n /\ m.packet # NoPacket
    BY <1>1 DEF OnceInv, Placed, Once, NoPacket, n
  <2>2. \A e \in Dest : n \notin Elems(buffer[e])
    BY DEF OnceInv, Once, n
  <2> QED BY <1>1, <1>2, <1>8, <2>1, <2>2 DEF OnceInv, Once
<1> QED BY <1>3, <1>4, <1>5, <1>6, <1>7, <1>9 DEF Once

LEMMA OncePlaces == OnceInv /\ [Next]_vars => Once' /\ Placed'
<1> SUFFICES ASSUME OnceInv, [Next]_vars PROVE Once' /\ Placed'
  OBVIOUS
<1>1. ASSUME NEW p \in RxThread,
             (\E d \in Dest : LearnRoute(p, d)) \/ DeleteSeries(p) \/ PopNothing(p)
      PROVE  Once' /\ Placed'
  <2>1. /\ UNCHANGED <<hand, buffer, air, made>> /\ p \in Thread
        /\ \A t \in Thread : t # p => pc'[t] = pc[t]
    BY <1>1, ConstantFacts DEF LearnRoute, DeleteSeries, PopNothing, Goto, OnceInv, TInv, TypeOK
  <2>2. pc[p] \notin {"push", "draw", "send"}
    BY <1>1 DEF LearnRoute, DeleteSeries, PopNothing
  <2> QED BY <2>1, <2>2, SamePlaces DEF OnceInv, Placed
<1>2. ASSUME NEW p \in Thread, DrawNumber(p) PROVE Once' /\ Placed'
  <2>1. /\ UNCHANGED <<hand, buffer, air, made>> /\ pc'[p] = "send"
        /\ \A t \in Thread : t # p => pc'[t] = pc[t]
    BY <1>2 DEF DrawNumber, Goto, OnceInv, TInv, TypeOK
  <2> QED BY <2>1, SamePlaces
<1>3. ASSUME NEW d \in Dest, RouteByOthers(d) \/ LoseRoute(d) \/ GiveUp(d) \/ Rediscover(d)
      PROVE  Once' /\ Placed'
  <2>1. UNCHANGED <<hand, buffer, air, made, pc>>
    BY <1>3 DEF RouteByOthers, LoseRoute, GiveUp, Rediscover, threads
  <2> QED BY <2>1, SamePlaces
<1>4. ASSUME NEW d \in Dest, PurgePackets(d) PROVE Once' /\ Placed'
  <2>1. /\ UNCHANGED <<hand, air, made, pc>> /\ buffer'[d] = <<>>
        /\ \A e \in Dest : e # d => buffer'[e] = buffer[e]
    BY <1>4 DEF PurgePackets, threads, OnceInv, TInv, TypeOK
  <2>2. /\ \A e \in Dest : Elems(buffer'[e]) \subseteq Elems(buffer[e])
        /\ Single(buffer'[d])
    BY <2>1, EmptyOnce
  <2>3. Placed'
    BY <2>1, <2>2 DEF OnceInv, Placed
  <2>4. Once'
    BY <2>1, <2>2 DEF OnceInv, Once
  <2> QED BY <2>3, <2>4
<1>5. ASSUME NEW r \in Dest, AtDest(r) PROVE Once' /\ Placed'
  <2>1. UNCHANGED <<hand, buffer, air, made, pc>>
    BY <1>5 DEF AtDest, Receive, LocalUnicast, ForwardBroadcast, Capture, SysSend,
                DsTimeout, threads
  <2> QED BY <2>1, SamePlaces
<1>6. CASE UNCHANGED vars
  BY <1>6, SamePlaces DEF vars
<1> QED BY <1>1, <1>2, <1>3, <1>4, <1>5, <1>6, SysPlaces, PopPlaces, SendPlaces
    DEF Next, AtDest

(* A packet is held, listed or sent in one place only and under one        *)
(* number, for any number of threads that empty the buffer.                *)
LEMMA OnceInit == Init => OnceInv
<1> SUFFICES ASSUME Init PROVE OnceInv
  OBVIOUS
<1>1. TInv
  BY TypeInit
<1>2. /\ \A p \in Thread : hand[p] = NoPacket
      /\ \A d \in Dest : buffer[d] = <<>>
      /\ air = {}
  BY DEF Init
<1>3. \A d \in Dest : Elems(buffer[d]) = {}
  BY <1>2, EmptyOnce
<1> QED BY <1>1, <1>2, <1>3, EmptyOnce DEF OnceInv, Once, Placed

THEOREM PacketsStayOnce == Spec => []PacketsAreOnce
<1>1. OnceInv /\ [Next]_vars => OnceInv'
  BY TypeStep, OncePlaces DEF OnceInv
<1>2. OnceInv => PacketsAreOnce
  BY DEF OnceInv, Once, PacketsAreOnce, Elems, Single, Waiting
<1> QED BY OnceInit, <1>1, <1>2, PTL DEF Spec

-----------------------------------------------------------------------------
(* As long as the packets take up no more than half of the numbers, the    *)
(* numbers drawn are 1..data_seq, one for each packet that has been        *)
(* numbered, and what a destination took is no newer than its entry.       *)
InSend == {p \in Thread : pc[p] = "send"}
Drawn  == {m.packet : m \in air} \cup {hand[p] : p \in InSend}

Numbered ==
    /\ Cardinality(Drawn) = data_seq
    /\ \A p \in InSend : num[p] \in 1..data_seq
    /\ \A m \in air : m.num \in 1..data_seq
    /\ \A r \in Dest : entry[r] \in 1..data_seq \/ entry[r] = NoNumber
    /\ \A r \in Dest : \A n \in taken[r] :
         entry[r] # NoNumber /\ \E m \in air : m.packet = n /\ m.num <= entry[r]

NumInv == OnceInv /\ (made <= SeqMod \div 2 => Numbered)

LEMMA HalfFact == SeqMod \div 2 \in Nat /\ SeqMod \div 2 < SeqMod
BY ConstantFacts

(* No more numbers are drawn than packets are made. *)
LEMMA DrawnIsMade ==
    ASSUME OnceInv
    PROVE  Drawn \subseteq 1..made /\ IsFiniteSet(Drawn) /\ made \in Nat
<1>1. made \in Nat
  BY ConstantFacts DEF OnceInv, TInv, TypeOK
<1>2. \A p \in InSend : hand[p] # NoPacket
  BY DEF InSend, OnceInv, TInv, HandsFull, Packet, NoPacket
<1>3. Drawn \subseteq 1..made
  BY <1>2 DEF Drawn, InSend, OnceInv, Placed
<1>4. IsFiniteSet(1..made)
  BY <1>1, FS_Interval
<1> QED BY <1>1, <1>3, <1>4, FS_Subset

LEMMA CountOfInterval ==
    ASSUME NEW n \in Nat, NEW S \in SUBSET (1..n)
    PROVE  IsFiniteSet(S) /\ Cardinality(S) \in Nat /\ Cardinality(S) <= n
<1>1. IsFiniteSet(1..n) /\ Cardinality(1..n) = n
  BY FS_Interval
<1> QED BY <1>1, FS_Subset, FS_CardinalityType

LEMMA NumInit == Init => NumInv
<1> SUFFICES ASSUME Init PROVE NumInv
  OBVIOUS
<1>1. air = {} /\ InSend = {} /\ data_seq = 0
  BY DEF Init, InSend
<1>2. \A r \in Dest : entry[r] = NoNumber /\ taken[r] = {}
  BY DEF Init
<1>3. Drawn = {}
  BY <1>1 DEF Drawn
<1>4. Cardinality(Drawn) = 0
  BY <1>3, FS_EmptySet
<1> QED BY <1>1, <1>2, <1>4, OnceInit DEF NumInv, Numbered

(* Nothing is numbered, sent or received. *)
LEMMA SameNumbers ==
    ASSUME Numbered, UNCHANGED <<air, data_seq, num, receiver>>,
           InSend' = InSend, \A p \in InSend : hand'[p] = hand[p]
    PROVE  Numbered'
<1>1. Drawn' = Drawn
  BY DEF Drawn
<1> QED BY <1>1 DEF Numbered, receiver

LEMMA DrawNumbers ==
    ASSUME OnceInv, OnceInv', Numbered, made <= SeqMod \div 2,
           NEW p \in Thread, DrawNumber(p)
    PROVE  Numbered'
<1>1. /\ pc[p] = "draw" /\ pc'[p] = "send" /\ num'[p] = NextNumber /\ data_seq' = NextNumber
      /\ \A t \in Thread : t # p => pc'[t] = pc[t] /\ num'[t] = num[t]
      /\ UNCHANGED <<hand, air, receiver, made>>
      /\ hand[p] # NoPacket /\ p \notin InSend
  BY DEF DrawNumber, Goto, OnceInv, TInv, TypeOK, HandsFull, InSend, Packet, NoPacket
<1>2. InSend' = InSend \cup {p}
  BY <1>1 DEF InSend
<1>3. Drawn' = Drawn \cup {hand[p]}
  BY <1>1, <1>2 DEF Drawn
<1>4. hand[p] \notin Drawn
  BY <1>1 DEF Drawn, InSend, OnceInv, Once
<1>5. Cardinality(Drawn') = data_seq + 1
  BY <1>3, <1>4, DrawnIsMade, FS_AddElement DEF Numbered
<1>6. Drawn' \subseteq 1..made /\ made \in Nat
  <2>1. hand[p] \in 1..made
    BY <1>1 DEF OnceInv, Placed
  <2> QED BY <1>3, <2>1, DrawnIsMade
<1>7. Cardinality(Drawn') <= made
  <2> DEFINE D == Drawn'
  <2>1. D \in SUBSET (1..made) /\ made \in Nat
    BY <1>6
  <2> HIDE DEF D
  <2>2. Cardinality(D) <= made
    BY <2>1, CountOfInterval
  <2> QED BY <2>2 DEF D
<1>8. data_seq \in Nat
  BY ConstantFacts DEF OnceInv, TInv, TypeOK, Number
<1>9. data_seq + 1 < SeqMod /\ SeqMod \in Nat \ {0}
  BY <1>5, <1>6, <1>7, <1>8, HalfFact, ConstantFacts
<1>10. NextNumber = data_seq + 1
  BY <1>8, <1>9 DEF NextNumber
<1>11. 1..data_seq \subseteq 1..data_seq' /\ data_seq' \in 1..data_seq'
  BY <1>1, <1>8, <1>10
<1>12. \A t \in InSend' : num'[t] \in 1..data_seq'
  BY <1>1, <1>2, <1>11 DEF Numbered, InSend
<1>13. Cardinality(Drawn') = data_seq'
  BY <1>1, <1>5, <1>10
<1> QED BY <1>1, <1>11, <1>12, <1>13 DEF Numbered, receiver

LEMMA SendNumbers ==
    ASSUME OnceInv, Numbered, NEW p \in Thread, Send(p)
    PROVE  Numbered'
<1> DEFINE m == [to |-> dest[p], packet |-> hand[p], num |-> num[p]]
<1>1. /\ p \in InSend /\ air' = air \cup {m} /\ UNCHANGED <<data_seq, receiver>>
      /\ m.packet = hand[p] /\ m.num = num[p]
      /\ pc'[p] # "send"
      /\ \A t \in Thread : t # p => pc'[t] = pc[t] /\ num'[t] = num[t] /\ hand'[t] = hand[t]
  BY AfterType DEF Send, Goto, AfterSend, OnceInv, TInv, TypeOK, InSend
<1> HIDE DEF m
<1>2. InSend' = InSend \ {p}
  BY <1>1 DEF InSend
<1>3. Drawn' = Drawn
  <2>1. {o.packet : o \in air'} = {o.packet : o \in air} \cup {hand[p]}
    BY <1>1
  <2>2. \A t \in InSend \ {p} : hand'[t] = hand[t]
    BY <1>1 DEF InSend
  <2>3. {hand[t] : t \in InSend} = {hand[p]} \cup {hand[t] : t \in InSend \ {p}}
    BY <1>1
  <2>4. {hand'[t] : t \in InSend'} = {hand[t] : t \in InSend \ {p}}
    BY <1>2, <2>2
  <2> QED BY <2>1, <2>3, <2>4 DEF Drawn
<1>4. \A t \in InSend' : num'[t] \in 1..data_seq'
  BY <1>1, <1>2 DEF Numbered, InSend
<1>5. \A o \in air' : o.num \in 1..data_seq'
  BY <1>1 DEF Numbered
<1>6. \A r \in Dest : \A n \in taken'[r] :
        entry'[r] # NoNumber /\ \E o \in air' : o.packet = n /\ o.num <= entry'[r]
  BY <1>1 DEF Numbered, receiver
<1> QED BY <1>1, <1>3, <1>4, <1>5, <1>6 DEF Numbered, receiver

(* A packet that is taken was not taken before, and is newer than all that *)
(* were.                                                                   *)
LEMMA NewerFacts ==
    ASSUME OnceInv, Numbered, made <= SeqMod \div 2,
           NEW r \in Dest, NEW x \in RxThread, NEW m \in air, Capture(r, x, m)
    PROVE  /\ m.num \in 1..data_seq /\ data_seq \in Nat /\ m.num # NoNumber
           /\ entry[r] = NoNumber \/ entry[r] < m.num
           /\ \A o \in air : o.packet \in taken[r] => o.num < m.num
<1>1. /\ data_seq \in Nat /\ made \in Nat /\ data_seq <= made
      /\ data_seq <= SeqMod \div 2 /\ data_seq < SeqMod
  <2>1. data_seq \in Nat /\ made \in Nat
    BY ConstantFacts DEF OnceInv, TInv, TypeOK, Number
  <2>2. data_seq <= made
    BY <2>1, DrawnIsMade, CountOfInterval DEF Numbered
  <2> QED BY <2>1, <2>2, HalfFact, ConstantFacts
<1>2. m.num \in 1..data_seq
  BY DEF Numbered
<1>3. m.num # NoNumber
  BY <1>1, <1>2 DEF NoNumber
<1>4. entry[r] = NoNumber \/ entry[r] < m.num
  <2>1. entry[r] \in 1..data_seq \/ entry[r] = NoNumber
    BY DEF Numbered
  <2>2. entry[r] = NoNumber \/ Newer(entry[r], m.num)
    BY DEF Capture
  <2> QED BY <1>1, <1>2, <2>1, <2>2, HalfFact DEF Newer
<1>5. ASSUME NEW o \in air, o.packet \in taken[r] PROVE o.num < m.num
  <2>1. PICK a \in air : a.packet = o.packet /\ a.num <= entry[r]
    BY <1>5 DEF Numbered
  <2>2. a = o
    BY <2>1 DEF OnceInv, Once
  <2>3. entry[r] # NoNumber /\ entry[r] \in 1..data_seq /\ a.num \in 1..data_seq
    BY <1>5 DEF Numbered
  <2> QED BY <1>1, <1>2, <1>4, <2>1, <2>2, <2>3
<1> QED BY <1>1, <1>2, <1>3, <1>4, <1>5

LEMMA ReceiveNumbers ==
    ASSUME OnceInv, Numbered, made <= SeqMod \div 2, NEW r \in Dest, AtDest(r)
    PROVE  Numbered'
<1>1. UNCHANGED <<air, data_seq, num, pc, hand, made>>
  BY DEF AtDest, Receive, LocalUnicast, ForwardBroadcast, Capture, SysSend, DsTimeout, threads
<1>2. Drawn' = Drawn /\ InSend' = InSend
  BY <1>1 DEF Drawn, InSend
<1>3. ASSUME NEW x \in RxThread, NEW m \in air, Capture(r, x, m) PROVE Numbered'
  <2>1. /\ entry'[r] = m.num /\ taken'[r] = taken[r] \cup {m.packet}
        /\ \A s \in Dest : s # r => entry'[s] = entry[s] /\ taken'[s] = taken[s]
    BY <1>3 DEF Capture, OnceInv, TInv, TypeOK
  <2>2. m.num # NoNumber /\ m.num \in 1..data_seq /\ data_seq \in Nat
    BY <1>3, NewerFacts
  <2>3. ASSUME NEW n \in taken'[r] PROVE \E o \in air : o.packet = n /\ o.num <= entry'[r]
    <3>1. CASE n = m.packet
      BY <2>1, <2>2, <3>1
    <3>2. CASE n \in taken[r]
      <4>1. PICK o \in air : o.packet = n
        BY <3>2 DEF Numbered
      <4>2. o.num < m.num
        BY <1>3, <3>2, <4>1, NewerFacts
      <4>3. o.num \in 1..data_seq
        BY DEF Numbered
      <4> QED BY <2>1, <2>2, <4>1, <4>2, <4>3
    <3> QED BY <2>1, <3>1, <3>2
  <2>4. \A s \in Dest : entry'[s] \in 1..data_seq' \/ entry'[s] = NoNumber
    BY <1>1, <2>1, <2>2 DEF Numbered
  <2>5. \A s \in Dest : \A n \in taken'[s] :
          entry'[s] # NoNumber /\ \E o \in air' : o.packet = n /\ o.num <= entry'[s]
    BY <1>1, <2>1, <2>2, <2>3 DEF Numbered
  <2> QED BY <1>1, <1>2, <2>4, <2>5 DEF Numbered
<1>4. ASSUME NEW x \in RxThread, SysSend(r, x) PROVE Numbered'
  BY <1>1, <1>2, <1>4 DEF SysSend, Numbered
<1>5. CASE DsTimeout(r)
  <2>1. /\ entry'[r] = NoNumber /\ taken'[r] = {}
        /\ \A s \in Dest : s # r => entry'[s] = entry[s] /\ taken'[s] = taken[s]
    BY <1>5 DEF DsTimeout, OnceInv, TInv, TypeOK
  <2> QED BY <1>1, <1>2, <2>1 DEF Numbered
<1> QED BY <1>3, <1>4, <1>5 DEF AtDest, Receive, LocalUnicast, ForwardBroadcast

LEMMA MadeGrows ==
    ASSUME made \in Nat, [Next]_vars
    PROVE  (made' = made \/ made' = made + 1) /\ made <= made'
<1>1. made' = made \/ made' = made + 1
  BY DEF Next, HostSends, PushPacket, SendRreq, LearnRoute, DeleteSeries, PopPacket,
           PopNothing, DrawNumber, Send, RouteByOthers, LoseRoute, GiveUp, Rediscover,
           PurgePackets, Receive, LocalUnicast, ForwardBroadcast, Capture, SysSend,
           DsTimeout, threads, vars
<1> QED BY <1>1

LEMMA NumStep == NumInv /\ [Next]_vars => NumInv'
<1> SUFFICES ASSUME NumInv, [Next]_vars PROVE NumInv'
  OBVIOUS
<1>1. OnceInv /\ OnceInv'
  BY TypeStep, OncePlaces DEF NumInv, OnceInv
<1> SUFFICES ASSUME made' <= SeqMod \div 2 PROVE Numbered'
  BY <1>1 DEF NumInv
<1>2. made \in Nat /\ (made' = made \/ made' = made + 1)
  <2>1. made \in Nat
    BY ConstantFacts DEF NumInv, OnceInv, TInv, TypeOK
  <2>2. made' = made \/ made' = made + 1
    BY <2>1, MadeGrows
  <2> QED BY <2>1, <2>2
<1>3. made <= SeqMod \div 2 /\ Numbered
  BY <1>2, HalfFact DEF NumInv
<1>4. ASSUME NEW p \in Thread, DrawNumber(p) PROVE Numbered'
  BY <1>1, <1>3, <1>4, DrawNumbers
<1>5. ASSUME NEW p \in Thread, Send(p) PROVE Numbered'
  BY <1>1, <1>3, <1>5, SendNumbers
<1>6. ASSUME NEW r \in Dest, AtDest(r) PROVE Numbered'
  BY <1>1, <1>3, <1>6, ReceiveNumbers
<1>7. ASSUME (\E d \in Dest \cup {Broadcast} : HostSends(d)) \/ PushPacket \/ SendRreq
      PROVE  Numbered'
  <2>1. /\ UNCHANGED <<air, data_seq, num, receiver>> /\ SysThread \in Thread
        /\ pc[SysThread] # "send" /\ pc'[SysThread] # "send"
        /\ \A t \in Thread : t # SysThread => pc'[t] = pc[t] /\ hand'[t] = hand[t]
    BY <1>1, <1>7, ConstantFacts
    DEF HostSends, PushPacket, SendRreq, Goto, OnceInv, TInv, TypeOK
  <2>2. InSend' = InSend /\ SysThread \notin InSend
    BY <2>1 DEF InSend
  <2> QED BY <1>3, <2>1, <2>2, SameNumbers DEF InSend
<1>8. ASSUME NEW p \in RxThread,
             (\E d \in Dest : LearnRoute(p, d)) \/ DeleteSeries(p) \/ PopPacket(p) \/ PopNothing(p)
      PROVE  Numbered'
  <2>1. /\ UNCHANGED <<air, data_seq, num, receiver>> /\ p \in Thread
        /\ pc[p] # "send" /\ pc'[p] # "send"
        /\ \A t \in Thread : t # p => pc'[t] = pc[t] /\ hand'[t] = hand[t]
    BY <1>1, <1>8, ConstantFacts, AfterType
    DEF LearnRoute, DeleteSeries, PopPacket, PopNothing, Goto, OnceInv, TInv, TypeOK
  <2>2. InSend' = InSend /\ p \notin InSend
    BY <2>1 DEF InSend
  <2> QED BY <1>3, <2>1, <2>2, SameNumbers DEF InSend
<1>9. ASSUME \/ UNCHANGED vars
             \/ \E d \in Dest : \/ RouteByOthers(d) \/ LoseRoute(d)
                                \/ GiveUp(d) \/ Rediscover(d) \/ PurgePackets(d)
      PROVE  Numbered'
  <2>1. UNCHANGED <<air, data_seq, num, receiver, pc, hand>>
    BY <1>9 DEF vars, receiver, RouteByOthers, LoseRoute, GiveUp, Rediscover, PurgePackets, threads
  <2>2. InSend' = InSend
    BY <2>1 DEF InSend
  <2> QED BY <1>3, <2>1, <2>2, SameNumbers
<1> QED BY <1>4, <1>5, <1>6, <1>7, <1>8, <1>9 DEF Next, AtDest

-----------------------------------------------------------------------------
(* The refinement of ordered delivery.  A message enters when a thread     *)
(* draws its number; sending it moves it from the thread to the air.       *)
LEMMA EnteredOnce ==
    ASSUME OnceInv, NEW o \in Entered
    PROVE  /\ \A m \in air : m.packet = o.packet => m = o
           /\ \A p \in Thread : pc[p] = "draw" => hand[p] # o.packet
<1>1. CASE o \in air
  BY <1>1 DEF OnceInv, Once
<1>2. ASSUME NEW p \in Thread, pc[p] = "send", o = Outgoing(p)
      PROVE  /\ \A m \in air : m.packet = o.packet => m = o
             /\ \A q \in Thread : pc[q] = "draw" => hand[q] # o.packet
  <2>1. o.packet = hand[p]
    BY <1>2 DEF Outgoing
  <2>2. \A q \in Thread : pc[q] = "draw" => q # p /\ hand[q] # NoPacket
    BY <1>2 DEF OnceInv, TInv, HandsFull, Packet, NoPacket
  <2> QED BY <2>1, <2>2 DEF OnceInv, Once
<1> QED BY <1>1, <1>2 DEF Entered

LEMMA SameEntered ==
    ASSUME UNCHANGED air, InSend' = InSend,
           \A p \in InSend : Outgoing(p)' = Outgoing(p)
    PROVE  Entered' = Entered
BY DEF Entered, InSend

LEMMA DrawEnters ==
    ASSUME OnceInv, OnceInv', Numbered, Numbered', NEW p \in Thread, DrawNumber(p)
    PROVE  \E to \in Dest \cup {Broadcast}, k \in Packet, n \in Number : Abstract!Enter(to, k, n)
<1>1. /\ pc[p] = "draw" /\ pc'[p] = "send" /\ num'[p] = NextNumber /\ data_seq' = NextNumber
      /\ \A t \in Thread : t # p => pc'[t] = pc[t] /\ num'[t] = num[t]
      /\ UNCHANGED <<hand, dest, air, receiver, made>>
      /\ hand[p] \in Packet /\ dest[p] \in Dest \cup {Broadcast}
  BY DEF DrawNumber, Goto, OnceInv, TInv, TypeOK, HandsFull
<1>2. InSend' = InSend \cup {p} /\ p \notin InSend
  BY <1>1 DEF InSend
<1>3. data_seq \in Nat /\ SeqMod \in Nat \ {0} /\ data_seq < SeqMod
  BY ConstantFacts DEF OnceInv, TInv, TypeOK, Number
<1>4. NextNumber = data_seq + 1 /\ data_seq + 1 \in Number
  <2>1. NextNumber \in 1..NextNumber
    BY <1>1, <1>2 DEF Numbered
  <2>2. CASE data_seq + 1 = SeqMod
    <3>1. NextNumber = 0
      BY <1>3, <2>2 DEF NextNumber
    <3> QED BY <2>1, <3>1
  <2>3. CASE data_seq + 1 # SeqMod
    BY <1>3, <2>3 DEF NextNumber, Number
  <2> QED BY <2>2, <2>3
<1>5. Outgoing(p)' = [to |-> dest[p], packet |-> hand[p], num |-> data_seq + 1]
  BY <1>1, <1>4 DEF Outgoing
<1>6. \A t \in InSend : Outgoing(t)' = Outgoing(t)
  BY <1>1, <1>2 DEF Outgoing, InSend
<1>7. Entered' = Entered \cup {[to |-> dest[p], packet |-> hand[p], num |-> data_seq + 1]}
  <2>1. {Outgoing(t)' : t \in InSend'} = {Outgoing(t)' : t \in InSend} \cup {Outgoing(p)'}
    BY <1>2
  <2>2. {Outgoing(t)' : t \in InSend} = {Outgoing(t) : t \in InSend}
    BY <1>6
  <2>3. Entered' = air' \cup {Outgoing(t)' : t \in InSend'}
    BY DEF Entered, InSend
  <2>4. Entered = air \cup {Outgoing(t) : t \in InSend}
    BY DEF Entered, InSend
  <2> QED BY <1>1, <1>5, <2>1, <2>2, <2>3, <2>4
<1>8. \A o \in Entered : o.packet # hand[p] /\ o.num < data_seq + 1
  <2> SUFFICES ASSUME NEW o \in Entered PROVE o.packet # hand[p] /\ o.num < data_seq + 1
    OBVIOUS
  <2>1. o.packet # hand[p]
    BY <1>1, EnteredOnce
  <2>2. o.num \in 1..data_seq
    BY DEF Entered, Numbered, Outgoing, InSend
  <2> QED BY <1>3, <2>1, <2>2
<1>9. Abstract!Enter(dest[p], hand[p], data_seq + 1)
  BY <1>1, <1>7, <1>8 DEF Abstract!Enter, receiver
<1> QED BY <1>1, <1>4, <1>9

LEMMA SendStays ==
    ASSUME OnceInv, NEW p \in Thread, Send(p)
    PROVE  Entered' = Entered
<1>1. /\ pc[p] = "send" /\ air' = air \cup {Outgoing(p)} /\ pc'[p] # "send"
      /\ \A t \in Thread : t # p => /\ pc'[t] = pc[t] /\ num'[t] = num[t]
                                    /\ hand'[t] = hand[t] /\ dest'[t] = dest[t]
  BY AfterType DEF Send, Goto, AfterSend, Outgoing, OnceInv, TInv, TypeOK
<1>2. InSend' = InSend \ {p} /\ p \in InSend
  BY <1>1 DEF InSend
<1>3. \A t \in InSend' : Outgoing(t)' = Outgoing(t)
  BY <1>1, <1>2 DEF Outgoing, InSend
<1>4. {Outgoing(t)' : t \in InSend'} = {Outgoing(t) : t \in InSend \ {p}}
  BY <1>2, <1>3
<1>5. {Outgoing(t) : t \in InSend} = {Outgoing(t) : t \in InSend \ {p}} \cup {Outgoing(p)}
  BY <1>2
<1>6. Entered' = air' \cup {Outgoing(t)' : t \in InSend'}
  BY DEF Entered, InSend
<1>7. Entered = air \cup {Outgoing(t) : t \in InSend}
  BY DEF Entered, InSend
<1> QED BY <1>1, <1>4, <1>5, <1>6, <1>7

(* The variables of the refinement, as they stand in Abstract!vars. *)
delivery == <<Entered, taken, holds, got, again, forgot>>

(* What a destination takes is newer than all that it remembers. *)
LEMMA CaptureTakes ==
    ASSUME OnceInv, Numbered, made <= SeqMod \div 2, NEW r \in Dest, NEW x \in RxThread,
           NEW m \in air, m.to \in {r, Broadcast}, Capture(r, x, m)
    PROVE  Abstract!Take(r, x, m)
<1>1. UNCHANGED <<air, num, pc, hand, dest>>
  BY DEF Capture, threads
<1>2. Entered' = Entered
  BY <1>1 DEF Entered, Outgoing
<1>3. ASSUME NEW o \in Entered, o.packet \in taken[r] PROVE o.num < m.num
  <2>1. PICK a \in air : a.packet = o.packet
    BY <1>3 DEF Numbered
  <2>2. a = o
    BY <2>1, EnteredOnce
  <2> QED BY <1>3, <2>2, NewerFacts
<1> QED BY <1>2, <1>3 DEF Abstract!Take, Capture

LEMMA AtDestDelivers ==
    ASSUME OnceInv, Numbered, made <= SeqMod \div 2, NEW r \in Dest, AtDest(r)
    PROVE  Abstract!Next
<1>1. UNCHANGED <<air, num, pc, hand, dest>>
  BY DEF AtDest, Receive, LocalUnicast, ForwardBroadcast, Capture, SysSend, DsTimeout, threads
<1>2. Entered' = Entered
  BY <1>1 DEF Entered, Outgoing
<1>3. ASSUME NEW x \in RxThread, NEW m \in air, Receive(r, x, m) PROVE Abstract!Next
  <2>1. m.to \in {r, Broadcast} /\ Capture(r, x, m) /\ m \in Entered
    BY <1>3 DEF Receive, LocalUnicast, ForwardBroadcast, Entered
  <2> QED BY <2>1, CaptureTakes DEF Abstract!Next
<1>4. ASSUME NEW x \in RxThread, SysSend(r, x) PROVE Abstract!Next
  <2>1. Abstract!Deliver(r, x)
    BY <1>2, <1>4 DEF SysSend, Abstract!Deliver
  <2> QED BY <2>1 DEF Abstract!Next
<1>5. CASE DsTimeout(r)
  <2>1. Abstract!Forget(r)
    BY <1>2, <1>5 DEF DsTimeout, Abstract!Forget
  <2> QED BY <2>1 DEF Abstract!Next
<1> QED BY <1>3, <1>4, <1>5 DEF AtDest

LEMMA DeliveryStep ==
    ASSUME NumInv, NumInv', made' <= SeqMod \div 2, made <= SeqMod \div 2, [Next]_vars
    PROVE  [Abstract!Next]_delivery
<1>1. OnceInv /\ OnceInv' /\ Numbered /\ Numbered'
  BY DEF NumInv
<1>2. ASSUME NEW p \in Thread, DrawNumber(p) PROVE Abstract!Next
  BY <1>1, <1>2, DrawEnters DEF Abstract!Next
<1>3. ASSUME NEW p \in Thread, Send(p) PROVE UNCHANGED delivery
  BY <1>1, <1>3, SendStays DEF Send, receiver, delivery
<1>4. ASSUME NEW r \in Dest, AtDest(r) PROVE Abstract!Next
  BY <1>1, <1>4, AtDestDelivers
<1>5. ASSUME (\E d \in Dest \cup {Broadcast} : HostSends(d)) \/ PushPacket \/ SendRreq
      PROVE  UNCHANGED delivery
  <2>1. /\ UNCHANGED <<air, num, receiver>> /\ SysThread \in Thread
        /\ pc[SysThread] # "send" /\ pc'[SysThread] # "send"
        /\ \A t \in Thread : t # SysThread =>
             pc'[t] = pc[t] /\ hand'[t] = hand[t] /\ dest'[t] = dest[t]
    BY <1>1, <1>5, ConstantFacts
    DEF HostSends, PushPacket, SendRreq, Goto, OnceInv, TInv, TypeOK
  <2>2. InSend' = InSend /\ SysThread \notin InSend
    BY <2>1 DEF InSend
  <2>3. \A t \in InSend : Outgoing(t)' = Outgoing(t)
    BY <2>1, <2>2 DEF InSend, Outgoing
  <2> QED BY <2>1, <2>2, <2>3, SameEntered DEF receiver, delivery
<1>6. ASSUME NEW p \in RxThread,
             (\E d \in Dest : LearnRoute(p, d)) \/ DeleteSeries(p) \/ PopPacket(p) \/ PopNothing(p)
      PROVE  UNCHANGED delivery
  <2>1. /\ UNCHANGED <<air, num, receiver>> /\ p \in Thread
        /\ pc[p] # "send" /\ pc'[p] # "send"
        /\ \A t \in Thread : t # p =>
             pc'[t] = pc[t] /\ hand'[t] = hand[t] /\ dest'[t] = dest[t]
    BY <1>1, <1>6, ConstantFacts, AfterType
    DEF LearnRoute, DeleteSeries, PopPacket, PopNothing, Goto, OnceInv, TInv, TypeOK
  <2>2. InSend' = InSend /\ p \notin InSend
    BY <2>1 DEF InSend
  <2>3. \A t \in InSend : Outgoing(t)' = Outgoing(t)
    BY <2>1, <2>2 DEF InSend, Outgoing
  <2> QED BY <2>1, <2>2, <2>3, SameEntered DEF receiver, delivery
<1>7. ASSUME \/ UNCHANGED vars
             \/ \E d \in Dest : \/ RouteByOthers(d) \/ LoseRoute(d)
                                \/ GiveUp(d) \/ Rediscover(d) \/ PurgePackets(d)
      PROVE  UNCHANGED delivery
  <2>1. UNCHANGED <<air, num, receiver, pc, hand, dest>>
    BY <1>7 DEF vars, receiver, RouteByOthers, LoseRoute, GiveUp, Rediscover, PurgePackets, threads
  <2> QED BY <2>1 DEF Entered, Outgoing, receiver, delivery
<1> QED BY <1>2, <1>3, <1>4, <1>5, <1>6, <1>7 DEF Next, AtDest

(* As long as the packets take up no more than half of the numbers, the    *)
(* data path is an ordered delivery: whatever the threads, the route       *)
(* requests and the network do, and whenever the entry of a source times   *)
(* out, what a destination takes between two such timeouts is in the order *)
(* of the numbers (aodv_db_ds_capt_data_seq), and its host gets what was   *)
(* taken, with no more packets out of place than receive threads hold.     *)
THEOREM DeliveryIsOrdered ==
    ASSUME MaxPackets <= SeqMod \div 2
    PROVE  Spec => IsOrderedDelivery
<1>1. Init => Abstract!Init
  <2>1. Init => Entered = {}
    BY DEF Init, Entered
  <2> QED BY <2>1 DEF Init, Abstract!Init
<1>2. NumInv /\ NumInv' /\ [Next]_vars => [Abstract!Next]_delivery
  <2> SUFFICES ASSUME NumInv, NumInv', [Next]_vars
               PROVE  [Abstract!Next]_delivery
    OBVIOUS
  <2>1. made <= SeqMod \div 2 /\ made' <= SeqMod \div 2
    BY HalfFact, ConstantFacts DEF NumInv, OnceInv, TInv, TypeOK
  <2> QED BY <2>1, DeliveryStep
<1> QED BY <1>1, <1>2, NumInit, NumStep, PTL
        DEF Spec, IsOrderedDelivery, Abstract!Spec, Abstract!vars, delivery

-----------------------------------------------------------------------------
(* What a host gets again.  A packet that is held or was got is remembered *)
(* or forgotten; one that two threads hold, or that is held although the   *)
(* host got it, is forgotten.                                              *)
TakenOrForgotten(r, k) == k \in taken[r] \cup forgot[r]

History ==
    \A r \in Dest :
      /\ again[r] \subseteq forgot[r]
      /\ \A k \in got[r] : TakenOrForgotten(r, k)
      /\ \A x \in RxThread : holds[r][x] # NoPacket =>
           /\ TakenOrForgotten(r, holds[r][x])
           /\ holds[r][x] \in got[r] => holds[r][x] \in forgot[r]
           /\ \A y \in RxThread : x # y /\ holds[r][y] = holds[r][x] =>
                holds[r][x] \in forgot[r]

(* The types of the abstract state. *)
AbstractType ==
    /\ \A m \in Entered : m.packet \in Packet /\ m.num \in Number
    /\ holds \in [Dest -> [RxThread -> Packet \cup {NoPacket}]]
    /\ got \in [Dest -> SUBSET Packet] /\ again \in [Dest -> SUBSET Packet]
    /\ taken \in [Dest -> SUBSET Packet] /\ forgot \in [Dest -> SUBSET Packet]

LEMMA HistoryInit == Abstract!Init => AbstractType /\ History
BY DEF Abstract!Init, AbstractType, History, TakenOrForgotten

(* The abstract steps keep both. *)
LEMMA AbstractTypeStep == AbstractType /\ [Abstract!Next]_delivery => AbstractType'
<1> SUFFICES ASSUME AbstractType, [Abstract!Next]_delivery PROVE AbstractType'
  OBVIOUS
<1>1. ASSUME NEW to \in Dest \cup {Broadcast}, NEW k \in Packet, NEW n \in Number,
             Abstract!Enter(to, k, n)
      PROVE  AbstractType'
  BY <1>1 DEF Abstract!Enter, AbstractType
<1>2. ASSUME NEW r \in Dest, NEW x \in RxThread, NEW m \in Entered, Abstract!Take(r, x, m)
      PROVE  AbstractType'
  <2>1. m.packet \in Packet
    BY DEF AbstractType
  <2> QED BY <1>2, <2>1 DEF Abstract!Take, AbstractType
<1>3. ASSUME NEW r \in Dest, NEW x \in RxThread, Abstract!Deliver(r, x) PROVE AbstractType'
  <2>1. holds[r][x] \in Packet
    BY <1>3 DEF Abstract!Deliver, AbstractType
  <2> QED BY <1>3, <2>1 DEF Abstract!Deliver, AbstractType
<1>4. ASSUME NEW r \in Dest, Abstract!Forget(r) PROVE AbstractType'
  BY <1>4 DEF Abstract!Forget, AbstractType
<1>5. CASE UNCHANGED delivery
  BY <1>5 DEF delivery, AbstractType
<1> QED BY <1>1, <1>2, <1>3, <1>4, <1>5 DEF Abstract!Next

LEMMA HistoryStep == AbstractType /\ History /\ [Abstract!Next]_delivery => History'
<1> SUFFICES ASSUME AbstractType, History, [Abstract!Next]_delivery PROVE History'
  OBVIOUS
<1>1. ASSUME NEW to, NEW k, NEW n, Abstract!Enter(to, k, n) PROVE History'
  BY <1>1 DEF Abstract!Enter, History, TakenOrForgotten
<1>2. ASSUME NEW r \in Dest, NEW x \in RxThread, NEW m \in Entered, Abstract!Take(r, x, m)
      PROVE  History'
  <2>1. /\ holds'[r][x] = m.packet /\ holds[r][x] = NoPacket
        /\ \A y \in RxThread : y # x => holds'[r][y] = holds[r][y]
        /\ taken'[r] = taken[r] \cup {m.packet}
        /\ \A s \in Dest : s # r => holds'[s] = holds[s] /\ taken'[s] = taken[s]
        /\ UNCHANGED <<got, again, forgot>>
    BY <1>2 DEF Abstract!Take, AbstractType
  <2>2. m.packet \notin taken[r] /\ m.packet # NoPacket
    BY <1>2, ConstantFacts DEF Abstract!Take, AbstractType, Number, Packet, NoPacket
  <2>3. \A k \in got[r] : TakenOrForgotten(r, k)'
    BY <2>1 DEF History, TakenOrForgotten
  <2>4. ASSUME NEW y \in RxThread, holds'[r][y] # NoPacket
        PROVE  /\ holds'[r][y] \in taken'[r] \cup forgot'[r]
               /\ holds'[r][y] \in got'[r] => holds'[r][y] \in forgot'[r]
               /\ \A z \in RxThread : y # z /\ holds'[r][z] = holds'[r][y] =>
                    holds'[r][y] \in forgot'[r]
    <3>1. CASE y = x
      BY <2>1, <2>2, <3>1 DEF History, TakenOrForgotten
    <3>2. CASE y # x
      BY <2>1, <2>2, <2>4, <3>2 DEF History, TakenOrForgotten
    <3> QED BY <3>1, <3>2
  <2> QED BY <2>1, <2>3, <2>4 DEF History, TakenOrForgotten
<1>3. ASSUME NEW r \in Dest, NEW x \in RxThread, Abstract!Deliver(r, x) PROVE History'
  <2> DEFINE k == holds[r][x]
  <2>1. /\ k # NoPacket /\ holds'[r][x] = NoPacket
        /\ \A y \in RxThread : y # x => holds'[r][y] = holds[r][y]
        /\ got'[r] = got[r] \cup {k}
        /\ again'[r] = IF k \in got[r] THEN again[r] \cup {k} ELSE again[r]
        /\ \A s \in Dest : s # r =>
             holds'[s] = holds[s] /\ got'[s] = got[s] /\ again'[s] = again[s]
        /\ UNCHANGED <<taken, forgot>>
    BY <1>3 DEF Abstract!Deliver, AbstractType
  <2>2. again'[r] \subseteq forgot'[r]
    BY <2>1 DEF History
  <2>3. \A n \in got'[r] : TakenOrForgotten(r, n)'
    BY <2>1 DEF History, TakenOrForgotten
  <2>4. ASSUME NEW y \in RxThread, holds'[r][y] # NoPacket
        PROVE  /\ holds'[r][y] \in taken'[r] \cup forgot'[r]
               /\ holds'[r][y] \in got'[r] => holds'[r][y] \in forgot'[r]
               /\ \A z \in RxThread : y # z /\ holds'[r][z] = holds'[r][y] =>
                    holds'[r][y] \in forgot'[r]
    BY <2>1, <2>4 DEF History, TakenOrForgotten
  <2> QED BY <2>1, <2>2, <2>3, <2>4 DEF History, TakenOrForgotten
<1>4. ASSUME NEW r \in Dest, Abstract!Forget(r) PROVE History'
  BY <1>4 DEF Abstract!Forget, AbstractType, History, TakenOrForgotten
<1>5. CASE UNCHANGED delivery
  BY <1>5 DEF delivery, History, TakenOrForgotten
<1> QED BY <1>1, <1>2, <1>3, <1>4, <1>5 DEF Abstract!Next

(* In an ordered delivery a host gets a packet again only if its node had  *)
(* forgotten the source in between.  So the refinement that a run checks   *)
(* contains DeliveredOnce.                                                 *)
THEOREM OrderedIsOnce == IsOrderedDelivery => []DeliveredOnce
<1>1. AbstractType /\ History /\ [Abstract!Next]_delivery => AbstractType' /\ History'
  BY AbstractTypeStep, HistoryStep
<1>2. History => DeliveredOnce
  BY DEF History, DeliveredOnce
<1> QED BY HistoryInit, <1>1, <1>2, PTL
        DEF IsOrderedDelivery, Abstract!Spec, Abstract!vars, delivery

(* Whatever the bound on the packets: while those made take up no more     *)
(* than half of the numbers, a host gets a packet again only if its node   *)
(* had forgotten the source in between (ds.c:54), however the network      *)
(* repeats and reorders copies and the receive threads overtake each other.*)
THEOREM PacketsAreDeliveredOnce == Spec => []DeliveredOnce
<1> DEFINE Inv == NumInv /\ (made <= SeqMod \div 2 => History)
<1>1. Init => Inv
  <2>1. Init => Entered = {}
    BY DEF Init, Entered
  <2>2. Init => Abstract!Init
    BY <2>1 DEF Init, Abstract!Init
  <2> QED BY <2>2, HistoryInit, NumInit
<1>2. Inv /\ [Next]_vars => Inv'
  <2> SUFFICES ASSUME Inv, [Next]_vars, made' <= SeqMod \div 2 PROVE History'
    BY NumStep
  <2>1. NumInv'
    BY NumStep
  <2>2. made \in Nat /\ made <= made'
    BY MadeGrows, ConstantFacts DEF NumInv, OnceInv, TInv, TypeOK
  <2>3. made <= SeqMod \div 2
    <3>1. made' \in Nat /\ SeqMod \div 2 \in Nat
      BY <2>1, HalfFact, ConstantFacts DEF NumInv, OnceInv, TInv, TypeOK
    <3> QED BY <2>2, <3>1
  <2>4. [Abstract!Next]_delivery
    BY <2>1, <2>3, DeliveryStep
  <2>5. \A m \in Entered : m.packet \in Packet /\ m.num \in Number
    BY DEF Entered, Outgoing, Message, NumInv, OnceInv, TInv, TypeOK, HandsFull
  <2>6. AbstractType
    BY <2>5 DEF AbstractType, NumInv, OnceInv, TInv, TypeOK
  <2> QED BY <2>3, <2>4, <2>6, HistoryStep
<1>3. Inv => DeliveredOnce
  BY DEF History, DeliveredOnce
<1> QED BY <1>1, <1>2, <1>3, PTL DEF Spec
=============================================================================

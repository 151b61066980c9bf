---------------------------- MODULE HelloProofs ----------------------------
(* The neighbour tables of Hello are well formed and hold bidirectional    *)
(* neighbours only, for any network, any links and any lifetime.           *)
EXTENDS Hello, TLAPS

Known == links \cup broken

(* Whatever is on the air took a link, and an answer answers a hello that *)
(* took the link back.                                                    *)
FramesTookLinks ==
    \A f \in msgs :
        /\ <<f.from, f.at>> \in Known
        /\ f.ttl = 1 => f.dhost \in Node /\ <<f.dhost, f.from>> \in Known

Inv == TypeOK /\ FramesTookLinks /\ NeighboursAreBidirectional

LEMMA TimeoutIsNat == Timeout \in Nat /\ Timeout >= 1
BY HelloAssumption DEF Timeout

(* Frames of a node with a legal address and lifetime are frames. *)
LEMMA FramesType ==
    ASSUME NEW n \in Node, NEW d \in Node \cup {All}, NEW t \in Ttl
    PROVE  Frames(n, d, t) \subseteq Frame
<1> SUFFICES ASSUME NEW f \in Frames(n, d, t) PROVE f \in Frame
  OBVIOUS
<1>1. PICK x \in Node : f = [from |-> n, dhost |-> d, at |-> x, ttl |-> t]
  BY DEF Frames
<1> QED BY <1>1 DEF Frame

(* Every such frame takes a link that works. *)
LEMMA FramesTakeLinks ==
    ASSUME NEW n \in Node, NEW d, NEW t, NEW f \in Frames(n, d, t)
    PROVE  <<f.from, f.at>> \in links /\ f.from = n /\ f.dhost = d /\ f.ttl = t
<1>1. PICK x \in Node :
          /\ <<n, x>> \in links
          /\ f = [from |-> n, dhost |-> d, at |-> x, ttl |-> t]
  BY DEF Frames
<1> QED BY <1>1

LEMMA InitInv == Init => Inv
<1> SUFFICES ASSUME Init PROVE Inv
  OBVIOUS
<1> USE DEF Init
<1>1. TypeOK
  BY TimeoutIsNat DEF TypeOK
<1>2. FramesTookLinks /\ NeighboursAreBidirectional
  BY DEF FramesTookLinks, NeighboursAreBidirectional
<1> QED BY <1>1, <1>2 DEF Inv

LEMMA NextInv == Inv /\ [Next]_vars => Inv'
<1> SUFFICES ASSUME Inv, [Next]_vars PROVE Inv'
  OBVIOUS
<1> USE DEF Inv
<1>1. ASSUME NEW n \in Node, SendHello(n) PROVE Inv'
  <2> USE <1>1 DEF SendHello
  <2>1. Frames(n, All, 2) \subseteq Frame
    BY FramesType DEF Ttl
  <2>2. TypeOK'
    BY <2>1 DEF TypeOK
  <2>3. FramesTookLinks'
    <3> SUFFICES ASSUME NEW f \in msgs'
                 PROVE  /\ <<f.from, f.at>> \in Known
                        /\ f.ttl = 1 => /\ f.dhost \in Node
                                        /\ <<f.dhost, f.from>> \in Known
      BY DEF FramesTookLinks, Known
    <3>1. CASE f \in msgs
      BY <3>1 DEF FramesTookLinks
    <3>2. CASE f \in Frames(n, All, 2)
      BY <3>2, FramesTakeLinks DEF Known
    <3> QED BY <3>1, <3>2
  <2>4. NeighboursAreBidirectional'
    BY DEF NeighboursAreBidirectional
  <2> QED BY <2>2, <2>3, <2>4
<1>2. ASSUME NEW n \in Node, ResetTable(n) PROVE Inv'
  <2> USE <1>2 DEF ResetTable
  <2>1. TypeOK'
    BY TimeoutIsNat DEF TypeOK
  <2>2. FramesTookLinks' /\ NeighboursAreBidirectional'
    BY DEF FramesTookLinks, NeighboursAreBidirectional, Known, TypeOK
  <2> QED BY <2>1, <2>2
<1>3. ASSUME NEW f \in msgs, AnswerHello(f) PROVE Inv'
  <2> USE <1>3 DEF AnswerHello
  <2>1. f \in Frame /\ f.ttl - 1 = 1
    BY DEF TypeOK, IsRequest, Frame, Ttl
  <2>2. Frames(f.at, f.from, f.ttl - 1) \subseteq Frame
    BY <2>1, FramesType DEF Frame, Ttl
  <2>3. TypeOK'
    BY <2>2 DEF TypeOK
  <2>4. FramesTookLinks'
    <3> SUFFICES ASSUME NEW g \in msgs'
                 PROVE  /\ <<g.from, g.at>> \in Known
                        /\ g.ttl = 1 => /\ g.dhost \in Node
                                        /\ <<g.dhost, g.from>> \in Known
      BY DEF FramesTookLinks, Known
    <3>1. CASE g \in msgs
      BY <3>1 DEF FramesTookLinks
    <3>2. CASE g \in Frames(f.at, f.from, f.ttl - 1)
      <4>1. /\ <<g.from, g.at>> \in links
            /\ g.from = f.at /\ g.dhost = f.from
        BY <2>1, <3>2, FramesTakeLinks DEF Frame
      <4>2. f.from \in Node /\ <<f.from, f.at>> \in Known
        BY <2>1 DEF FramesTookLinks, Frame
      <4> QED BY <4>1, <4>2 DEF Known
    <3> QED BY <3>1, <3>2
  <2>5. NeighboursAreBidirectional'
    BY DEF NeighboursAreBidirectional
  <2> QED BY <2>3, <2>4, <2>5
<1>4. ASSUME NEW f \in msgs, TakeAnswer(f) PROVE Inv'
  <2> USE <1>4 DEF TakeAnswer
  <2>1. f \in Frame /\ f.ttl = 1
    BY DEF TypeOK, IsRequest, Frame, Ttl
  <2>2. TypeOK'
    <3>1. f.at \in Node /\ f.from \in Node /\ 0 \in 0..Timeout
      BY <2>1, TimeoutIsNat DEF Frame
    <3>2. neigh' \in [Node -> SUBSET Node]
      <4>1. CASE IsForMe(f)
        <5>1. neigh' = [neigh EXCEPT ![f.at] = @ \cup {f.from}]
          BY <4>1
        <5>2. neigh[f.at] \cup {f.from} \in SUBSET Node
          BY <3>1 DEF TypeOK
        <5> QED BY <3>1, <5>1, <5>2 DEF TypeOK
      <4>2. CASE ~IsForMe(f)
        BY <4>2 DEF TypeOK
      <4> QED BY <4>1, <4>2
    <3>3. age' \in [Node -> [Node -> 0..Timeout]]
      <4>1. CASE IsForMe(f)
        <5>1. age' = [age EXCEPT ![f.at] = [@ EXCEPT ![f.from] = 0]]
          BY <4>1 DEF Refreshed
        <5> QED BY <3>1, <5>1 DEF TypeOK
      <4>2. CASE ~IsForMe(f)
        BY <4>2 DEF TypeOK
      <4> QED BY <4>1, <4>2
    <3>4. missed' \in [Node -> [Node -> 0..Timeout]]
      <4>1. CASE IsForMe(f)
        <5>1. missed' = [missed EXCEPT ![f.at] = [@ EXCEPT ![f.from] = 0]]
          BY <4>1
        <5> QED BY <3>1, <5>1 DEF TypeOK
      <4>2. CASE ~IsForMe(f)
        BY <4>2 DEF TypeOK
      <4> QED BY <4>1, <4>2
    <3> QED BY <3>2, <3>3, <3>4 DEF TypeOK
  <2>3. FramesTookLinks'
    BY DEF FramesTookLinks, Known
  <2>4. CASE IsForMe(f)
    <3>1. <<f.from, f.at>> \in Known /\ <<f.at, f.from>> \in Known
      BY <2>1, <2>4 DEF FramesTookLinks, IsForMe
    <3>2. f.at \in Node /\ neigh \in [Node -> SUBSET Node]
      BY <2>1 DEF Frame, TypeOK
    <3>3. ASSUME NEW n \in Node, NEW m \in neigh'[n]
          PROVE  {<<n, m>>, <<m, n>>} \subseteq Known
      <4>1. CASE m \in neigh[n]
        BY <4>1 DEF NeighboursAreBidirectional, Known
      <4>2. CASE m \notin neigh[n]
        <5>1. n = f.at /\ m = f.from
          BY <2>4, <3>2, <3>3, <4>2
        <5> QED BY <3>1, <5>1
      <4> QED BY <4>1, <4>2
    <3> QED BY <2>2, <2>3, <3>3 DEF NeighboursAreBidirectional, Known
  <2>5. CASE ~IsForMe(f)
    BY <2>2, <2>3, <2>5 DEF NeighboursAreBidirectional
  <2> QED BY <2>4, <2>5
<1>5. ASSUME NEW f \in msgs, LoseFrame(f) PROVE Inv'
  BY <1>5 DEF LoseFrame, TypeOK, FramesTookLinks, Known,
              NeighboursAreBidirectional
<1>6. ASSUME NEW n \in Node, NEW m \in Node, NeighbourTimeout(n, m) PROVE Inv'
  <2> USE <1>6 DEF NeighbourTimeout
  <2>1. TypeOK'
    BY TimeoutIsNat DEF TypeOK
  <2>2. FramesTookLinks' /\ NeighboursAreBidirectional'
    BY DEF FramesTookLinks, NeighboursAreBidirectional, Known, TypeOK
  <2> QED BY <2>1, <2>2
<1>7. ASSUME NEW n \in Node, NEW m \in Node, SendRerr(n, m) PROVE Inv'
  BY <1>7 DEF SendRerr, TypeOK, FramesTookLinks, Known,
              NeighboursAreBidirectional
<1>8. ASSUME NEW l \in links, BreakLink(l) PROVE Inv'
  <2> USE <1>8 DEF BreakLink
  <2>1. links' \cup broken' = Known
    BY DEF Known
  <2>2. TypeOK'
    BY DEF TypeOK
  <2>3. FramesTookLinks'
    BY <2>1 DEF FramesTookLinks, Known
  <2>4. NeighboursAreBidirectional'
    BY <2>1 DEF NeighboursAreBidirectional, Known
  <2> QED BY <2>2, <2>3, <2>4
<1>9. CASE Tick
  <2> USE <1>9 DEF Tick
  <2>1. age' \in [Node -> [Node -> 0..Timeout]]
    <3>1. ASSUME NEW n \in Node, NEW m \in Node
          PROVE  (IF m \in neigh[n] THEN age[n][m] + 1 ELSE 0) \in 0..Timeout
      <4>1. age[n][m] \in 0..Timeout
        BY DEF TypeOK
      <4>2. m \in neigh[n] => age[n][m] < Timeout
        BY <4>1, TimeoutIsNat DEF IsOld
      <4> QED BY <4>1, <4>2, TimeoutIsNat
    <3> QED BY <3>1
  <2>2. missed' \in [Node -> [Node -> 0..Timeout]]
    <3>1. ASSUME NEW n \in Node, NEW m \in Node
          PROVE  (IF missed[n][m] < Timeout THEN missed[n][m] + 1
                                            ELSE Timeout) \in 0..Timeout
      <4>1. missed[n][m] \in 0..Timeout
        BY DEF TypeOK
      <4> QED BY <4>1, TimeoutIsNat
    <3> QED BY <3>1
  <2>3. TypeOK'
    BY <2>1, <2>2 DEF TypeOK
  <2>4. FramesTookLinks' /\ NeighboursAreBidirectional'
    BY DEF FramesTookLinks, NeighboursAreBidirectional, Known
  <2> QED BY <2>3, <2>4
<1>10. CASE UNCHANGED vars
  BY <1>10 DEF vars, TypeOK, FramesTookLinks, Known, NeighboursAreBidirectional
<1> QED
  BY <1>1, <1>2, <1>3, <1>4, <1>5, <1>6, <1>7, <1>8, <1>9, <1>10
  DEF Next, Deliver

LEMMA InvHolds == Spec => []Inv
BY InitInv, NextInv, PTL DEF Spec

(* Every variable of the hello exchange keeps its type: an entry is never   *)
(* older than the lifetime db_nt_init gives it.                             *)
THEOREM HelloTypeCorrect == Spec => []TypeOK
BY InvHolds, PTL DEF Inv

(* Only nodes heard in both directions become neighbours (aodv_handle_hello *)
(* takes answers addressed to it), so that routes never use other links.    *)
THEOREM OnlyBidirectionalNeighbours == Spec => []NeighboursAreBidirectional
BY InvHolds, PTL DEF Inv
-----------------------------------------------------------------------------
(* The age of an entry never exceeds the number of answers that are missing *)
(* in a row: whatever refreshes an entry is an answer.                      *)
AgeIsMissed == \A n \in Node : \A m \in neigh[n] : age[n][m] <= missed[n][m]

LEMMA InitAge == Init => AgeIsMissed
BY DEF Init, AgeIsMissed

LEMMA NextAge == TypeOK /\ AgeIsMissed /\ [Next]_vars => AgeIsMissed'
<1> SUFFICES ASSUME TypeOK, AgeIsMissed, [Next]_vars PROVE AgeIsMissed'
  OBVIOUS
<1>1. CASE UNCHANGED <<neigh, age, missed>>
  BY <1>1 DEF AgeIsMissed
<1>2. ASSUME NEW f \in msgs, TakeAnswer(f) PROVE AgeIsMissed'
  <2>1. f.at \in Node /\ f.from \in Node
    BY DEF TypeOK, Frame
  <2>2. CASE IsForMe(f)
    <3> SUFFICES ASSUME NEW n \in Node, NEW m \in neigh'[n]
                 PROVE  age'[n][m] <= missed'[n][m]
      BY DEF AgeIsMissed
    <3>0. neigh' = [neigh EXCEPT ![f.at] = @ \cup {f.from}]
      BY <1>2, <2>2 DEF TakeAnswer
    <3>1. m \in Node
      <4>1. m \in neigh[n] \cup {f.from}
        BY <2>1, <3>0 DEF TypeOK
      <4> QED BY <2>1, <4>1 DEF TypeOK
    <3>2. CASE n = f.at /\ m = f.from
      BY <1>2, <2>1, <2>2, <3>2 DEF TakeAnswer, Refreshed, TypeOK
    <3>3. CASE ~(n = f.at /\ m = f.from)
      <4>1. m \in neigh[n]
        BY <2>1, <3>0, <3>3 DEF TypeOK
      <4>2. age'[n][m] = age[n][m] /\ missed'[n][m] = missed[n][m]
        BY <1>2, <2>1, <2>2, <3>1, <3>3 DEF TakeAnswer, Refreshed, TypeOK
      <4> QED BY <4>1, <4>2 DEF AgeIsMissed
    <3> QED BY <3>2, <3>3
  <2>3. CASE ~IsForMe(f)
    BY <1>2, <2>3 DEF TakeAnswer, AgeIsMissed
  <2> QED BY <2>2, <2>3
<1>3. ASSUME NEW n \in Node, ResetTable(n) PROVE AgeIsMissed'
  <2> SUFFICES ASSUME NEW x \in Node, NEW m \in neigh'[x]
               PROVE  age'[x][m] <= missed'[x][m]
    BY DEF AgeIsMissed
  <2>1. x # n /\ m \in neigh[x] /\ age'[x] = age[x] /\ missed' = missed
    BY <1>3 DEF ResetTable, TypeOK
  <2> QED BY <2>1 DEF AgeIsMissed
<1>4. ASSUME NEW n \in Node, NEW o \in Node, NeighbourTimeout(n, o)
      PROVE  AgeIsMissed'
  <2> SUFFICES ASSUME NEW x \in Node, NEW m \in neigh'[x]
               PROVE  age'[x][m] <= missed'[x][m]
    BY DEF AgeIsMissed
  <2>1. m \in neigh[x] /\ m \in Node /\ ~(x = n /\ m = o)
    BY <1>4 DEF NeighbourTimeout, TypeOK
  <2>2. age'[x][m] = age[x][m] /\ missed' = missed
    BY <1>4, <2>1 DEF NeighbourTimeout, TypeOK
  <2> QED BY <2>1, <2>2 DEF AgeIsMissed
<1>5. CASE Tick
  <2> SUFFICES ASSUME NEW x \in Node, NEW m \in neigh[x]
               PROVE  age'[x][m] <= missed'[x][m]
    BY <1>5 DEF AgeIsMissed, Tick
  <2>1. m \in Node
    BY DEF TypeOK
  <2>2. age'[x][m] = age[x][m] + 1
    BY <1>5, <2>1 DEF Tick
  <2>3. missed'[x][m] = IF missed[x][m] < Timeout THEN missed[x][m] + 1
                                                  ELSE Timeout
    BY <1>5, <2>1 DEF Tick
  <2>4. age[x][m] \in 0..Timeout /\ missed[x][m] \in 0..Timeout
    BY <2>1 DEF TypeOK
  <2>5. age[x][m] < Timeout
    BY <1>5, <2>4, TimeoutIsNat DEF Tick, IsOld
  <2>6. age[x][m] <= missed[x][m]
    BY DEF AgeIsMissed
  <2> QED BY <2>2, <2>3, <2>4, <2>5, <2>6, TimeoutIsNat
<1> QED
  BY <1>1, <1>2, <1>3, <1>4, <1>5
  DEF Next, Deliver, SendHello, AnswerHello, LoseFrame, SendRerr, BreakLink,
      vars

(* A SEND_OUT_RERR is new only when a neighbour timed out. *)
LEMMA OnlyTimeoutsReport ==
    ASSUME TypeOK, AgeIsMissed, [Next]_vars, NEW n \in Node, NEW m \in Node,
           m \in rerr_due'[n], m \notin rerr_due[n]
    PROVE  missed[n][m] > ALLOWED_HELLO_LOST
<1>1. NeighbourTimeout(n, m)
  <2>1. PICK x \in Node, o \in Node : NeighbourTimeout(x, o)
    <3>1. \A x, o \in Node : ~SendRerr(x, o)
      BY DEF SendRerr, TypeOK
    <3> QED
      BY <3>1 DEF Next, Deliver, SendHello, ResetTable, AnswerHello,
                  TakeAnswer, LoseFrame, BreakLink, Tick, vars
  <2>2. x = n /\ o = m
    BY <2>1 DEF NeighbourTimeout, TypeOK
  <2> QED BY <2>1, <2>2
<1>2. m \in neigh[n] /\ age[n][m] >= Timeout
  BY <1>1 DEF NeighbourTimeout, IsOld
<1>3. age[n][m] \in 0..Timeout /\ missed[n][m] \in 0..Timeout
  BY DEF TypeOK
<1>4. age[n][m] <= missed[n][m]
  BY <1>2 DEF AgeIsMissed
<1> QED BY <1>2, <1>3, <1>4, HelloAssumption DEF Timeout

(* A neighbour that answered within the allowed intervals is not dropped,   *)
(* and no RERR is scheduled for it, whatever was lost, reset or overheard   *)
(* before (aodv_handle_hello, db_nt_on_neigbor_timeout).                    *)
THEOREM DropsAreLosses == Spec => DroppedOnlyAfterLosses
<1>1. TypeOK /\ AgeIsMissed /\ [Next]_vars =>
        [\A n, m \in Node :
           m \in rerr_due'[n] /\ m \notin rerr_due[n] =>
               missed[n][m] > ALLOWED_HELLO_LOST]_vars
  BY OnlyTimeoutsReport
<1> QED
  BY <1>1, InitAge, NextAge, HelloTypeCorrect, PTL
  DEF Spec, DroppedOnlyAfterLosses
=============================================================================

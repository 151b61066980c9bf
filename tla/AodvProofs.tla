----------------------------- MODULE AodvProofs -----------------------------
(* Proofs about the network of Aodv, for any number of nodes, any links,   *)
(* any flows and any number of faults.                                     *)
EXTENDS Aodv, TLAPS

(* The assumptions on the constants, as one fact to cite. *)
LEMMA ConstantFacts ==
    /\ SeqMod \in Nat /\ SeqMod >= 4
    /\ HalfSeq \in Nat /\ HalfSeq < SeqMod /\ 2 * HalfSeq <= SeqMod
    /\ MaxSeqNum \in Nat /\ MaxSeqNum < HalfSeq
    /\ MaxMetric \in Nat
    /\ MoreIsBetter \in BOOLEAN
    /\ MaxFaults \in Nat
    /\ RreqTtl \subseteq Nat
    /\ Link \subseteq SUBSET Node
    /\ Flow \subseteq Node \X Node
    /\ MetricStep \in {0, 1}
    /\ NoNode \notin Node
BY SeqModAssumption, NetworkAssumption, NoNodeAssumption DEF HalfSeq

(* Within the half range, newer is greater. *)
LEMMA NewerIsGreater ==
    ASSUME NEW i \in 0..MaxSeqNum, NEW j \in 0..MaxSeqNum
    PROVE  hf_comp_u32(i, j) > 0 <=> i > j
BY ConstantFacts DEF hf_comp_u32, SeqDiff

(* The next number of a node that has not used up its numbers. *)
LEMMA NextNumber ==
    ASSUME NEW i \in 0..MaxSeqNum, i < MaxSeqNum
    PROVE  SeqSucc(i) = i + 1 /\ SeqSucc(i) \in 0..MaxSeqNum
BY ConstantFacts DEF SeqSucc

(* aodv_metric_do yields a metric. *)
LEMMA MetricDoType ==
    ASSUME NEW x \in Metric PROVE MetricDo(x) \in Metric
BY ConstantFacts DEF MetricDo, Metric

-----------------------------------------------------------------------------
(* What the operators of the routing table leave of a table. *)

LEMMA AbsentType ==
    /\ Absent \in Entry /\ ~Absent.exists /\ ~Absent.known /\ Absent.seq = 0
    /\ NewEntry \in Entry /\ ~NewEntry.known /\ NewEntry.known = FALSE /\ NewEntry.seq = 0
BY ConstantFacts DEF Absent, NewEntry, Entry, SeqNo, Metric

(* A captured RREQ changes at most the sequence number of its originator,  *)
(* to its own, and the next hop of its originator, to the previous hop; it *)
(* changes no flag.                                                        *)
LEMMA CaptRreqEffect ==
    ASSUME NEW t \in [Node -> Entry], NEW dest \in Node, NEW orig \in Node,
           NEW prev \in Node, NEW seq \in SeqNo, NEW metric \in Metric,
           \A d \in Node : t[d].known => t[d].exists
    PROVE  LET u == CaptRreq(t, dest, orig, prev, seq, metric) IN
           /\ u \in [Node -> Entry]
           /\ \A d \in Node :
                /\ u[d].known <=> t[d].known
                /\ u[d].known => u[d].exists
                /\ u[d].seq = t[d].seq \/ u[d].seq = 0 \/ (d = orig /\ u[d].seq = seq)
                /\ u[d].known => u[d].next = t[d].next \/ (d = orig /\ u[d].next = prev)
<1> DEFINE u == CaptRreq(t, dest, orig, prev, seq, metric)
<1>1. \A d \in Node : t[d] \in Entry
  OBVIOUS
<1>2. \A d \in Node : Lookup(t, d) \in Entry
  BY <1>1, AbsentType DEF Lookup
<1>3. ASSUME NEW d \in Node
      PROVE  /\ u[d] \in Entry
             /\ u[d].known <=> t[d].known
             /\ u[d].known => u[d].exists
             /\ u[d].seq = t[d].seq \/ u[d].seq = 0 \/ (d = orig /\ u[d].seq = seq)
             /\ u[d].known => u[d].next = t[d].next \/ (d = orig /\ u[d].next = prev)
  <2>1. CASE d = orig /\ CaptResult(t, orig, seq, metric) # "OLD"
    <3>1. u[d] = [exists |-> TRUE, known |-> t[d].known, valid |-> t[d].valid,
                  next |-> prev, seq |-> seq, metric |-> metric]
      BY <2>1 DEF CaptRreq
    <3> QED
      BY <3>1, <2>1, <1>1 DEF Entry
  <2>2. CASE ~(d = orig /\ CaptResult(t, orig, seq, metric) # "OLD") /\ d \in {orig, dest}
    <3>1. u[d] = Lookup(t, d)
      BY <2>2 DEF CaptRreq
    <3>2. CASE t[d].exists
      BY <3>1, <3>2, <1>1 DEF Lookup
    <3>3. CASE ~t[d].exists
      <4>1. u[d] = NewEntry /\ t[d].known = FALSE
        BY <3>1, <3>3, <1>1 DEF Lookup, Entry
      <4> QED
        BY <4>1, AbsentType
    <3> QED
      BY <3>2, <3>3
  <2>3. CASE d \notin {orig, dest}
    <3>1. u[d] = t[d]
      BY <2>3 DEF CaptRreq
    <3> QED
      BY <3>1, <1>1
  <2> QED
    BY <2>1, <2>2, <2>3
<1>4. u = [d \in Node |-> u[d]]
  BY DEF CaptRreq
<1> QED
  BY <1>3, <1>4

(* A RREP that is used makes its destination known over the next hop. *)
LEMMA CaptRrepEffect ==
    ASSUME NEW t \in [Node -> Entry], NEW dest \in Node, NEW hop \in Node,
           NEW seq \in SeqNo, NEW metric \in Metric,
           \A d \in Node : t[d].known => t[d].exists
    PROVE  LET u == CaptRrep(t, dest, hop, seq, metric) IN
           /\ u \in [Node -> Entry]
           /\ u[dest].known /\ u[dest].seq = seq /\ u[dest].next = hop
           /\ \A d \in Node : u[d].known => u[d].exists
           /\ \A d \in Node : d # dest => u[d] = t[d]
<1> DEFINE e == [exists |-> TRUE, known |-> TRUE, valid |-> TRUE,
                 next |-> hop, seq |-> seq, metric |-> metric]
<1>1. e \in Entry /\ e.exists /\ e.known /\ e.seq = seq /\ e.next = hop
  BY DEF Entry
<1>2. CaptRrep(t, dest, hop, seq, metric) = [t EXCEPT ![dest] = e]
  BY DEF CaptRrep
<1> HIDE DEF e
<1> QED
  BY <1>1, <1>2

(* Marking an entry invalid keeps it an entry, and what it says. *)
LEMMA InvalidateEffect ==
    ASSUME NEW e \in Entry
    PROVE  LET f == Invalidate(e) IN
           /\ f \in Entry
           /\ f.exists = e.exists /\ f.known = e.known
           /\ f.next = e.next /\ f.seq = e.seq
BY DEF Invalidate, Entry

(* Marking routes invalid changes nothing but the valid flags. *)
LEMMA InvalidateAllEffect ==
    ASSUME NEW t \in [Node -> Entry], NEW D
    PROVE  LET u == InvalidateAll(t, D) IN
           /\ u \in [Node -> Entry]
           /\ \A d \in Node : /\ u[d].exists = t[d].exists /\ u[d].known = t[d].known
                              /\ u[d].next = t[d].next /\ u[d].seq = t[d].seq
<1> DEFINE u == InvalidateAll(t, D)
<1>1. ASSUME NEW d \in Node
      PROVE  /\ u[d] \in Entry
             /\ u[d].exists = t[d].exists /\ u[d].known = t[d].known
             /\ u[d].next = t[d].next /\ u[d].seq = t[d].seq
  <2>1. t[d] \in Entry /\ (u[d] = t[d] \/ u[d] = Invalidate(t[d]))
    BY DEF InvalidateAll
  <2> QED
    BY <2>1, InvalidateEffect
<1>2. u = [d \in Node |-> u[d]]
  BY DEF InvalidateAll
<1> QED
  BY <1>1, <1>2

-----------------------------------------------------------------------------
(* No number in the network exceeds the bound on the numbers a node uses,  *)
(* so that they all lie in one half of the range of sequence numbers.      *)
NumbersBounded ==
    /\ \A n, d \in Node : rt[n][d].seq <= MaxSeqNum
    /\ \A o, d \in Node : series[o][d].dseq <= MaxSeqNum
    /\ \A m \in msgs :
         /\ m.type = "RREQ" => m.seq <= MaxSeqNum /\ m.dseq <= MaxSeqNum
         /\ m.type = "RREP" => m.seq <= MaxSeqNum

(* Only entries in the table have a next hop. *)
KnownExists == \A n, d \in Node : rt[n][d].known => rt[n][d].exists

TInv == TypeOK /\ NumbersBounded /\ KnownExists

(* A frame of each type has the fields of that type. *)
LEMMA FrameTypes ==
    ASSUME NEW m \in Rreq \cup Rrep \cup Rerr
    PROVE  /\ m.type = "RREQ" => m \in Rreq
           /\ m.type = "RREP" => m \in Rrep
           /\ m.type = "RERR" => m \in Rerr
           /\ m \in Rreq => m.type = "RREQ"
           /\ m \in Rrep => m.type = "RREP"
           /\ m \in Rerr => m.type = "RERR"
BY DEF Rreq, Rrep, Rerr

(* The frames of a RREQ carry what it was built from. *)
LEMMA RreqFramesEffect ==
    ASSUME NEW n \in Node, NEW orig \in Node, NEW dest \in Node, NEW seq \in SeqNo,
           NEW unknown \in BOOLEAN, NEW dseq \in SeqNo, NEW ttl \in Nat,
           NEW metric \in Metric,
           NEW f \in RreqFrames(n, orig, dest, seq, unknown, dseq, ttl, metric)
    PROVE  /\ f \in Rreq /\ f.type = "RREQ" /\ f.from = n /\ f.orig = orig
           /\ f.dest = dest /\ f.seq = seq /\ f.dseq = dseq
<1>1. PICK x \in Neighbours(n) :
        f = [type |-> "RREQ", to |-> x, from |-> n, orig |-> orig, dest |-> dest,
             seq |-> seq, unknown |-> unknown, dseq |-> dseq, ttl |-> ttl, metric |-> metric]
  BY DEF RreqFrames
<1>2. x \in Node
  BY DEF Neighbours
<1> QED
  BY <1>1, <1>2 DEF Rreq

(* The frame of a RREP carries what it was built from. *)
LEMMA RrepFramesEffect ==
    ASSUME NEW n \in Node, NEW to \in Node, NEW orig \in Node, NEW dest \in Node,
           NEW seq \in SeqNo, NEW metric \in Metric,
           NEW f \in RrepFrames(n, to, orig, dest, seq, metric)
    PROVE  /\ f \in Rrep /\ f.type = "RREP" /\ f.from = n /\ f.orig = orig
           /\ f.dest = dest /\ f.seq = seq
<1>1. PICK x \in Neighbours(n) :
        f = [type |-> "RREP", to |-> x, from |-> n, orig |-> orig, dest |-> dest,
             seq |-> seq, metric |-> metric]
  BY DEF RrepFrames
<1>2. x \in Node
  BY DEF Neighbours
<1> QED
  BY <1>1, <1>2 DEF Rrep

(* The frames of a RERR are RERRs. *)
LEMMA RerrFramesEffect ==
    ASSUME NEW n \in Node, NEW orig \in Node, NEW lost \in SUBSET (Node \X SeqNo),
           NEW f \in RerrFrames(n, orig, lost)
    PROVE  f \in Rerr /\ f.type = "RERR"
<1>1. PICK x \in Neighbours(n) :
        f = [type |-> "RERR", to |-> x, from |-> n, orig |-> orig, lost |-> lost]
  BY DEF RerrFrames
<1>2. x \in Node
  BY DEF Neighbours
<1> QED
  BY <1>1, <1>2 DEF Rerr

(* The fields of an entry and of a frame have their types. *)
LEMMA FieldTypes ==
    /\ \A e \in Entry : /\ e.exists \in BOOLEAN /\ e.known \in BOOLEAN /\ e.valid \in BOOLEAN
                        /\ e.next \in Node \cup {NoNode} /\ e.seq \in SeqNo /\ e.metric \in Metric
    /\ \A m \in Rreq : /\ m.to \in Node /\ m.from \in Node /\ m.orig \in Node /\ m.dest \in Node
                       /\ m.seq \in SeqNo /\ m.unknown \in BOOLEAN /\ m.dseq \in SeqNo
                       /\ m.ttl \in Nat /\ m.metric \in Metric
    /\ \A m \in Rrep : /\ m.to \in Node /\ m.from \in Node /\ m.orig \in Node /\ m.dest \in Node
                       /\ m.seq \in SeqNo /\ m.metric \in Metric
    /\ \A m \in Rerr : /\ m.to \in Node /\ m.from \in Node /\ m.orig \in Node
                       /\ m.lost \in SUBSET (Node \X SeqNo)
BY DEF Entry, Rreq, Rrep, Rerr

(* Sequence numbers and the numbers that nodes use. *)
LEMMA NumberTypes ==
    /\ \A i \in SeqNo : i \in Nat
    /\ \A i \in 0..MaxSeqNum : i \in SeqNo
    /\ \A i \in SeqNo : i <= MaxSeqNum => i \in 0..MaxSeqNum
    /\ 0 \in SeqNo /\ SEQ_MAX \in SeqNo
BY ConstantFacts DEF SeqNo, SEQ_MAX

-----------------------------------------------------------------------------
(* What a node makes of a table t with a RREQ m from m.from: t2 knows more *)
(* than t, its numbers and next hops are those of t or of m.               *)
TableAfter(t, t2, d0, hop, seq) ==
    /\ t2 \in [Node -> Entry]
    /\ \A d \in Node :
         /\ t2[d].known => t2[d].exists
         /\ t[d].known => t2[d].known
         /\ t2[d].seq = t[d].seq \/ t2[d].seq = 0 \/ (d = d0 /\ t2[d].seq = seq)
         /\ t2[d].known => \/ t[d].known /\ t2[d].next = t[d].next
                           \/ d = d0 /\ t2[d].next = hop

(* A RREP processed after a RREQ for the same node keeps this. *)
LEMMA RreqTable ==
    ASSUME NEW t \in [Node -> Entry], NEW dest \in Node, NEW orig \in Node,
           NEW prev \in Node, NEW seq \in SeqNo, NEW metric \in Metric,
           \A d \in Node : t[d].known => t[d].exists
    PROVE  LET u == CaptRreq(t, dest, orig, prev, seq, metric)
               v == CaptRrep(u, orig, prev, 0, metric)
           IN
           /\ TableAfter(t, u, orig, prev, seq)
           /\ TableAfter(t, v, orig, prev, seq)
           /\ v[orig].known
<1> DEFINE u == CaptRreq(t, dest, orig, prev, seq, metric)
           v == CaptRrep(u, orig, prev, 0, metric)
<1>1. TableAfter(t, u, orig, prev, seq) /\ \A d \in Node : u[d].known => t[d].known
  BY CaptRreqEffect, SMTT(30) DEF TableAfter
<1>2. /\ v \in [Node -> Entry]
      /\ v[orig].known /\ v[orig].seq = 0 /\ v[orig].next = prev
      /\ \A d \in Node : v[d].known => v[d].exists
      /\ \A d \in Node : d # orig => v[d] = u[d]
  <2>1. u \in [Node -> Entry] /\ \A d \in Node : u[d].known => u[d].exists
    BY <1>1 DEF TableAfter
  <2> HIDE DEF u
  <2> QED
    BY <2>1, CaptRrepEffect, NumberTypes, SMTT(30)
<1>3. TableAfter(t, v, orig, prev, seq)
  <2> HIDE DEF u, v
  <2> QED
    BY <1>1, <1>2 DEF TableAfter
<1> QED
  BY <1>1, <1>2, <1>3

(* The table of the node that receives a RREQ, and its own number. *)
LEMMA HandleRreqTable ==
    ASSUME TInv, NEW m \in msgs, HandleRreq(m)
    PROVE  /\ m \in Rreq
           /\ \A k \in Node : k # m.to => rt'[k] = rt[k]
           /\ TableAfter(rt[m.to], rt'[m.to], m.orig, m.from, m.seq)
           /\ rt' \in [Node -> [Node -> Entry]]
           /\ \/ rt'[m.to][m.orig].known
              \/ CaptResult(rt[m.to], m.orig, m.seq, MetricDo(m.metric)) = "OLD"
<1> DEFINE n == m.to
           metric == MetricDo(m.metric)
           result == CaptResult(rt[n], m.orig, m.seq, metric)
           rt1    == CaptRreq(rt[n], m.dest, m.orig, m.from, m.seq, metric)
           used   == result # "OLD" /\ CaptUsed(rt1, m.orig, 0)
           rt2    == IF used THEN CaptRrep(rt1, m.orig, m.from, 0, metric) ELSE rt1
<1>1. m \in Rreq /\ rt' = [rt EXCEPT ![n] = rt2]
  BY FrameTypes DEF TInv, TypeOK, HandleRreq
<1>2. /\ rt[n] \in [Node -> Entry] /\ metric \in Metric
      /\ \A d \in Node : rt[n][d].known => rt[n][d].exists
      /\ n \in Node /\ m.dest \in Node /\ m.orig \in Node /\ m.from \in Node /\ m.seq \in SeqNo
  BY <1>1, MetricDoType, FieldTypes DEF TInv, TypeOK, KnownExists
<1>3. /\ TableAfter(rt[n], rt1, m.orig, m.from, m.seq)
      /\ TableAfter(rt[n], CaptRrep(rt1, m.orig, m.from, 0, metric), m.orig, m.from, m.seq)
      /\ CaptRrep(rt1, m.orig, m.from, 0, metric)[m.orig].known
  <2> HIDE DEF n, metric
  <2> QED
    BY <1>2, RreqTable
<1>4. TableAfter(rt[n], rt2, m.orig, m.from, m.seq)
  BY <1>3
<1>5. rt2 \in [Node -> Entry]
  BY <1>4 DEF TableAfter
<1>6. rt'[n] = rt2 /\ \A k \in Node : k # n => rt'[k] = rt[k]
  BY <1>1, <1>2 DEF TInv, TypeOK
<1>7. rt2[m.orig].known \/ result = "OLD"
  <2>1. CASE used
    BY <2>1, <1>3
  <2>2. CASE ~used /\ result # "OLD"
    BY <2>2 DEF CaptUsed
  <2> QED
    BY <2>1, <2>2
<1>8. rt' \in [Node -> [Node -> Entry]]
  BY <1>1, <1>2, <1>5 DEF TInv, TypeOK
<1> HIDE DEF rt2
<1> QED
  BY <1>1, <1>4, <1>6, <1>7, <1>8

(* Own number of the destination: it stays, is counted up, or takes over   *)
(* the one asked for when that is greater.                                 *)
LEMMA ReplyNumber ==
    ASSUME TInv, NEW m \in msgs, m \in Rreq,
           NEW result, result = "METRIC_HIT" => seq_num[m.to] < MaxSeqNum
    PROVE  /\ ReplySeq(m, result) \in 0..MaxSeqNum
           /\ ReplySeq(m, result) >= seq_num[m.to]
           /\ \/ ReplySeq(m, result) = seq_num[m.to]
              \/ ReplySeq(m, result) = seq_num[m.to] + 1
              \/ ReplySeq(m, result) = m.dseq /\ m.dseq > seq_num[m.to]
<1>1. /\ m.type = "RREQ" /\ m.to \in Node /\ m.dseq \in 0..MaxSeqNum
      /\ seq_num[m.to] \in 0..MaxSeqNum
  BY FrameTypes, FieldTypes, NumberTypes DEF TInv, TypeOK, NumbersBounded
<1>2. /\ OwnSeq(m, result) \in 0..MaxSeqNum
      /\ OwnSeq(m, result) = seq_num[m.to] \/ OwnSeq(m, result) = seq_num[m.to] + 1
  BY <1>1, NextNumber DEF OwnSeq
<1> QED
  BY <1>1, <1>2, NewerIsGreater DEF ReplySeq

(* The frames a node sends after a RREQ. *)
LEMMA HandleRreqFrames ==
    ASSUME TInv, NEW m \in msgs, HandleRreq(m), NEW f \in msgs'
    PROVE  \/ f \in msgs
           \/ /\ f \in Rreq /\ f.from = m.to /\ f.orig = m.orig /\ f.dest = m.dest
              /\ f.seq = m.seq /\ f.dseq = m.dseq /\ rt'[m.to][m.orig].known
           \/ /\ f \in Rrep /\ f.from = m.to /\ f.dest = m.dest /\ m.dest = m.to
              /\ f.seq = seq_num'[m.to]
           \/ /\ f \in Rrep /\ f.from = m.to /\ f.dest = m.dest
              /\ f.seq = rt'[m.to][m.dest].seq /\ rt'[m.to][m.dest].known
<1> DEFINE n == m.to
           metric == MetricDo(m.metric)
           result == CaptResult(rt[n], m.orig, m.seq, metric)
           reply  == ReplySeq(m, result)
           e      == rt'[n][m.dest]
<1>1. /\ m \in Rreq
      /\ rt'[n][m.orig].known \/ result = "OLD"
      /\ rt' \in [Node -> [Node -> Entry]]
  BY HandleRreqTable
<1>2. /\ n \in Node /\ m.from \in Node /\ m.orig \in Node /\ m.dest \in Node
      /\ m.seq \in SeqNo /\ m.dseq \in SeqNo /\ m.unknown \in BOOLEAN
      /\ m.ttl \in Nat /\ metric \in Metric /\ 0 \in Metric
  BY <1>1, FieldTypes, MetricDoType, ConstantFacts DEF Metric
<1>3. e \in Entry /\ e.seq \in SeqNo /\ e.metric \in Metric
  BY <1>1, <1>2, FieldTypes
<1>4. result # "OLD" /\ m.dest = n => seq_num'[n] = reply /\ reply \in SeqNo
  <2>1. m.dest = n /\ result = "METRIC_HIT" => seq_num[n] < MaxSeqNum
    BY DEF HandleRreq
  <2>2. m.dest = n => reply \in 0..MaxSeqNum
    BY <1>1, <2>1, ReplyNumber
  <2>3. seq_num' = [seq_num EXCEPT ![n] = IF m.dest = n /\ result # "OLD" THEN reply ELSE @]
    BY DEF HandleRreq
  <2> QED
    BY <1>2, <2>2, <2>3, NumberTypes DEF TInv, TypeOK
<1>5. f \in msgs \/ (result # "OLD" /\ f \in RreqOutput(m, e, metric, reply))
  <2>1. rt'[n] = LET rt1  == CaptRreq(rt[n], m.dest, m.orig, m.from, m.seq, metric)
                     used == result # "OLD" /\ CaptUsed(rt1, m.orig, 0)
                 IN  IF used THEN CaptRrep(rt1, m.orig, m.from, 0, metric) ELSE rt1
    BY <1>2 DEF HandleRreq, TInv, TypeOK
  <2> QED
    BY <2>1 DEF HandleRreq
<1> DEFINE ttl == IF m.ttl > 0 THEN m.ttl - 1 ELSE 0
<1>6. ttl \in Nat
  BY <1>2
<1>7. CASE result # "OLD" /\ m.dest = n /\ f \in RrepFrames(n, m.from, m.orig, n, reply, 0)
  <2>1. f \in Rrep /\ f.from = n /\ f.dest = n /\ f.seq = reply
    <3> HIDE DEF n, reply, result
    <3> QED
      BY <1>7, <1>2, <1>4, RrepFramesEffect
  <2> QED
    BY <2>1, <1>4, <1>7
<1>8. CASE LocalRepair(m, e) /\ f \in RrepFrames(n, m.from, m.orig, m.dest, e.seq, e.metric)
  <2>1. e.known
    BY <1>8 DEF LocalRepair
  <2> HIDE DEF n, e
  <2>2. f \in Rrep /\ f.from = n /\ f.dest = m.dest /\ f.seq = e.seq
    BY <1>8, <1>2, <1>3, RrepFramesEffect, SMTT(30)
  <2> QED
    BY <2>1, <2>2 DEF n, e
<1>9. CASE /\ result # "OLD"
           /\ f \in RreqFrames(n, m.orig, m.dest, m.seq, m.unknown, m.dseq, ttl, metric)
  <2> HIDE DEF n, ttl, metric, result
  <2>1. /\ f \in Rreq /\ f.from = n /\ f.orig = m.orig /\ f.dest = m.dest
        /\ f.seq = m.seq /\ f.dseq = m.dseq
    <3>1. f \in RreqFrames(n, m.orig, m.dest, m.seq, m.unknown, m.dseq, ttl, metric)
      BY <1>9
    <3> QED
      BY <3>1, <1>2, <1>6, RreqFramesEffect, SMTT(30)
  <2> QED
    BY <2>1, <1>1, <1>9 DEF n
<1> QED
  BY <1>5, <1>7, <1>8, <1>9 DEF RreqOutput

(* The table of the node that receives a RREP, and what it passes on. *)
LEMMA HandleRrepTable ==
    ASSUME TInv, NEW m \in msgs, HandleRrep(m)
    PROVE  /\ m \in Rrep
           /\ \A k \in Node : k # m.to => rt'[k] = rt[k]
           /\ TableAfter(rt[m.to], rt'[m.to], m.dest, m.from, m.seq)
           /\ rt' \in [Node -> [Node -> Entry]]
           /\ \A f \in msgs' :
                \/ f \in msgs
                \/ /\ f \in Rrep /\ f.from = m.to /\ f.dest = m.dest
                   /\ f.seq = m.seq /\ rt'[m.to][m.dest].known
<1> DEFINE n == m.to
           metric == MetricDo(m.metric)
           rt1 == CaptRrep(rt[n], m.dest, m.from, m.seq, metric)
<1>1. m \in Rrep
  BY FrameTypes DEF TInv, TypeOK, HandleRrep
<1>2. /\ rt[n] \in [Node -> Entry] /\ metric \in Metric
      /\ \A d \in Node : rt[n][d].known => rt[n][d].exists
      /\ n \in Node /\ m.dest \in Node /\ m.orig \in Node /\ m.from \in Node /\ m.seq \in SeqNo
      /\ rt \in [Node -> [Node -> Entry]]
  BY <1>1, MetricDoType, FieldTypes DEF TInv, TypeOK, KnownExists
<1>3. CASE rt' = rt /\ msgs' = msgs \ {m}
  BY <1>1, <1>2, <1>3 DEF TableAfter
<1>4. CASE /\ rt' = [rt EXCEPT ![n] = rt1]
           /\ \A f \in msgs' : f \in msgs \/ (HasRoute(rt1, m.orig) /\
                f \in RrepFrames(n, rt1[m.orig].next, m.orig, m.dest, m.seq, metric))
  <2>1. /\ rt1 \in [Node -> Entry]
        /\ rt1[m.dest].known /\ rt1[m.dest].seq = m.seq /\ rt1[m.dest].next = m.from
        /\ \A d \in Node : rt1[d].known => rt1[d].exists
        /\ \A d \in Node : d # m.dest => rt1[d] = rt[n][d]
    <3> HIDE DEF n, metric
    <3> QED
      BY <1>2, CaptRrepEffect
  <2> HIDE DEF rt1
  <2>2. rt'[n] = rt1 /\ (\A k \in Node : k # n => rt'[k] = rt[k])
    BY <1>2, <1>4
  <2>3. TableAfter(rt[n], rt1, m.dest, m.from, m.seq)
    BY <1>2, <2>1 DEF TableAfter
  <2>4. rt' \in [Node -> [Node -> Entry]]
    BY <1>2, <1>4, <2>1
  <2>5. ASSUME NEW f \in msgs', f \notin msgs
        PROVE  f \in Rrep /\ f.from = n /\ f.dest = m.dest /\ f.seq = m.seq
    <3> DEFINE x == rt1[m.orig].next
    <3>1. f \in RrepFrames(n, x, m.orig, m.dest, m.seq, metric)
      BY <1>4, <2>5
    <3>2. PICK y \in Neighbours(n) \cap {x} :
            f = [type |-> "RREP", to |-> y, from |-> n, orig |-> m.orig, dest |-> m.dest,
                 seq |-> m.seq, metric |-> metric]
      BY <3>1 DEF RrepFrames
    <3>3. y \in Node
      BY <3>2 DEF Neighbours
    <3> HIDE DEF n, metric
    <3> QED
      BY <1>2, <3>2, <3>3 DEF Rrep
  <2> QED
    BY <1>1, <2>1, <2>2, <2>3, <2>4, <2>5
<1> QED
  BY <1>3, <1>4 DEF HandleRrep, tables

(* The table after a RERR, and what it passes on. *)
LEMMA HandleRerrTable ==
    ASSUME TInv, NEW m \in msgs, HandleRerr(m)
    PROVE  /\ m \in Rerr
           /\ rt' \in [Node -> [Node -> Entry]]
           /\ \A n, d \in Node : /\ rt'[n][d].known = rt[n][d].known
                                 /\ rt'[n][d].exists = rt[n][d].exists
                                 /\ rt'[n][d].next = rt[n][d].next
                                 /\ rt'[n][d].seq = rt[n][d].seq
           /\ \A f \in msgs' : f \in msgs \/ f \in Rerr
<1>1. m \in Rerr
  BY FrameTypes DEF TInv, TypeOK, HandleRerr
<1>2. m.to \in Node /\ m.orig \in Node /\ m.lost \in SUBSET (Node \X SeqNo)
  BY <1>1, FieldTypes
<1>3. PICK hit : rt' = [rt EXCEPT ![m.to] = InvalidateAll(rt[m.to], hit)]
  BY DEF HandleRerr
<1>4. rt \in [Node -> [Node -> Entry]]
  BY DEF TInv, TypeOK
<1>5. /\ InvalidateAll(rt[m.to], hit) \in [Node -> Entry]
      /\ \A d \in Node : LET u == InvalidateAll(rt[m.to], hit) IN
            /\ u[d].exists = rt[m.to][d].exists /\ u[d].known = rt[m.to][d].known
            /\ u[d].next = rt[m.to][d].next /\ u[d].seq = rt[m.to][d].seq
  BY <1>2, <1>4, InvalidateAllEffect
<1>6. \A f \in msgs' : f \in msgs \/ f \in Rerr
  BY <1>2, RerrFramesEffect DEF HandleRerr
<1> QED
  BY <1>1, <1>2, <1>3, <1>4, <1>5, <1>6

(* The same for the RERR that a node sends when a neighbour is lost. *)
LEMMA SendRerrTable ==
    ASSUME TInv, NEW n \in Node, NEW x \in Node, SendRerr(n, x)
    PROVE  /\ rt' \in [Node -> [Node -> Entry]]
           /\ \A k, d \in Node : /\ rt'[k][d].known = rt[k][d].known
                                 /\ rt'[k][d].exists = rt[k][d].exists
                                 /\ rt'[k][d].next = rt[k][d].next
                                 /\ rt'[k][d].seq = rt[k][d].seq
           /\ \A f \in msgs' : f \in msgs \/ f \in Rerr
<1> DEFINE over  == DestsOver(nht[n], dangling[n], x)
           stale == {d \in Node : <<x, d>> \in dangling[n]}
           Report(junk, s) == {<<d, rt[n][d].seq>> : d \in over} \cup {<<d, s>> : d \in junk}
<1>1. rt \in [Node -> [Node -> Entry]] /\ over \subseteq Node
  BY DEF TInv, TypeOK, DestsOver
<1>2. PICK junk \in SUBSET (IF stale = {} THEN {} ELSE Node), s \in SeqNo :
        /\ rt' = [rt EXCEPT ![n] = InvalidateAll(@, over \cup junk)]
        /\ \E parts \in RerrLists(Report(junk, s)) :
             msgs' = msgs \cup UNION {RerrFrames(n, n, part) : part \in parts}
  BY DEF SendRerr
<1>3. junk \subseteq Node
  BY <1>2
<1> DEFINE hit  == over \cup junk
           lost == Report(junk, s)
<1>4. lost \in SUBSET (Node \X SeqNo)
  <2>1. \A d \in Node : rt[n][d].seq \in SeqNo
    BY <1>1, FieldTypes
  <2>2. \A d \in over : <<d, rt[n][d].seq>> \in Node \X SeqNo
    BY <1>1, <2>1
  <2>3. \A d \in junk : <<d, s>> \in Node \X SeqNo
    BY <1>3
  <2> QED
    BY <2>2, <2>3
<1>5. PICK parts \in RerrLists(lost) :
        msgs' = msgs \cup UNION {RerrFrames(n, n, part) : part \in parts}
  BY <1>2
<1> HIDE DEF lost
<1>6. ASSUME NEW f \in msgs', f \notin msgs PROVE f \in Rerr
  <2>1. PICK part \in parts : f \in RerrFrames(n, n, part)
    BY <1>5, <1>6
  <2>2. part \subseteq lost
    BY <2>1 DEF RerrLists
  <2>3. part \in SUBSET (Node \X SeqNo)
    BY <1>4, <2>2
  <2> QED
    BY <2>1, <2>3, RerrFramesEffect
<1>7. rt' = [rt EXCEPT ![n] = InvalidateAll(rt[n], hit)] /\ hit \subseteq Node
  BY <1>1, <1>2, <1>3
<1> HIDE DEF hit, over
<1>8. /\ InvalidateAll(rt[n], hit) \in [Node -> Entry]
      /\ \A d \in Node : LET u == InvalidateAll(rt[n], hit) IN
            /\ u[d].exists = rt[n][d].exists /\ u[d].known = rt[n][d].known
            /\ u[d].next = rt[n][d].next /\ u[d].seq = rt[n][d].seq
  BY <1>1, <1>7, InvalidateAllEffect
<1> QED
  BY <1>1, <1>6, <1>7, <1>8

(* The RREQ that an originator sends, or postpones. *)
LEMMA SendRreqEffect ==
    ASSUME TInv, NEW o \in Node, NEW d \in Node, NEW s \in Series, s.dseq <= MaxSeqNum,
           SendRreq(o, d, s) \/ PostponeRreq
    PROVE  /\ UNCHANGED <<rt, nht, dangling, neigh, rerr_due, links, breaks, restarts, expiries>>
           /\ seq_num' \in [Node -> 0..MaxSeqNum]
           /\ \A n \in Node : seq_num[n] <= seq_num'[n]
           /\ \A f \in msgs' :
                \/ f \in msgs
                \/ /\ f \in Rreq /\ f.from = o /\ f.orig = o /\ f.dest = d
                   /\ f.seq = seq_num'[o] /\ f.dseq = s.dseq
<1>1. /\ seq_num \in [Node -> 0..MaxSeqNum] /\ seq_num[o] \in 0..MaxSeqNum
      /\ s.dseq \in SeqNo /\ s.unknown \in BOOLEAN
  BY DEF TInv, TypeOK, Series
<1>2. CASE PostponeRreq
  BY <1>1, <1>2 DEF PostponeRreq, tables, counts
<1>3. CASE SendRreq(o, d, s)
  <2>1. /\ SeqSucc(seq_num[o]) = seq_num[o] + 1
        /\ SeqSucc(seq_num[o]) \in 0..MaxSeqNum
        /\ seq_num' = [seq_num EXCEPT ![o] = SeqSucc(@)]
    BY <1>1, <1>3, NextNumber DEF SendRreq
  <2>2. /\ seq_num' \in [Node -> 0..MaxSeqNum]
        /\ seq_num'[o] = SeqSucc(seq_num[o]) /\ seq_num'[o] \in SeqNo
        /\ \A n \in Node : seq_num[n] <= seq_num'[n]
    BY <1>1, <2>1, NumberTypes
  <2>3. ASSUME NEW f \in msgs', f \notin msgs
        PROVE  /\ f \in Rreq /\ f.from = o /\ f.orig = o /\ f.dest = d
               /\ f.seq = seq_num'[o] /\ f.dseq = s.dseq
    <3>1. PICK ttl \in RreqTtl :
            f \in RreqFrames(o, o, d, SeqSucc(seq_num[o]), s.unknown, s.dseq, ttl, 0)
      BY <1>3, <2>3 DEF SendRreq
    <3>2. ttl \in Nat /\ 0 \in Metric
      BY ConstantFacts DEF Metric
    <3> QED
      BY <1>1, <2>2, <3>1, <3>2, RreqFramesEffect
  <2> QED
    BY <1>3, <2>2, <2>3 DEF SendRreq, tables, counts
<1> QED
  BY <1>2, <1>3

-----------------------------------------------------------------------------
(* The series that aodv_send_rreq starts. *)
NewSeries(o, d) ==
    [active |-> TRUE, unknown |-> ~rt[o][d].known,
     dseq |-> IF rt[o][d].known THEN rt[o][d].seq ELSE 0]

(* The fields of the series that a node starts or has running. *)
LEMMA SeriesTypes ==
    ASSUME TInv, NEW o \in Node, NEW d \in Node
    PROVE  /\ NewSeries(o, d) \in Series /\ NewSeries(o, d).dseq <= MaxSeqNum
           /\ NewSeries(o, d).dseq = 0 \/ NewSeries(o, d).dseq = rt[o][d].seq
           /\ series[o][d] \in Series /\ series[o][d].dseq <= MaxSeqNum
           /\ NoSeries \in Series /\ NoSeries.dseq = 0
<1>1. rt[o][d] \in Entry
  BY DEF TInv, TypeOK
<1>2. /\ rt[o][d].known \in BOOLEAN /\ rt[o][d].seq \in SeqNo
      /\ rt[o][d].seq <= MaxSeqNum /\ series[o][d].dseq <= MaxSeqNum
      /\ series[o][d] \in Series /\ 0 \in SeqNo /\ 0 <= MaxSeqNum
  BY <1>1, FieldTypes, NumberTypes, ConstantFacts DEF TInv, TypeOK, NumbersBounded
<1>3. (~rt[o][d].known) \in BOOLEAN
  OBVIOUS
<1>4. PICK x \in SeqNo : /\ x = IF rt[o][d].known THEN rt[o][d].seq ELSE 0
                         /\ x <= MaxSeqNum /\ (x = 0 \/ x = rt[o][d].seq)
  BY <1>2
<1>5. PICK b \in BOOLEAN : b = ~rt[o][d].known
  BY <1>3
<1>6. NewSeries(o, d) = [active |-> TRUE, unknown |-> b, dseq |-> x]
  BY <1>4, <1>5 DEF NewSeries
<1>7. /\ NewSeries(o, d) \in Series /\ NewSeries(o, d).dseq = x
  BY <1>6 DEF Series
<1>8. NoSeries \in Series /\ NoSeries.dseq = 0
  BY <1>2 DEF NoSeries, Series
<1> QED
  BY <1>2, <1>4, <1>7, <1>8

(* Sending a RREQ keeps the invariant when the new series does. *)
LEMMA StartStep ==
    ASSUME TInv, NEW o \in Node, NEW d \in Node,
           StartDiscovery(o, d) \/ RepeatRreq(o, d) \/ GiveUp(o, d)
    PROVE  TInv'
<1>1. /\ NewSeries(o, d) \in Series /\ NewSeries(o, d).dseq <= MaxSeqNum
      /\ series[o][d] \in Series /\ series[o][d].dseq <= MaxSeqNum
      /\ NoSeries \in Series /\ NoSeries.dseq = 0 /\ 0 <= MaxSeqNum
  BY SeriesTypes, ConstantFacts
<1>2. \A v : v \in Series /\ v.dseq <= MaxSeqNum /\ series' = [series EXCEPT ![o][d] = v]
        => /\ series' \in [Node -> [Node -> Series]]
           /\ \A k, j \in Node : series'[k][j].dseq <= MaxSeqNum
  BY DEF TInv, TypeOK, NumbersBounded
<1>3. CASE GiveUp(o, d)
  <2>1. /\ series' \in [Node -> [Node -> Series]]
        /\ \A k, j \in Node : series'[k][j].dseq <= MaxSeqNum
    BY <1>1, <1>2, <1>3 DEF GiveUp
  <2> QED
    BY <1>3, <2>1 DEF GiveUp, TInv, TypeOK, NumbersBounded, KnownExists, tables, counts
<1>4. CASE StartDiscovery(o, d) \/ RepeatRreq(o, d)
  <2>1. PICK s \in Series : /\ s.dseq <= MaxSeqNum
                            /\ SendRreq(o, d, s) \/ PostponeRreq
                            /\ series' = [series EXCEPT ![o][d] = s] \/ series' = series
    BY <1>1, <1>4 DEF StartDiscovery, RepeatRreq, NewSeries
  <2>2. /\ series' \in [Node -> [Node -> Series]]
        /\ \A k, j \in Node : series'[k][j].dseq <= MaxSeqNum
    BY <1>2, <2>1 DEF TInv, TypeOK, NumbersBounded
  <2>3. /\ UNCHANGED <<rt, nht, dangling, neigh, rerr_due, links, breaks, restarts, expiries>>
        /\ seq_num' \in [Node -> 0..MaxSeqNum]
        /\ \A f \in msgs' :
             \/ f \in msgs
             \/ f \in Rreq /\ f.seq = seq_num'[o] /\ f.dseq = s.dseq
    BY <2>1, SendRreqEffect
  <2>4. msgs' \subseteq Rreq \cup Rrep \cup Rerr
    BY <2>3 DEF TInv, TypeOK
  <2>5. \A f \in msgs' : /\ f.type = "RREQ" => f.seq <= MaxSeqNum /\ f.dseq <= MaxSeqNum
                         /\ f.type = "RREP" => f.seq <= MaxSeqNum
    <3>1. seq_num'[o] <= MaxSeqNum
      BY <2>3, ConstantFacts
    <3> QED
      BY <2>1, <2>3, <3>1, FrameTypes DEF TInv, NumbersBounded
  <2> QED
    BY <2>2, <2>3, <2>4, <2>5 DEF TInv, TypeOK, NumbersBounded, KnownExists
<1> QED
  BY <1>3, <1>4

(* A node's table, with the frames that come of it, keeps the invariant. *)
LEMMA TableStep ==
    ASSUME TInv, NEW n \in Node, NEW d0 \in Node, NEW hop, NEW seq,
           seq <= MaxSeqNum,
           rt' \in [Node -> [Node -> Entry]],
           \A k \in Node : k # n => rt'[k] = rt[k],
           TableAfter(rt[n], rt'[n], d0, hop, seq)
    PROVE  /\ KnownExists'
           /\ \A k, d \in Node : rt'[k][d].seq <= MaxSeqNum
<1>1. \A d \in Node : rt'[n][d].seq <= MaxSeqNum /\ (rt'[n][d].known => rt'[n][d].exists)
  BY ConstantFacts DEF TableAfter, TInv, NumbersBounded
<1> QED
  BY <1>1 DEF TInv, NumbersBounded, KnownExists

(* Handling a RREQ keeps the invariant. *)
LEMMA RreqStep ==
    ASSUME TInv, NEW m \in msgs, HandleRreq(m)
    PROVE  TInv'
<1> DEFINE n == m.to
           result == CaptResult(rt[n], m.orig, m.seq, MetricDo(m.metric))
<1>1. /\ m \in Rreq /\ m.type = "RREQ" /\ n \in Node /\ m.orig \in Node /\ m.dest \in Node
      /\ m.from \in Node /\ m.seq <= MaxSeqNum /\ m.dseq <= MaxSeqNum
  BY HandleRreqTable, FrameTypes, FieldTypes DEF TInv, NumbersBounded
<1>2. /\ rt' \in [Node -> [Node -> Entry]]
      /\ KnownExists'
      /\ \A k, d \in Node : rt'[k][d].seq <= MaxSeqNum
  BY <1>1, HandleRreqTable, TableStep
<1>3. seq_num' \in [Node -> 0..MaxSeqNum]
  <2>1. result = "METRIC_HIT" /\ m.dest = n => seq_num[n] < MaxSeqNum
    BY DEF HandleRreq
  <2>2. m.dest = n => ReplySeq(m, result) \in 0..MaxSeqNum
    BY <1>1, <2>1, ReplyNumber
  <2>3. seq_num' = [seq_num EXCEPT ![n] =
            IF m.dest = n /\ result # "OLD" THEN ReplySeq(m, result) ELSE @]
    BY DEF HandleRreq
  <2> HIDE DEF result
  <2> QED
    BY <1>1, <2>2, <2>3 DEF TInv, TypeOK
<1>4. /\ msgs' \subseteq Rreq \cup Rrep \cup Rerr
      /\ \A f \in msgs' : /\ f.type = "RREQ" => f.seq <= MaxSeqNum /\ f.dseq <= MaxSeqNum
                          /\ f.type = "RREP" => f.seq <= MaxSeqNum
  <2>1. seq_num'[n] <= MaxSeqNum
    BY <1>1, <1>3, ConstantFacts
  <2> SUFFICES ASSUME NEW f \in msgs'
               PROVE  /\ f \in Rreq \cup Rrep \cup Rerr
                      /\ f.type = "RREQ" => f.seq <= MaxSeqNum /\ f.dseq <= MaxSeqNum
                      /\ f.type = "RREP" => f.seq <= MaxSeqNum
    OBVIOUS
  <2>2. CASE f \in msgs
    BY <2>2 DEF TInv, TypeOK, NumbersBounded
  <2>3. CASE f \in Rreq /\ f.seq = m.seq /\ f.dseq = m.dseq
    BY <1>1, <2>3, FrameTypes
  <2>4. CASE f \in Rrep /\ f.seq = seq_num'[n]
    BY <2>1, <2>4, FrameTypes
  <2>5. CASE f \in Rrep /\ f.seq = rt'[n][m.dest].seq
    BY <1>1, <1>2, <2>5, FrameTypes
  <2> QED
    BY <2>2, <2>3, <2>4, <2>5, HandleRreqFrames
<1>5. /\ series' \in [Node -> [Node -> Series]]
      /\ \A o, d \in Node : series'[o][d].dseq <= MaxSeqNum
  <2>1. \/ series' = [series EXCEPT ![n][m.orig] = NoSeries]
        \/ series' = [series EXCEPT ![n][m.orig] = @]
    BY DEF HandleRreq
  <2>2. NoSeries \in Series /\ NoSeries.dseq <= MaxSeqNum
    BY <1>1, SeriesTypes, ConstantFacts
  <2>3. /\ series \in [Node -> [Node -> Series]]
        /\ \A o, d \in Node : series[o][d].dseq <= MaxSeqNum
    BY DEF TInv, TypeOK, NumbersBounded
  <2>4. CASE series' = [series EXCEPT ![n][m.orig] = NoSeries]
    BY <1>1, <2>2, <2>3, <2>4
  <2>5. CASE series' = [series EXCEPT ![n][m.orig] = @]
    BY <1>1, <2>3, <2>5
  <2> QED
    BY <2>1, <2>4, <2>5
<1>6. /\ nht' \in [Node -> SUBSET (Node \X Node)]
      /\ dangling' \in [Node -> SUBSET (Node \X Node)]
  <2>1. \A t : /\ RrepNht(t, nht[n], m.orig, m.from) \subseteq nht[n] \cup {<<m.from, m.orig>>}
               /\ RrepDangling(t, dangling[n], m.orig, m.from) \subseteq dangling[n]
    BY DEF RrepNht, RrepDangling
  <2>2. PICK x, y : /\ nht' = [nht EXCEPT ![n] = x] /\ dangling' = [dangling EXCEPT ![n] = y]
                    /\ x \subseteq nht[n] \cup {<<m.from, m.orig>>}
                    /\ y \subseteq dangling[n]
    BY <2>1 DEF HandleRreq
  <2> QED
    BY <1>1, <2>2 DEF TInv, TypeOK
<1> QED
  BY <1>2, <1>3, <1>4, <1>5, <1>6
     DEF HandleRreq, TInv, TypeOK, NumbersBounded, KnownExists, counts

(* Handling a RREP keeps the invariant. *)
LEMMA RrepStep ==
    ASSUME TInv, NEW m \in msgs, HandleRrep(m)
    PROVE  TInv'
<1> DEFINE n == m.to
<1>1. /\ m \in Rrep /\ m.type = "RREP" /\ n \in Node /\ m.orig \in Node /\ m.dest \in Node
      /\ m.from \in Node /\ m.seq <= MaxSeqNum
  BY HandleRrepTable, FrameTypes, FieldTypes DEF TInv, NumbersBounded
<1>2. /\ rt' \in [Node -> [Node -> Entry]]
      /\ KnownExists'
      /\ \A k, d \in Node : rt'[k][d].seq <= MaxSeqNum
  BY <1>1, HandleRrepTable, TableStep
<1>3. /\ msgs' \subseteq Rreq \cup Rrep \cup Rerr
      /\ \A f \in msgs' : /\ f.type = "RREQ" => f.seq <= MaxSeqNum /\ f.dseq <= MaxSeqNum
                          /\ f.type = "RREP" => f.seq <= MaxSeqNum
  BY <1>1, HandleRrepTable, FrameTypes DEF TInv, TypeOK, NumbersBounded
<1>4. /\ series' \in [Node -> [Node -> Series]]
      /\ \A o, d \in Node : series'[o][d].dseq <= MaxSeqNum
  <2>1. \/ series' = [series EXCEPT ![n][m.dest] = NoSeries]
        \/ series' = [series EXCEPT ![n][m.dest] = @]
        \/ series' = series
    BY DEF HandleRrep
  <2>2. NoSeries \in Series /\ NoSeries.dseq <= MaxSeqNum
    BY <1>1, SeriesTypes, ConstantFacts
  <2>3. /\ series \in [Node -> [Node -> Series]]
        /\ \A o, d \in Node : series[o][d].dseq <= MaxSeqNum
    BY DEF TInv, TypeOK, NumbersBounded
  <2>4. CASE series' = [series EXCEPT ![n][m.dest] = NoSeries]
    BY <1>1, <2>2, <2>3, <2>4
  <2>5. CASE series' = [series EXCEPT ![n][m.dest] = @]
    BY <1>1, <2>3, <2>5
  <2> QED
    BY <2>1, <2>3, <2>4, <2>5
<1>5. /\ nht' \in [Node -> SUBSET (Node \X Node)]
      /\ dangling' \in [Node -> SUBSET (Node \X Node)]
  <2>1. \A t : /\ RrepNht(t, nht[n], m.dest, m.from) \subseteq nht[n] \cup {<<m.from, m.dest>>}
               /\ RrepDangling(t, dangling[n], m.dest, m.from) \subseteq dangling[n]
    BY DEF RrepNht, RrepDangling
  <2>2. CASE ~CaptUsed(rt[n], m.dest, m.seq)
    BY <2>2 DEF HandleRrep, tables, TInv, TypeOK
  <2>3. CASE CaptUsed(rt[n], m.dest, m.seq)
    <3>1. PICK x, y : /\ nht' = [nht EXCEPT ![n] = x] /\ dangling' = [dangling EXCEPT ![n] = y]
                      /\ x \subseteq nht[n] \cup {<<m.from, m.dest>>}
                      /\ y \subseteq dangling[n]
      BY <2>1, <2>3 DEF HandleRrep
    <3> QED
      BY <1>1, <3>1 DEF TInv, TypeOK
  <2> QED
    BY <2>2, <2>3
<1> QED
  BY <1>2, <1>3, <1>4, <1>5
     DEF HandleRrep, TInv, TypeOK, NumbersBounded, KnownExists, counts

(* Handling or sending a RERR keeps the invariant. *)
LEMMA RerrStep ==
    ASSUME TInv,
           \/ \E m \in msgs : HandleRerr(m)
           \/ \E n, x \in Node : SendRerr(n, x) \/ SkipRerr(n, x)
           \/ \E n, d, p \in Node : StrandedData(n, d, p)
    PROVE  TInv'
<1>1. CASE \/ \E m \in msgs : HandleRerr(m)
           \/ \E n, x \in Node : SendRerr(n, x)
  <2>1. /\ rt' \in [Node -> [Node -> Entry]]
        /\ \A n, d \in Node : /\ rt'[n][d].known = rt[n][d].known
                              /\ rt'[n][d].exists = rt[n][d].exists
                              /\ rt'[n][d].seq = rt[n][d].seq
        /\ \A f \in msgs' : f \in msgs \/ f \in Rerr
    BY <1>1, HandleRerrTable, SendRerrTable
  <2>2. /\ \A k, d \in Node : rt'[k][d].known => rt'[k][d].exists
        /\ \A k, d \in Node : rt'[k][d].seq <= MaxSeqNum
    <3>1. /\ \A k, d \in Node : rt[k][d].known => rt[k][d].exists
          /\ \A k, d \in Node : rt[k][d].seq <= MaxSeqNum
      BY DEF TInv, KnownExists, NumbersBounded
    <3>2. \A n, d \in Node : /\ rt'[n][d].known = rt[n][d].known
                             /\ rt'[n][d].exists = rt[n][d].exists
                             /\ rt'[n][d].seq = rt[n][d].seq
      BY <2>1
    <3> QED
      BY <3>1, <3>2, SMTT(30)
  <2>3. /\ msgs' \subseteq Rreq \cup Rrep \cup Rerr
        /\ \A f \in msgs' : /\ f.type = "RREQ" => f.seq <= MaxSeqNum /\ f.dseq <= MaxSeqNum
                            /\ f.type = "RREP" => f.seq <= MaxSeqNum
    BY <2>1, FrameTypes DEF TInv, TypeOK, NumbersBounded
  <2>4. /\ UNCHANGED <<nht, dangling, seq_num, series, neigh, links, counts>>
        /\ rerr_due' \in [Node -> SUBSET Node]
    <3>1. rerr_due \in [Node -> SUBSET Node]
      BY DEF TInv, TypeOK
    <3>2. ASSUME NEW m \in msgs, HandleRerr(m)
          PROVE  UNCHANGED <<nht, dangling, seq_num, series, neigh, rerr_due, links, counts>>
      BY <3>2 DEF HandleRerr
    <3>3. ASSUME NEW n \in Node, NEW x \in Node, SendRerr(n, x)
          PROVE  /\ UNCHANGED <<nht, dangling, seq_num, series, neigh, links, counts>>
                 /\ rerr_due' = [rerr_due EXCEPT ![n] = @ \ {x}]
      BY <3>3 DEF SendRerr
    <3> QED
      BY <1>1, <3>1, <3>2, <3>3
  <2> QED
    BY <2>1, <2>2, <2>3, <2>4 DEF TInv, TypeOK, NumbersBounded, KnownExists, counts
<1>2. ASSUME NEW n \in Node, NEW x \in Node, SkipRerr(n, x) PROVE TInv'
  BY <1>2 DEF SkipRerr, TInv, TypeOK, NumbersBounded, KnownExists, tables, counts
<1>3. ASSUME NEW n \in Node, NEW d \in Node, NEW p \in Node, StrandedData(n, d, p) PROVE TInv'
  <2>1. {<<d, SEQ_MAX>>} \in SUBSET (Node \X SeqNo)
    BY NumberTypes
  <2>2. \A f \in msgs' : f \in msgs \/ f \in Rerr
    <3> DEFINE lost == {<<d, SEQ_MAX>>}
    <3>1. msgs' = msgs \cup RerrFrames(n, n, lost)
      BY <1>3 DEF StrandedData
    <3> HIDE DEF lost
    <3> QED
      BY <2>1, <3>1, RerrFramesEffect DEF lost
  <2>3. /\ msgs' \subseteq Rreq \cup Rrep \cup Rerr
        /\ \A f \in msgs' : /\ f.type = "RREQ" => f.seq <= MaxSeqNum /\ f.dseq <= MaxSeqNum
                            /\ f.type = "RREP" => f.seq <= MaxSeqNum
    BY <2>2, FrameTypes DEF TInv, TypeOK, NumbersBounded
  <2> QED
    BY <1>3, <2>3 DEF StrandedData, TInv, TypeOK, NumbersBounded, KnownExists, tables, counts
<1> QED
  BY <1>1, <1>2, <1>3

(* Faults keep the invariant. *)
LEMMA FaultStep ==
    ASSUME TInv,
           \/ \E l \in links : BreakLink(l)
           \/ \E n, x \in Node : NeighbourTimeout(n, x)
           \/ \E n, d \in Node : Expire(n, d)
           \/ \E n \in Node : Restart(n)
    PROVE  TInv'
<1>1. breaks \in Nat /\ restarts \in Nat /\ expiries \in Nat /\ MaxFaults \in Nat
  BY ConstantFacts DEF TInv, TypeOK
<1>2. ASSUME NEW l \in links, BreakLink(l) PROVE TInv'
  BY <1>1, <1>2 DEF BreakLink, faults, TInv, TypeOK, NumbersBounded, KnownExists, tables
<1>3. ASSUME NEW n \in Node, NEW x \in Node, NeighbourTimeout(n, x) PROVE TInv'
  BY <1>3 DEF NeighbourTimeout, TInv, TypeOK, NumbersBounded, KnownExists, tables, counts
<1>4. ASSUME NEW n \in Node, NEW d \in Node, Expire(n, d) PROVE TInv'
  <2>1. rt' = [rt EXCEPT ![n] = [@ EXCEPT ![d] = Absent]]
    BY <1>4 DEF Expire, PurgeEntry
  <2>2. /\ rt' \in [Node -> [Node -> Entry]] /\ KnownExists'
        /\ \A k, j \in Node : rt'[k][j].seq <= MaxSeqNum
    BY <2>1, AbsentType, ConstantFacts DEF TInv, TypeOK, KnownExists, NumbersBounded
  <2>3. /\ nht' \in [Node -> SUBSET (Node \X Node)]
        /\ dangling' \in [Node -> SUBSET (Node \X Node)]
    BY <1>4 DEF Expire, PurgeNht, PurgeDangling, TInv, TypeOK
  <2> QED
    BY <1>1, <1>4, <2>2, <2>3 DEF Expire, faults, TInv, TypeOK, NumbersBounded, KnownExists
<1>5. ASSUME NEW n \in Node, Restart(n) PROVE TInv'
  <2>1. /\ rt' \in [Node -> [Node -> Entry]] /\ KnownExists'
        /\ \A k, j \in Node : rt'[k][j].seq <= MaxSeqNum
    BY <1>5, AbsentType, ConstantFacts DEF Restart, TInv, TypeOK, KnownExists, NumbersBounded
  <2>2. /\ series' \in [Node -> [Node -> Series]]
        /\ \A k, j \in Node : series'[k][j].dseq <= MaxSeqNum
    <3>1. NoSeries \in Series /\ NoSeries.dseq <= MaxSeqNum
      BY SeriesTypes, ConstantFacts
    <3>2. series' = [series EXCEPT ![n] = [d \in Node |-> NoSeries]]
      BY <1>5 DEF Restart
    <3> QED
      BY <3>1, <3>2 DEF TInv, TypeOK, NumbersBounded
  <2>3. Neighbours(n) \in SUBSET Node /\ 0 \in 0..MaxSeqNum
    BY ConstantFacts DEF Neighbours
  <2> QED
    BY <1>1, <1>5, <2>1, <2>2, <2>3 DEF Restart, faults, TInv, TypeOK, NumbersBounded, KnownExists
<1> QED
  BY <1>2, <1>3, <1>4, <1>5
(* The network starts in the invariant. *)
LEMMA TInvInit == Init => TInv
<1> SUFFICES ASSUME Init PROVE TInv
  OBVIOUS
<1>1. /\ Absent \in Entry /\ ~Absent.known /\ Absent.seq = 0 /\ 0 \in 0..MaxSeqNum
      /\ 0 \in 0..MaxFaults
  BY AbsentType, ConstantFacts
<1>2. NoSeries \in Series /\ NoSeries.dseq = 0
  BY NumberTypes DEF NoSeries, Series
<1>3. \A n, d \in Node : rt[n][d] = Absent /\ series[n][d] = NoSeries
  BY DEF Init
<1>4. /\ rt \in [Node -> [Node -> Entry]] /\ series \in [Node -> [Node -> Series]]
      /\ seq_num \in [Node -> 0..MaxSeqNum]
  BY <1>1, <1>2 DEF Init
<1>5. NumbersBounded /\ KnownExists
  BY <1>1, <1>2, <1>3 DEF Init, NumbersBounded, KnownExists
<1> QED
  BY <1>1, <1>4, <1>5 DEF Init, TInv, TypeOK

(* Every step keeps it. *)
LEMMA TInvStep == TInv /\ [Next]_vars => TInv'
<1> SUFFICES ASSUME TInv, [Next]_vars PROVE TInv'
  OBVIOUS
<1>1. CASE UNCHANGED vars
  BY <1>1 DEF vars, TInv, TypeOK, NumbersBounded, KnownExists
<1>2. ASSUME NEW o \in Node, NEW d \in Node,
             StartDiscovery(o, d) \/ RepeatRreq(o, d) \/ GiveUp(o, d)
      PROVE  TInv'
  BY <1>2, StartStep
<1>3. ASSUME NEW m \in msgs, Receive(m) PROVE TInv'
  BY <1>3, RreqStep, RrepStep, RerrStep DEF Receive
<1>4. CASE \/ \E n, x \in Node : SendRerr(n, x) \/ SkipRerr(n, x)
           \/ \E n, d, p \in Node : StrandedData(n, d, p)
  BY <1>4, RerrStep
<1>5. CASE \/ \E l \in links : BreakLink(l)
           \/ \E n, x \in Node : NeighbourTimeout(n, x)
           \/ \E n, d \in Node : Expire(n, d)
           \/ \E n \in Node : Restart(n)
  BY <1>5, FaultStep
<1> QED
  BY <1>1, <1>2, <1>3, <1>4, <1>5 DEF Next

(* The invariant of the tables and frames holds in every state. *)
LEMMA TInvariance == Spec => []TInv
BY TInvInit, TInvStep, PTL DEF Spec

(* Every table entry, frame and counter always has its type: no node uses  *)
(* more than its sequence numbers, whatever is asked of it in a RREQ.      *)
THEOREM NetworkTypeCorrect == Spec => []TypeOK
<1>1. TInv => TypeOK
  BY DEF TInv
<1> QED
  BY <1>1, TInvariance, PTL

-----------------------------------------------------------------------------
(* What SeqNotAhead says of the tables, the series and a frame. *)
TablesBehind == \A n, d \in Node : rt[n][d].seq <= seq_num[d]
SeriesBehind == \A o, d \in Node : series[o][d].dseq <= seq_num[d]
FrameBehind(m) ==
    /\ m.type = "RREQ" => m.seq <= seq_num[m.orig] /\ m.dseq <= seq_num[m.dest]
    /\ m.type = "RREP" => m.seq <= seq_num[m.dest]

(* Its parts, put together. *)
LEMMA SeqNotAheadParts ==
    SeqNotAhead <=> (restarts = 0 => /\ TablesBehind /\ SeriesBehind
                                     /\ \A m \in msgs : FrameBehind(m))
BY DEF SeqNotAhead, TablesBehind, SeriesBehind, FrameBehind

(* While the nodes' own numbers only grow, what was behind stays behind. *)
LEMMA StaysBehind ==
    ASSUME TInv, TInv', TablesBehind, SeriesBehind, \A m \in msgs : FrameBehind(m),
           \A n \in Node : seq_num[n] <= seq_num'[n]
    PROVE  /\ \A n, d \in Node : rt[n][d].seq <= seq_num'[d]
           /\ \A o, d \in Node : series[o][d].dseq <= seq_num'[d]
           /\ \A m \in msgs : FrameBehind(m)'
           /\ \A d \in Node : 0 <= seq_num'[d]
<1>1. /\ seq_num \in [Node -> Nat] /\ seq_num' \in [Node -> Nat]
      /\ rt \in [Node -> [Node -> Entry]]
      /\ series \in [Node -> [Node -> Series]]
      /\ msgs \subseteq Rreq \cup Rrep \cup Rerr
  BY ConstantFacts DEF TInv, TypeOK
<1>2. \A n, d \in Node : rt[n][d].seq \in Nat
  BY <1>1, FieldTypes, NumberTypes
<1>3. \A n, d \in Node : series[n][d].dseq \in Nat
  BY <1>1, NumberTypes DEF Series
<1>4. ASSUME NEW m \in msgs PROVE FrameBehind(m)'
  <2>1. CASE m.type = "RREQ"
    <3>1. m \in Rreq /\ m.orig \in Node /\ m.dest \in Node /\ m.seq \in Nat /\ m.dseq \in Nat
      BY <1>1, <2>1, FrameTypes, FieldTypes, NumberTypes
    <3> QED
      BY <1>1, <2>1, <3>1 DEF FrameBehind
  <2>2. CASE m.type = "RREP"
    <3>1. m \in Rrep /\ m.dest \in Node /\ m.seq \in Nat
      BY <1>1, <2>2, FrameTypes, FieldTypes, NumberTypes
    <3> QED
      BY <1>1, <2>2, <3>1 DEF FrameBehind
  <2> QED
    BY <2>1, <2>2 DEF FrameBehind
<1>5. ASSUME NEW n \in Node, NEW d \in Node PROVE rt[n][d].seq <= seq_num'[d]
  BY <1>1, <1>2 DEF TablesBehind
<1>6. ASSUME NEW o \in Node, NEW d \in Node PROVE series[o][d].dseq <= seq_num'[d]
  BY <1>1, <1>3 DEF SeriesBehind
<1> QED
  BY <1>1, <1>4, <1>5, <1>6

(* The destination's answer to a RREQ does not put it behind: it takes over *)
(* the number asked for only if that is greater, which it never is.         *)
LEMMA SeqAfterRreq ==
    ASSUME TInv, NEW m \in msgs, HandleRreq(m), FrameBehind(m)
    PROVE  \A n \in Node : seq_num[n] <= seq_num'[n]
<1> DEFINE n == m.to
           result == CaptResult(rt[n], m.orig, m.seq, MetricDo(m.metric))
<1>1. /\ m \in Rreq /\ m.type = "RREQ" /\ n \in Node /\ m.dseq \in Nat
      /\ seq_num \in [Node -> Nat]
  BY HandleRreqTable, FrameTypes, FieldTypes, NumberTypes, ConstantFacts DEF TInv, TypeOK
<1>2. m.dest = n => ReplySeq(m, result) >= seq_num[n] /\ ReplySeq(m, result) \in Nat
  <2>1. result = "METRIC_HIT" /\ m.dest = n => seq_num[n] < MaxSeqNum
    BY DEF HandleRreq
  <2>2. m.dest = n => /\ ReplySeq(m, result) >= seq_num[n]
                      /\ ReplySeq(m, result) \in 0..MaxSeqNum
    <3> HIDE DEF result
    <3> QED
      BY <1>1, <2>1, ReplyNumber
  <2> QED
    BY <2>2, ConstantFacts
<1>3. seq_num' = [seq_num EXCEPT ![n] =
            IF m.dest = n /\ result # "OLD" THEN ReplySeq(m, result) ELSE @]
  BY DEF HandleRreq
<1> HIDE DEF result
<1> QED
  BY <1>1, <1>2, <1>3

(* A RREQ leaves nobody ahead: the new numbers come from the RREQ, which   *)
(* is behind, or are the destination's own.                                *)
LEMMA SeqRreqStep ==
    ASSUME TInv, TInv', TablesBehind, SeriesBehind, \A m \in msgs : FrameBehind(m),
           NEW m \in msgs, HandleRreq(m)
    PROVE  TablesBehind' /\ SeriesBehind' /\ \A f \in msgs' : FrameBehind(f)'
<1>1. /\ \A n, d \in Node : rt[n][d].seq <= seq_num'[d]
      /\ \A o, d \in Node : series[o][d].dseq <= seq_num'[d]
      /\ \A f \in msgs : FrameBehind(f)'
      /\ \A d \in Node : 0 <= seq_num'[d]
  BY SeqAfterRreq, StaysBehind
<1>2. /\ m \in Rreq /\ m.type = "RREQ" /\ m.to \in Node /\ m.orig \in Node /\ m.dest \in Node
      /\ m.seq <= seq_num'[m.orig] /\ m.dseq <= seq_num'[m.dest]
  BY <1>1, HandleRreqTable, FrameTypes, FieldTypes DEF FrameBehind
<1>3. TablesBehind'
  <2>1. /\ \A k \in Node : k # m.to => rt'[k] = rt[k]
        /\ TableAfter(rt[m.to], rt'[m.to], m.orig, m.from, m.seq)
    BY HandleRreqTable
  <2> QED
    BY <1>1, <1>2, <2>1 DEF TableAfter, TablesBehind
<1>4. SeriesBehind'
  <2>1. \/ series' = [series EXCEPT ![m.to][m.orig] = NoSeries]
        \/ series' = [series EXCEPT ![m.to][m.orig] = @]
    BY DEF HandleRreq
  <2>2. NoSeries.dseq = 0 /\ series \in [Node -> [Node -> Series]]
    BY DEF NoSeries, TInv, TypeOK
  <2>3. CASE series' = [series EXCEPT ![m.to][m.orig] = NoSeries]
    BY <1>1, <1>2, <2>2, <2>3 DEF SeriesBehind
  <2>4. CASE series' = [series EXCEPT ![m.to][m.orig] = @]
    BY <1>1, <1>2, <2>2, <2>4 DEF SeriesBehind
  <2> QED
    BY <2>1, <2>3, <2>4
<1>5. ASSUME NEW f \in msgs' PROVE FrameBehind(f)'
  <2>1. CASE f \in msgs
    BY <1>1, <2>1
  <2>2. CASE /\ f \in Rreq /\ f.orig = m.orig /\ f.dest = m.dest
             /\ f.seq = m.seq /\ f.dseq = m.dseq
    <3>1. f.type = "RREQ"
      BY <2>2, FrameTypes
    <3> QED
      BY <1>2, <2>2, <3>1 DEF FrameBehind
  <2>3. CASE f \in Rrep /\ f.dest = m.dest /\ m.dest = m.to /\ f.seq = seq_num'[m.to]
    <3>1. f.type = "RREP" /\ seq_num'[m.to] \in Nat
      BY <1>2, <2>3, FrameTypes, ConstantFacts DEF TInv, TypeOK
    <3> QED
      BY <1>2, <2>3, <3>1 DEF FrameBehind
  <2>4. CASE f \in Rrep /\ f.dest = m.dest /\ f.seq = rt'[m.to][m.dest].seq
    <3>1. f.type = "RREP"
      BY <2>4, FrameTypes
    <3> QED
      BY <1>2, <1>3, <2>4, <3>1 DEF FrameBehind, TablesBehind
  <2> QED
    BY <2>1, <2>2, <2>3, <2>4, HandleRreqFrames
<1> QED
  BY <1>3, <1>4, <1>5

(* Neither does a RREP, whose number is behind its destination's. *)
LEMMA SeqRrepStep ==
    ASSUME TInv, TInv', TablesBehind, SeriesBehind, \A m \in msgs : FrameBehind(m),
           NEW m \in msgs, HandleRrep(m)
    PROVE  TablesBehind' /\ SeriesBehind' /\ \A f \in msgs' : FrameBehind(f)'
<1>0. seq_num' = seq_num /\ seq_num \in [Node -> Nat]
  BY ConstantFacts DEF HandleRrep, TInv, TypeOK
<1>1. /\ \A n, d \in Node : rt[n][d].seq <= seq_num'[d]
      /\ \A o, d \in Node : series[o][d].dseq <= seq_num'[d]
      /\ \A f \in msgs : FrameBehind(f)'
      /\ \A d \in Node : 0 <= seq_num'[d]
  <2>1. \A n \in Node : seq_num[n] <= seq_num'[n]
    BY <1>0
  <2> QED
    BY <2>1, StaysBehind
<1>2. /\ m \in Rrep /\ m.type = "RREP" /\ m.to \in Node /\ m.dest \in Node
      /\ m.seq <= seq_num'[m.dest]
  BY <1>1, HandleRrepTable, FrameTypes, FieldTypes DEF FrameBehind
<1>3. TablesBehind'
  <2>1. /\ \A k \in Node : k # m.to => rt'[k] = rt[k]
        /\ TableAfter(rt[m.to], rt'[m.to], m.dest, m.from, m.seq)
    BY HandleRrepTable
  <2> QED
    BY <1>1, <1>2, <2>1 DEF TableAfter, TablesBehind
<1>4. SeriesBehind'
  <2>1. \/ series' = [series EXCEPT ![m.to][m.dest] = NoSeries]
        \/ series' = [series EXCEPT ![m.to][m.dest] = @]
        \/ series' = series
    BY DEF HandleRrep
  <2>2. NoSeries.dseq = 0 /\ series \in [Node -> [Node -> Series]]
    BY DEF NoSeries, TInv, TypeOK
  <2>3. CASE series' = [series EXCEPT ![m.to][m.dest] = NoSeries]
    BY <1>1, <1>2, <2>2, <2>3 DEF SeriesBehind
  <2>4. CASE series' = [series EXCEPT ![m.to][m.dest] = @]
    BY <1>1, <1>2, <2>2, <2>4 DEF SeriesBehind
  <2> QED
    BY <1>1, <2>1, <2>3, <2>4 DEF SeriesBehind
<1>5. ASSUME NEW f \in msgs' PROVE FrameBehind(f)'
  <2>1. CASE f \in msgs
    BY <1>1, <2>1
  <2>2. CASE f \in Rrep /\ f.dest = m.dest /\ f.seq = m.seq
    <3>1. f.type = "RREP"
      BY <2>2, FrameTypes
    <3> QED
      BY <1>2, <2>2, <3>1 DEF FrameBehind
  <2> QED
    BY <2>1, <2>2, HandleRrepTable
<1> QED
  BY <1>3, <1>4, <1>5

(* Nor does a RREQ of its originator, whose own number it counts up. *)
LEMMA SeqStartStep ==
    ASSUME TInv, TInv', TablesBehind, SeriesBehind, \A m \in msgs : FrameBehind(m),
           NEW o \in Node, NEW d \in Node,
           StartDiscovery(o, d) \/ RepeatRreq(o, d) \/ GiveUp(o, d)
    PROVE  TablesBehind' /\ SeriesBehind' /\ \A f \in msgs' : FrameBehind(f)'
<1>1. /\ NewSeries(o, d) \in Series /\ NewSeries(o, d).dseq <= MaxSeqNum
      /\ NewSeries(o, d).dseq = 0 \/ NewSeries(o, d).dseq = rt[o][d].seq
      /\ series[o][d] \in Series /\ series[o][d].dseq <= MaxSeqNum
      /\ NoSeries \in Series /\ NoSeries.dseq = 0 /\ 0 <= MaxSeqNum
      /\ seq_num \in [Node -> Nat] /\ series \in [Node -> [Node -> Series]]
  BY SeriesTypes, ConstantFacts DEF TInv, TypeOK
<1>2. \E s \in Series :
        /\ s.dseq <= MaxSeqNum
        /\ s.dseq = 0 \/ s.dseq = rt[o][d].seq \/ s.dseq = series[o][d].dseq
        /\ series' = [series EXCEPT ![o][d] = s] \/ series' = series
        /\ rt' = rt /\ seq_num' \in [Node -> 0..MaxSeqNum]
        /\ \A n \in Node : seq_num[n] <= seq_num'[n]
        /\ \A f \in msgs' : \/ f \in msgs
                            \/ /\ f \in Rreq /\ f.orig = o /\ f.dest = d
                               /\ f.seq = seq_num'[o] /\ f.dseq = s.dseq
  <2>1. CASE GiveUp(o, d)
    <3>1. /\ series' = [series EXCEPT ![o][d] = NoSeries]
          /\ rt' = rt /\ seq_num' = seq_num /\ msgs' = msgs
          /\ seq_num \in [Node -> 0..MaxSeqNum]
      BY <2>1 DEF GiveUp, tables, TInv, TypeOK
    <3>2. \A n \in Node : seq_num[n] <= seq_num'[n]
      BY <1>1, <3>1
    <3> QED
      BY <1>1, <3>1, <3>2
  <2>2. CASE StartDiscovery(o, d)
    <3>1. /\ series' = [series EXCEPT ![o][d] = NewSeries(o, d)]
          /\ SendRreq(o, d, NewSeries(o, d)) \/ PostponeRreq
      BY <2>2 DEF StartDiscovery, NewSeries
    <3> DEFINE s == NewSeries(o, d)
    <3> HIDE DEF s
    <3>2. /\ rt' = rt /\ seq_num' \in [Node -> 0..MaxSeqNum]
          /\ \A n \in Node : seq_num[n] <= seq_num'[n]
          /\ \A f \in msgs' : \/ f \in msgs
                              \/ /\ f \in Rreq /\ f.orig = o /\ f.dest = d
                                 /\ f.seq = seq_num'[o] /\ f.dseq = NewSeries(o, d).dseq
      BY <1>1, <3>1, SendRreqEffect
    <3> QED
      BY <1>1, <3>1, <3>2
  <2>3. CASE RepeatRreq(o, d)
    <3>1. series' = series /\ SendRreq(o, d, series[o][d])
      BY <2>3 DEF RepeatRreq
    <3>2. /\ rt' = rt /\ seq_num' \in [Node -> 0..MaxSeqNum]
          /\ \A n \in Node : seq_num[n] <= seq_num'[n]
          /\ \A f \in msgs' : \/ f \in msgs
                              \/ /\ f \in Rreq /\ f.orig = o /\ f.dest = d
                                 /\ f.seq = seq_num'[o] /\ f.dseq = series[o][d].dseq
      BY <1>1, <3>1, SendRreqEffect
    <3> QED
      BY <1>1, <3>1, <3>2
  <2> QED
    BY <2>1, <2>2, <2>3
<1>3. PICK s \in Series :
        /\ s.dseq <= MaxSeqNum
        /\ s.dseq = 0 \/ s.dseq = rt[o][d].seq \/ s.dseq = series[o][d].dseq
        /\ series' = [series EXCEPT ![o][d] = s] \/ series' = series
        /\ rt' = rt /\ seq_num' \in [Node -> 0..MaxSeqNum]
        /\ \A n \in Node : seq_num[n] <= seq_num'[n]
        /\ \A f \in msgs' : \/ f \in msgs
                            \/ /\ f \in Rreq /\ f.orig = o /\ f.dest = d
                               /\ f.seq = seq_num'[o] /\ f.dseq = s.dseq
  BY <1>2
<1>4. /\ \A n, j \in Node : rt[n][j].seq <= seq_num'[j]
      /\ \A n, j \in Node : series[n][j].dseq <= seq_num'[j]
      /\ \A f \in msgs : FrameBehind(f)'
      /\ \A j \in Node : 0 <= seq_num'[j]
  BY <1>3, StaysBehind
<1>5. TablesBehind'
  BY <1>3, <1>4 DEF TablesBehind
<1>6. s.dseq <= seq_num'[d]
  BY <1>3, <1>4
<1>7. SeriesBehind'
  <2>1. ASSUME NEW n \in Node, NEW j \in Node PROVE series'[n][j].dseq <= seq_num'[j]
    <3>1. series'[n][j] = series[n][j] \/ (j = d /\ series'[n][j] = s)
      BY <1>1, <1>3
    <3> QED
      BY <1>4, <1>6, <3>1
  <2> QED
    BY <2>1 DEF SeriesBehind
<1>8. ASSUME NEW f \in msgs' PROVE FrameBehind(f)'
  <2>1. CASE f \in msgs
    BY <1>4, <2>1
  <2>2. CASE /\ f \in Rreq /\ f.orig = o /\ f.dest = d
             /\ f.seq = seq_num'[o] /\ f.dseq = s.dseq
    <3>1. f.type = "RREQ" /\ seq_num'[o] \in Nat
      BY <1>3, <2>2, FrameTypes, ConstantFacts
    <3> QED
      BY <1>6, <2>2, <3>1 DEF FrameBehind
  <2> QED
    BY <1>3, <2>1, <2>2
<1> QED
  BY <1>5, <1>7, <1>8

(* No step puts anybody ahead of a node that never restarts. *)
LEMMA SeqStep == TInv /\ TInv' /\ SeqNotAhead /\ [Next]_vars => SeqNotAhead'
<1> SUFFICES ASSUME TInv, TInv', SeqNotAhead, [Next]_vars, restarts' = 0
             PROVE  TablesBehind' /\ SeriesBehind' /\ \A m \in msgs' : FrameBehind(m)'
  BY DEF SeqNotAhead, TablesBehind, SeriesBehind, FrameBehind
<1> DEFINE Behind == TablesBehind /\ SeriesBehind /\ \A m \in msgs : FrameBehind(m)
<1>0. restarts \in Nat /\ (restarts = 0 => Behind)
  BY SeqNotAheadParts, ConstantFacts DEF TInv, TypeOK
<1>1. CASE UNCHANGED vars
  <2>1. restarts = 0
    BY <1>1 DEF vars
  <2> QED
    BY <1>0, <1>1, <2>1 DEF vars, TablesBehind, SeriesBehind, FrameBehind
<1>2. ASSUME NEW o \in Node, NEW d \in Node,
             StartDiscovery(o, d) \/ RepeatRreq(o, d) \/ GiveUp(o, d)
      PROVE  Behind'
  <2>1. restarts = 0
    BY <1>2 DEF StartDiscovery, RepeatRreq, GiveUp, SendRreq, PostponeRreq, counts
  <2> QED
    BY <1>0, <1>2, <2>1, SeqStartStep
<1>3. ASSUME NEW m \in msgs, HandleRreq(m) PROVE Behind'
  <2>1. restarts = 0
    BY <1>3 DEF HandleRreq, counts
  <2> QED
    BY <1>0, <1>3, <2>1, SeqRreqStep
<1>4. ASSUME NEW m \in msgs, HandleRrep(m) PROVE Behind'
  <2>1. restarts = 0
    BY <1>4 DEF HandleRrep, counts
  <2> QED
    BY <1>0, <1>4, <2>1, SeqRrepStep
<1>5. ASSUME /\ \A n, d \in Node : rt'[n][d].seq = rt[n][d].seq \/ rt'[n][d].seq = 0
             /\ \A f \in msgs' : f \in msgs \/ f \in Rerr
             /\ UNCHANGED <<seq_num, series, restarts>>
      PROVE  Behind'
  <2>1. Behind /\ seq_num \in [Node -> Nat]
    BY <1>0, <1>5, ConstantFacts DEF TInv, TypeOK
  <2>2. TablesBehind'
    BY <1>5, <2>1 DEF TablesBehind
  <2>3. \A f \in msgs' : FrameBehind(f)'
    BY <1>5, <2>1, FrameTypes DEF FrameBehind
  <2> QED
    BY <1>5, <2>1, <2>2, <2>3 DEF SeriesBehind
<1>6. ASSUME NEW m \in msgs, HandleRerr(m) PROVE Behind'
  <2>1. UNCHANGED <<seq_num, series, restarts>>
    BY <1>6 DEF HandleRerr, counts
  <2> QED
    BY <1>5, <1>6, <2>1, HandleRerrTable
<1>7. ASSUME NEW n \in Node, NEW x \in Node, SendRerr(n, x) PROVE Behind'
  <2>1. UNCHANGED <<seq_num, series, restarts>>
    BY <1>7 DEF SendRerr, counts
  <2> QED
    BY <1>5, <1>7, <2>1, SendRerrTable
<1>8. ASSUME NEW n \in Node, NEW d \in Node, NEW p \in Node, StrandedData(n, d, p)
      PROVE  Behind'
  <2>1. \A f \in msgs' : f \in msgs \/ f \in Rerr
    <3> DEFINE lost == {<<d, SEQ_MAX>>}
    <3>1. msgs' = msgs \cup RerrFrames(n, n, lost) /\ lost \in SUBSET (Node \X SeqNo)
      BY <1>8, NumberTypes DEF StrandedData
    <3> HIDE DEF lost
    <3> QED
      BY <3>1, RerrFramesEffect
  <2> QED
    BY <1>5, <1>8, <2>1 DEF StrandedData, tables, counts
<1>9. ASSUME \/ \E n, x \in Node : SkipRerr(n, x) \/ NeighbourTimeout(n, x)
             \/ \E l \in links : BreakLink(l)
      PROVE  Behind'
  BY <1>5, <1>9 DEF SkipRerr, NeighbourTimeout, BreakLink, tables, counts
<1>10. ASSUME NEW n \in Node, NEW d \in Node, Expire(n, d) PROVE Behind'
  <2>1. /\ rt' = [rt EXCEPT ![n] = [@ EXCEPT ![d] = Absent]]
        /\ UNCHANGED <<seq_num, series, restarts, msgs>>
    BY <1>10 DEF Expire, PurgeEntry
  <2> QED
    BY <1>5, <2>1, AbsentType DEF TInv, TypeOK
<1>11. ASSUME NEW n \in Node, Restart(n) PROVE FALSE
  BY <1>0, <1>11 DEF Restart
<1> QED
  BY <1>1, <1>2, <1>3, <1>4, <1>6, <1>7, <1>8, <1>9, <1>10, <1>11 DEF Next, Receive

(* As long as no node restarts, nobody anywhere has a newer sequence       *)
(* number for a node than the node itself, so that what the node sends     *)
(* next is never taken for old.                                            *)
THEOREM NobodyIsAhead == Spec => []SeqNotAhead
<1>1. Init => SeqNotAhead
  <2> SUFFICES ASSUME Init PROVE SeqNotAhead
    OBVIOUS
  <2>1. \A n, d \in Node : rt[n][d] = Absent /\ series[n][d] = NoSeries
    BY DEF Init
  <2>2. Absent.seq = 0 /\ NoSeries.dseq = 0
    BY AbsentType DEF NoSeries
  <2> QED
    BY <2>1, <2>2 DEF Init, SeqNotAhead
<1> QED
  BY <1>1, SeqStep, TInvariance, PTL DEF Spec

-----------------------------------------------------------------------------
(* No handler makes a node know a route to itself: aodv_drop_errors keeps  *)
(* away the RREQs it created and the RREPs in its own name.                *)
LEMMA SelfStep == TInv /\ NoRouteToSelf /\ [Next]_vars => NoRouteToSelf'
<1> SUFFICES ASSUME TInv, NoRouteToSelf, [Next]_vars,
                    NEW n \in Node, rt'[n][n].known, ~rt[n][n].known
             PROVE  FALSE
  BY DEF NoRouteToSelf
<1>1. CASE UNCHANGED rt
  BY <1>1
<1>2. ASSUME NEW m \in msgs, Receive(m), HandleRreq(m) PROVE FALSE
  <2>1. m.orig # m.to
    BY <1>2 DEF Receive, Dropped, HandleRreq
  <2>2. /\ \A k \in Node : k # m.to => rt'[k] = rt[k]
        /\ TableAfter(rt[m.to], rt'[m.to], m.orig, m.from, m.seq)
    BY <1>2, HandleRreqTable
  <2> QED
    BY <2>1, <2>2 DEF TableAfter
<1>3. ASSUME NEW m \in msgs, Receive(m), HandleRrep(m) PROVE FALSE
  <2>1. m.dest # m.to
    BY <1>3 DEF Receive, Dropped, HandleRrep
  <2>2. /\ \A k \in Node : k # m.to => rt'[k] = rt[k]
        /\ TableAfter(rt[m.to], rt'[m.to], m.dest, m.from, m.seq)
    BY <1>3, HandleRrepTable
  <2> QED
    BY <2>1, <2>2 DEF TableAfter
<1>4. ASSUME NEW m \in msgs, HandleRerr(m) PROVE FALSE
  BY <1>4, HandleRerrTable
<1>5. ASSUME NEW k \in Node, NEW x \in Node, SendRerr(k, x) PROVE FALSE
  BY <1>5, SendRerrTable
<1>6. ASSUME NEW k \in Node, NEW d \in Node, Expire(k, d) PROVE FALSE
  <2>1. rt' = [rt EXCEPT ![k] = [@ EXCEPT ![d] = Absent]]
    BY <1>6 DEF Expire, PurgeEntry
  <2> QED
    BY <2>1, AbsentType DEF TInv, TypeOK
<1>7. ASSUME NEW k \in Node, Restart(k) PROVE FALSE
  BY <1>7, AbsentType DEF Restart, TInv, TypeOK
<1> QED
  BY <1>1, <1>2, <1>3, <1>4, <1>5, <1>6, <1>7
     DEF Next, vars, Receive, StartDiscovery, RepeatRreq, GiveUp, SendRreq, PostponeRreq,
         SkipRerr, StrandedData, BreakLink, NeighbourTimeout, tables

(* No node ever routes packets for itself to a neighbour, in any network   *)
(* and after any faults.                                                   *)
THEOREM NobodyRoutesToItself == Spec => []NoRouteToSelf
<1>1. Init => NoRouteToSelf
  BY AbsentType DEF Init, NoRouteToSelf
<1> QED
  BY <1>1, SelfStep, TInvariance, PTL DEF Spec

-----------------------------------------------------------------------------
(* n knows d, or is d. *)
Knows(n, d) == n \in Node /\ (n = d \/ rt[n][d].known)

(* A next hop knows the destination, and so does the sender of a frame     *)
(* that makes a node known: who receives the frame will take the sender    *)
(* for its next hop.                                                       *)
HopsKnow   == \A n, d \in Node : rt[n][d].known => Knows(rt[n][d].next, d)
FrameKnown(m) ==
    /\ m.type = "RREQ" => Knows(m.from, m.orig)
    /\ m.type = "RREP" => Knows(m.from, m.dest)
Known == HopsKnow /\ \A m \in msgs : FrameKnown(m)
KInv  == restarts + expiries = 0 => Known

(* What a step must do to keep this. *)
LEMMA KnownStays ==
    ASSUME TInv, TInv', Known,
           \A n, d \in Node : rt[n][d].known => rt'[n][d].known,
           \A n, d \in Node : rt'[n][d].known =>
                \/ rt[n][d].known /\ rt'[n][d].next = rt[n][d].next
                \/ Knows(rt'[n][d].next, d),
           \A f \in msgs' : f \in msgs \/ FrameKnown(f)'
    PROVE  Known'
<1>1. \A n : \A d \in Node : Knows(n, d) => Knows(n, d)'
  BY DEF Knows
<1>2. HopsKnow'
  BY <1>1 DEF Known, HopsKnow
<1>3. \A f \in msgs : FrameKnown(f)'
  <2> SUFFICES ASSUME NEW f \in msgs PROVE FrameKnown(f)'
    OBVIOUS
  <2>1. /\ f.type = "RREQ" => f.orig \in Node
        /\ f.type = "RREP" => f.dest \in Node
    BY FrameTypes, FieldTypes DEF TInv, TypeOK
  <2> QED
    BY <1>1, <2>1 DEF Known, FrameKnown
<1> QED
  BY <1>2, <1>3 DEF Known

(* A node that takes in a table change of TableAfter keeps it. *)
LEMMA KnownTable ==
    ASSUME TInv, TInv', Known, NEW n \in Node, NEW d0 \in Node, NEW hop, NEW seq,
           \A k \in Node : k # n => rt'[k] = rt[k],
           TableAfter(rt[n], rt'[n], d0, hop, seq),
           Knows(hop, d0),
           \A f \in msgs' : f \in msgs \/ FrameKnown(f)'
    PROVE  Known'
<1>1. \A k, d \in Node : rt[k][d].known => rt'[k][d].known
  BY DEF TableAfter
<1>2. \A k, d \in Node : rt'[k][d].known =>
        \/ rt[k][d].known /\ rt'[k][d].next = rt[k][d].next
        \/ Knows(rt'[k][d].next, d)
  BY DEF TableAfter
<1> QED
  BY <1>1, <1>2, KnownStays

(* Every step keeps it while nobody restarts and nothing expires. *)
LEMMA KnownStep == TInv /\ TInv' /\ KInv /\ [Next]_vars => KInv'
<1> SUFFICES ASSUME TInv, TInv', KInv, [Next]_vars, (restarts + expiries)' = 0 PROVE Known'
  BY DEF KInv
<1>0. restarts \in Nat /\ expiries \in Nat /\ (restarts = 0 /\ expiries = 0 => Known)
  BY ConstantFacts DEF KInv, TInv, TypeOK
<1>00. restarts' = 0 /\ expiries' = 0
  <2>1. restarts' \in Nat /\ expiries' \in Nat
    BY ConstantFacts DEF TInv, TypeOK
  <2>2. \A i, j \in Nat : i + j = 0 => i = 0 /\ j = 0
    OBVIOUS
  <2> QED
    BY <2>1, <2>2
<1>1. ASSUME UNCHANGED <<restarts, expiries>>,
             \A n, d \in Node : /\ rt'[n][d].known = rt[n][d].known
                                /\ rt'[n][d].next = rt[n][d].next,
             \A f \in msgs' : f \in msgs \/ f \in Rerr
      PROVE  Known'
  <2>1. \A f \in msgs' : f \in msgs \/ FrameKnown(f)'
    BY <1>1, FrameTypes DEF FrameKnown
  <2> QED
    BY <1>0, <1>00, <1>1, <2>1, KnownStays
<1>2. ASSUME NEW o \in Node, NEW d \in Node, StartDiscovery(o, d) \/ RepeatRreq(o, d)
      PROVE  Known'
  <2>1. PICK s \in Series : s.dseq <= MaxSeqNum /\ (SendRreq(o, d, s) \/ PostponeRreq)
    BY <1>2, SeriesTypes DEF StartDiscovery, RepeatRreq, NewSeries
  <2>2. /\ UNCHANGED <<rt, restarts, expiries>>
        /\ \A f \in msgs' : f \in msgs \/ (f \in Rreq /\ f.from = o /\ f.orig = o)
    BY <2>1, SendRreqEffect
  <2>3. \A f \in msgs' : f \in msgs \/ FrameKnown(f)'
    BY <2>2, FrameTypes DEF FrameKnown, Knows
  <2> QED
    BY <1>0, <1>00, <2>2, <2>3, KnownStays
<1>3. ASSUME NEW m \in msgs, HandleRreq(m) PROVE Known'
  <2>1. Known
    BY <1>0, <1>00, <1>3 DEF HandleRreq, counts
  <2>2. /\ m \in Rreq /\ m.type = "RREQ" /\ m.to \in Node /\ m.orig \in Node /\ m.dest \in Node
        /\ \A k \in Node : k # m.to => rt'[k] = rt[k]
        /\ TableAfter(rt[m.to], rt'[m.to], m.orig, m.from, m.seq)
    BY <1>3, HandleRreqTable, FrameTypes, FieldTypes
  <2>3. Knows(m.from, m.orig)
    BY <2>1, <2>2 DEF Known, FrameKnown
  <2>4. ASSUME NEW f \in msgs', f \notin msgs PROVE FrameKnown(f)'
    <3>1. \/ f \in Rreq /\ f.from = m.to /\ f.orig = m.orig /\ rt'[m.to][m.orig].known
          \/ f \in Rrep /\ f.from = m.to /\ f.dest = m.dest /\ m.dest = m.to
          \/ f \in Rrep /\ f.from = m.to /\ f.dest = m.dest /\ rt'[m.to][m.dest].known
      BY <1>3, <2>4, HandleRreqFrames
    <3> QED
      BY <2>2, <3>1, FrameTypes DEF FrameKnown, Knows
  <2> QED
    BY <2>1, <2>2, <2>3, <2>4, KnownTable
<1>4. ASSUME NEW m \in msgs, HandleRrep(m) PROVE Known'
  <2>1. Known
    BY <1>0, <1>00, <1>4 DEF HandleRrep, counts
  <2>2. /\ m \in Rrep /\ m.type = "RREP" /\ m.to \in Node /\ m.dest \in Node
        /\ \A k \in Node : k # m.to => rt'[k] = rt[k]
        /\ TableAfter(rt[m.to], rt'[m.to], m.dest, m.from, m.seq)
    BY <1>4, HandleRrepTable, FrameTypes, FieldTypes
  <2>3. Knows(m.from, m.dest)
    BY <2>1, <2>2 DEF Known, FrameKnown
  <2>4. ASSUME NEW f \in msgs', f \notin msgs PROVE FrameKnown(f)'
    <3>1. f \in Rrep /\ f.from = m.to /\ f.dest = m.dest /\ rt'[m.to][m.dest].known
      BY <1>4, <2>4, HandleRrepTable
    <3> QED
      BY <2>2, <3>1, FrameTypes DEF FrameKnown, Knows
  <2> QED
    BY <2>1, <2>2, <2>3, <2>4, KnownTable
<1>5. ASSUME NEW m \in msgs, HandleRerr(m) PROVE Known'
  <2>1. UNCHANGED <<restarts, expiries>>
    BY <1>5 DEF HandleRerr, counts
  <2> QED
    BY <1>1, <1>5, <2>1, HandleRerrTable
<1>6. ASSUME NEW n \in Node, NEW x \in Node, SendRerr(n, x) PROVE Known'
  <2>1. UNCHANGED <<restarts, expiries>>
    BY <1>6 DEF SendRerr, counts
  <2> QED
    BY <1>1, <1>6, <2>1, SendRerrTable
<1>7. ASSUME NEW n \in Node, NEW d \in Node, NEW p \in Node, StrandedData(n, d, p)
      PROVE  Known'
  <2> DEFINE lost == {<<d, SEQ_MAX>>}
  <2>1. msgs' = msgs \cup RerrFrames(n, n, lost) /\ lost \in SUBSET (Node \X SeqNo)
    BY <1>7, NumberTypes DEF StrandedData
  <2>2. UNCHANGED <<rt, restarts, expiries>>
    BY <1>7 DEF StrandedData, tables, counts
  <2> HIDE DEF lost
  <2>3. \A f \in msgs' : f \in msgs \/ f \in Rerr
    BY <2>1, RerrFramesEffect
  <2> QED
    BY <1>1, <2>2, <2>3
<1>8. CASE \/ UNCHANGED vars
           \/ \E o, d \in Node : GiveUp(o, d)
           \/ \E n, x \in Node : SkipRerr(n, x) \/ NeighbourTimeout(n, x)
           \/ \E l \in links : BreakLink(l)
  <2>1. UNCHANGED <<rt, msgs, restarts, expiries>>
    BY <1>8 DEF vars, GiveUp, SkipRerr, NeighbourTimeout, BreakLink, tables, counts
  <2> QED
    BY <1>1, <2>1
<1>9. ASSUME NEW n \in Node, NEW d \in Node, Expire(n, d) PROVE FALSE
  BY <1>0, <1>00, <1>9 DEF Expire
<1>10. ASSUME NEW n \in Node, Restart(n) PROVE FALSE
  BY <1>0, <1>00, <1>10 DEF Restart
<1> QED
  BY <1>2, <1>3, <1>4, <1>5, <1>6, <1>7, <1>8, <1>9, <1>10 DEF Next, Receive

(* As long as nobody restarts and nothing expires, a packet handed to a    *)
(* next hop reaches a node that has itself heard of the destination.       *)
THEOREM NextHopsKnow == Spec => []NextHopKnowsDest
<1>1. Init => KInv
  BY AbsentType DEF Init, KInv, Known, HopsKnow
<1>2. KInv => NextHopKnowsDest
  BY DEF KInv, Known, HopsKnow, Knows, NextHopKnowsDest
<1> QED
  BY <1>1, <1>2, KnownStep, TInvariance, PTL DEF Spec

-----------------------------------------------------------------------------
(* A table entry does not get older when a RREQ is handled: the number of  *)
(* the RREQ replaces one that is not newer, and the RREP with number 0     *)
(* that it counts as is used only where the number is 0.                   *)
LEMMA RreqNeverOlder ==
    ASSUME TInv, TInv', NEW m \in msgs, HandleRreq(m), NEW d \in Node, rt[m.to][d].known
    PROVE  rt[m.to][d].seq <= rt'[m.to][d].seq
<1> DEFINE n == m.to
           t == rt[n]
           metric == MetricDo(m.metric)
           result == CaptResult(t, m.orig, m.seq, metric)
           rt1    == CaptRreq(t, m.dest, m.orig, m.from, m.seq, metric)
           used   == result # "OLD" /\ CaptUsed(rt1, m.orig, 0)
           rt2    == IF used THEN CaptRrep(rt1, m.orig, m.from, 0, metric) ELSE rt1
<1>1. m \in Rreq /\ rt' = [rt EXCEPT ![n] = rt2]
  BY FrameTypes DEF TInv, TypeOK, HandleRreq
<1>2. /\ t \in [Node -> Entry] /\ metric \in Metric /\ rt'[n] = rt2
      /\ t[d].exists
      /\ n \in Node /\ m.dest \in Node /\ m.orig \in Node /\ m.from \in Node
  BY <1>1, MetricDoType, FieldTypes DEF TInv, TypeOK, KnownExists
<1>3. /\ m.seq \in 0..MaxSeqNum /\ t[d].seq \in 0..MaxSeqNum /\ 0 \in 0..MaxSeqNum
      /\ m.seq \in Nat /\ t[d].seq \in Nat
  <2>1. m.type = "RREQ" /\ m.seq \in SeqNo /\ t[d].seq \in SeqNo
    BY <1>1, <1>2, FrameTypes, FieldTypes
  <2>2. m.seq <= MaxSeqNum /\ t[d].seq <= MaxSeqNum
    BY <1>2, <2>1 DEF TInv, NumbersBounded
  <2> QED
    BY <2>1, <2>2, NumberTypes, ConstantFacts
<1>4. rt1 = [x \in Node |->
        IF x = m.orig /\ result # "OLD"
          THEN [exists |-> TRUE, known |-> t[x].known, valid |-> t[x].valid,
                next |-> m.from, seq |-> m.seq, metric |-> metric]
        ELSE IF x \in {m.orig, m.dest} THEN Lookup(t, x)
        ELSE t[x]]
  BY DEF CaptRreq
<1>5. CASE d = m.orig /\ result # "OLD"
  <2>1. rt1[d].seq = m.seq /\ (rt1[d].known <=> t[d].known)
    BY <1>4, <1>5
  <2>2. t[d].seq <= m.seq
    <3>1. ~(hf_comp_u32(t[d].seq, m.seq) > 0)
      BY <1>2, <1>3, <1>5 DEF CaptResult, Lookup, hf_comp_u32
    <3> QED
      BY <1>3, <3>1, NewerIsGreater
  <2>3. CASE ~used
    BY <1>2, <2>1, <2>2, <2>3
  <2>4. CASE used
    <3>1. ~(m.seq > 0)
      <4>1. ~(hf_comp_u32(m.seq, 0) > 0)
        BY <1>5, <2>1, <2>4 DEF CaptUsed
      <4> QED
        BY <1>3, <4>1, NewerIsGreater
    <3>2. rt2[d].seq = 0
      <4>1. rt2 = [rt1 EXCEPT ![m.orig] = [exists |-> TRUE, known |-> TRUE, valid |-> TRUE,
                      next |-> m.from, seq |-> 0, metric |-> metric]]
        BY <2>4 DEF CaptRrep
      <4>2. m.orig \in DOMAIN rt1 /\ d = m.orig
        BY <1>2, <1>4, <1>5
      <4> HIDE DEF rt1, rt2
      <4> QED
        BY <4>1, <4>2
    <3> QED
      BY <1>2, <1>3, <2>2, <3>1, <3>2
  <2> QED
    BY <2>3, <2>4
<1>6. CASE ~(d = m.orig /\ result # "OLD")
  <2>1. rt1[d].seq = t[d].seq
    <3>1. Lookup(t, d) = t[d]
      BY <1>2 DEF Lookup
    <3>2. rt1[d] = IF d \in {m.orig, m.dest} THEN Lookup(t, d) ELSE t[d]
      <4> HIDE DEF result, metric, rt1, t
      <4> QED
        BY <1>4, <1>6
    <3> QED
      BY <3>1, <3>2
  <2>2. rt2[d] = rt1[d]
    <3>1. CASE used
      <4>1. d # m.orig
        BY <1>6, <3>1
      <4> QED
        BY <3>1, <4>1, <1>4 DEF CaptRrep
    <3> QED
      BY <3>1
  <2> QED
    BY <1>2, <1>3, <2>1, <2>2
<1> QED
  BY <1>5, <1>6

(* Nor when a RREP is handled, which is used only if it is not older. *)
LEMMA RrepNeverOlder ==
    ASSUME TInv, TInv', NEW m \in msgs, HandleRrep(m), NEW d \in Node, rt[m.to][d].known
    PROVE  rt[m.to][d].seq <= rt'[m.to][d].seq
<1> DEFINE n == m.to
           metric == MetricDo(m.metric)
           rt1 == CaptRrep(rt[n], m.dest, m.from, m.seq, metric)
<1>1. /\ m \in Rrep /\ m.type = "RREP" /\ n \in Node /\ m.dest \in Node
      /\ rt \in [Node -> [Node -> Entry]]
  BY FrameTypes, FieldTypes DEF TInv, TypeOK, HandleRrep
<1>2. /\ m.seq \in 0..MaxSeqNum /\ rt[n][d].seq \in 0..MaxSeqNum
      /\ m.seq \in Nat /\ rt[n][d].seq \in Nat
  <2>1. m.seq \in SeqNo /\ rt[n][d].seq \in SeqNo
    BY <1>1, FieldTypes
  <2>2. m.seq <= MaxSeqNum /\ rt[n][d].seq <= MaxSeqNum
    BY <1>1 DEF TInv, NumbersBounded
  <2> QED
    BY <2>1, <2>2, NumberTypes
<1>3. CASE rt' = rt
  BY <1>2, <1>3
<1>4. CASE CaptUsed(rt[n], m.dest, m.seq) /\ rt' = [rt EXCEPT ![n] = rt1]
  <2>1. rt'[n] = [rt[n] EXCEPT ![m.dest] = [exists |-> TRUE, known |-> TRUE, valid |-> TRUE,
                     next |-> m.from, seq |-> m.seq, metric |-> metric]]
    BY <1>1, <1>4 DEF CaptRrep
  <2>2. CASE d # m.dest
    BY <1>1, <1>2, <2>1, <2>2
  <2>3. CASE d = m.dest
    <3>1. ~(hf_comp_u32(rt[n][d].seq, m.seq) > 0)
      BY <1>4, <2>3 DEF CaptUsed
    <3>2. rt'[n][d].seq = m.seq
      BY <1>1, <2>1, <2>3
    <3> QED
      BY <1>2, <3>1, <3>2, NewerIsGreater
  <2> QED
    BY <2>2, <2>3
<1> QED
  BY <1>3, <1>4 DEF HandleRrep, tables

(* No step makes a number older that is known before and after it. *)
LEMMA NeverOlderStep ==
    ASSUME TInv, TInv', [Next]_vars, NEW n \in Node, NEW d \in Node,
           rt[n][d].known, rt'[n][d].known
    PROVE  rt[n][d].seq <= rt'[n][d].seq
<1>0. rt[n][d].seq \in Nat /\ rt \in [Node -> [Node -> Entry]]
  BY FieldTypes, NumberTypes DEF TInv, TypeOK
<1>1. CASE rt'[n][d].seq = rt[n][d].seq
  BY <1>0, <1>1
<1>2. ASSUME NEW m \in msgs, HandleRreq(m) PROVE rt[n][d].seq <= rt'[n][d].seq
  <2>1. CASE n = m.to
    BY <1>2, <2>1, RreqNeverOlder
  <2>2. CASE n # m.to
    BY <1>0, <1>2, <2>2, HandleRreqTable
  <2> QED
    BY <2>1, <2>2
<1>3. ASSUME NEW m \in msgs, HandleRrep(m) PROVE rt[n][d].seq <= rt'[n][d].seq
  <2>1. CASE n = m.to
    BY <1>3, <2>1, RrepNeverOlder
  <2>2. CASE n # m.to
    BY <1>0, <1>3, <2>2, HandleRrepTable
  <2> QED
    BY <2>1, <2>2
<1>4. ASSUME NEW m \in msgs, HandleRerr(m) PROVE rt'[n][d].seq = rt[n][d].seq
  BY <1>4, HandleRerrTable
<1>5. ASSUME NEW k \in Node, NEW x \in Node, SendRerr(k, x) PROVE rt'[n][d].seq = rt[n][d].seq
  BY <1>5, SendRerrTable
<1>6. ASSUME NEW k \in Node, NEW x \in Node, Expire(k, x) PROVE rt'[n][d].seq = rt[n][d].seq
  <2>1. rt' = [rt EXCEPT ![k] = [@ EXCEPT ![x] = Absent]]
    BY <1>6 DEF Expire, PurgeEntry
  <2> QED
    BY <1>0, <2>1, AbsentType
<1>7. ASSUME NEW k \in Node, Restart(k) PROVE rt'[n][d].seq = rt[n][d].seq
  BY <1>0, <1>7, AbsentType DEF Restart
<1>8. CASE \/ UNCHANGED vars
           \/ \E o, x \in Node : StartDiscovery(o, x) \/ RepeatRreq(o, x) \/ GiveUp(o, x)
  <2>1. \A o, x \in Node : \A s : SendRreq(o, x, s) => UNCHANGED rt
    BY DEF SendRreq, tables
  <2>2. PostponeRreq => UNCHANGED rt
    BY DEF PostponeRreq, tables
  <2>3. \A o, x \in Node : StartDiscovery(o, x) => UNCHANGED rt
    BY <2>1, <2>2 DEF StartDiscovery
  <2>4. \A o, x \in Node : RepeatRreq(o, x) => UNCHANGED rt
    BY <2>1 DEF RepeatRreq
  <2>5. \A o, x \in Node : GiveUp(o, x) => UNCHANGED rt
    BY DEF GiveUp, tables
  <2>6. UNCHANGED vars => UNCHANGED rt
    BY DEF vars
  <2> QED
    BY <1>1, <1>8, <2>3, <2>4, <2>5, <2>6
<1>9. CASE \/ \E l \in links : BreakLink(l)
           \/ \E k, x \in Node : NeighbourTimeout(k, x) \/ SkipRerr(k, x)
           \/ \E k, x, p \in Node : StrandedData(k, x, p)
  <2>1. UNCHANGED rt
    BY <1>9 DEF BreakLink, NeighbourTimeout, SkipRerr, StrandedData, tables
  <2> QED
    BY <1>1, <2>1
<1> QED
  BY <1>1, <1>2, <1>3, <1>4, <1>5, <1>6, <1>7, <1>8, <1>9 DEF Next, Receive

(* While a route stays known its number never gets older, whatever frames  *)
(* overtake each other and whatever fails: a node never goes back to       *)
(* information that it has replaced.                                       *)
THEOREM NumbersNeverOlder == Spec => SeqNeverOlder
<1>1. ASSUME TInv, TInv', [Next]_vars, NEW n \in Node, NEW d \in Node,
             rt[n][d].known, rt'[n][d].known
      PROVE  hf_comp_u32(rt[n][d].seq, rt'[n][d].seq) <= 0
  <2>1. rt[n][d].seq \in SeqNo /\ rt'[n][d].seq \in SeqNo
    BY <1>1, FieldTypes DEF TInv, TypeOK
  <2>2. rt[n][d].seq <= MaxSeqNum /\ rt'[n][d].seq <= MaxSeqNum
    BY <1>1 DEF TInv, NumbersBounded
  <2>3. rt[n][d].seq \in 0..MaxSeqNum /\ rt'[n][d].seq \in 0..MaxSeqNum
    BY <2>1, <2>2, NumberTypes
  <2>4. rt[n][d].seq <= rt'[n][d].seq
    BY <1>1, NeverOlderStep
  <2>5. ~(hf_comp_u32(rt[n][d].seq, rt'[n][d].seq) > 0)
    BY <2>3, <2>4, NewerIsGreater
  <2> QED
    BY <2>5 DEF hf_comp_u32
<1>2. TInv /\ TInv' /\ [Next]_vars =>
        [\A n, d \in Node : rt[n][d].known /\ rt'[n][d].known =>
            hf_comp_u32(rt[n][d].seq, rt'[n][d].seq) <= 0]_vars
  BY <1>1
<1> QED
  BY <1>2, TInvariance, PTL DEF Spec, SeqNeverOlder

-----------------------------------------------------------------------------
(* A destination that learns of a better path answers with its next        *)
(* number, which is greater than all that it has given away.               *)
LEMMA HitNumber ==
    ASSUME TInv, SeqNotAhead, restarts = 0, NEW m \in msgs, HandleRreq(m), m.dest = m.to,
           CaptResult(rt[m.to], m.orig, m.seq, MetricDo(m.metric)) = "METRIC_HIT"
    PROVE  /\ \A n \in Node : rt[n][m.to].seq < seq_num'[m.to]
           /\ \A f \in msgs : f.type = "RREP" /\ f.dest = m.to => f.seq < seq_num'[m.to]
<1> DEFINE own == seq_num[m.to]
<1>1. /\ m \in Rreq /\ m.type = "RREQ" /\ m.to \in Node
      /\ seq_num \in [Node -> 0..MaxSeqNum] /\ own \in 0..MaxSeqNum /\ own \in Nat
      /\ own < MaxSeqNum
      /\ m.dseq \in SeqNo /\ m.dseq <= MaxSeqNum /\ m.dseq <= own
  BY FrameTypes, FieldTypes, ConstantFacts
     DEF TInv, TypeOK, NumbersBounded, SeqNotAhead, HandleRreq
<1>2. SeqSucc(own) = own + 1 /\ own + 1 \in 0..MaxSeqNum /\ m.dseq \in 0..MaxSeqNum
  BY <1>1, NextNumber, NumberTypes
<1>3. ReplySeq(m, "METRIC_HIT") = own + 1
  <2>1. ~(hf_comp_u32(m.dseq, own + 1) > 0)
    <3>1. m.dseq \in Nat /\ ~(m.dseq > own + 1)
      BY <1>1, NumberTypes
    <3> QED
      BY <1>2, <3>1, NewerIsGreater
  <2> QED
    BY <1>2, <2>1 DEF ReplySeq, OwnSeq
<1>4. seq_num'[m.to] = own + 1
  BY <1>1, <1>3 DEF HandleRreq
<1>5. ASSUME NEW n \in Node PROVE rt[n][m.to].seq < own + 1
  <2>1. rt[n][m.to].seq \in Nat
    BY <1>1, FieldTypes, NumberTypes DEF TInv, TypeOK
  <2> QED
    BY <1>1, <2>1 DEF SeqNotAhead
<1>6. ASSUME NEW f \in msgs, f.type = "RREP", f.dest = m.to PROVE f.seq < own + 1
  <2>1. f.seq \in Nat
    BY <1>6, FrameTypes, FieldTypes, NumberTypes DEF TInv, TypeOK
  <2> QED
    BY <1>1, <1>6, <2>1 DEF SeqNotAhead
<1> QED
  BY <1>4, <1>5, <1>6

(* The answer to a metric hit is newer than every number of the            *)
(* destination in a table or a RREP, so that it is discarded nowhere.      *)
THEOREM HitRepliesAreNewest == Spec => HitReplyIsNewest
<1>1. ASSUME TInv, SeqNotAhead, NEW m \in msgs, restarts = 0, m.type = "RREQ",
             m.dest = m.to, Receive(m),
             CaptResult(rt[m.to], m.orig, m.seq, MetricDo(m.metric)) = "METRIC_HIT"
      PROVE  /\ \A n \in Node : rt[n][m.to].seq < seq_num'[m.to]
             /\ \A f \in msgs : f.type = "RREP" /\ f.dest = m.to => f.seq < seq_num'[m.to]
  <2>1. HandleRreq(m)
    BY <1>1 DEF Receive, HandleRrep, HandleRerr
  <2> QED
    BY <1>1, <2>1, HitNumber
<1>2. TInv /\ SeqNotAhead =>
        [\A m \in msgs :
         (/\ restarts = 0
          /\ m.type = "RREQ" /\ m.dest = m.to
          /\ Receive(m)
          /\ CaptResult(rt[m.to], m.orig, m.seq, MetricDo(m.metric)) = "METRIC_HIT")
         => /\ \A n \in Node : rt[n][m.to].seq < seq_num'[m.to]
            /\ \A f \in msgs : f.type = "RREP" /\ f.dest = m.to => f.seq < seq_num'[m.to]]_vars
  BY <1>1
<1> QED
  BY <1>2, TInvariance, NobodyIsAhead, PTL DEF HitReplyIsNewest
=============================================================================

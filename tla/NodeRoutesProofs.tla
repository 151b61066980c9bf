-------------------------- MODULE NodeRoutesProofs --------------------------
(* Proofs about the routing table of a node under its threads, for any     *)
(* threads, neighbours and frames.                                         *)
EXTENDS NodeRoutes, TLAPS

(* The assumptions on the constants, as one fact to cite. *)
LEMMA ConstantFacts ==
    /\ SeqMod \in Nat /\ SeqMod >= 4
    /\ HalfSeq \in Nat /\ HalfSeq < SeqMod /\ 2 * HalfSeq <= SeqMod /\ 0 < HalfSeq
    /\ MaxMetric \in Nat
    /\ MoreIsBetter \in BOOLEAN
    /\ NoNode \notin Node
    /\ Hop \subseteq Node /\ Wanted \subseteq Node
    /\ Rreqs \subseteq Frame /\ Rreps \subseteq Frame /\ Rerrs \subseteq Frame
    /\ \A m \in Rreqs \cup Rreps : m.seq < HalfSeq
    /\ 0 \in SeqNo /\ 0 \in Metric
BY SeqModAssumption, NoNodeAssumption, FrameAssumption, NumberAssumption
   DEF HalfSeq, SeqNo, Metric

Low == {i \in SeqNo : i < HalfSeq}

(* Within the half range, newer is greater. *)
LEMMA NewerIsGreater ==
    ASSUME NEW i \in Low, NEW j \in Low
    PROVE  /\ i \in Nat /\ j \in Nat
           /\ hf_comp_u32(i, j) > 0 <=> i > j
           /\ hf_comp_u32(i, j) < 0 <=> i < j
           /\ hf_comp_u32(i, j) = 0 <=> i = j
BY ConstantFacts DEF hf_comp_u32, SeqDiff, Low, SeqNo

(* The fields of entries, frames and locals. *)
LEMMA FieldTypes ==
    /\ \A e \in Entry : /\ e.exists \in BOOLEAN /\ e.known \in BOOLEAN /\ e.valid \in BOOLEAN
                        /\ e.next \in Node \cup {NoNode} /\ e.seq \in SeqNo /\ e.metric \in Metric
    /\ \A m \in Frame : /\ m.from \in Hop /\ m.orig \in Node /\ m.dest \in Node
                        /\ m.seq \in SeqNo /\ m.metric \in Metric
    /\ \A m \in Rreqs \cup Rreps : m \in Frame /\ m.seq \in Low
    /\ \A m \in Rerrs : m \in Frame
BY ConstantFacts DEF Entry, Frame, Low

LEMMA AbsentType ==
    /\ Absent \in Entry /\ Absent.exists = FALSE /\ Absent.known = FALSE /\ Absent.seq = 0
    /\ NewEntry \in Entry /\ NewEntry.known = FALSE /\ NewEntry.seq = 0
BY ConstantFacts DEF Absent, NewEntry, Entry, SeqNo, Metric

-----------------------------------------------------------------------------
(* The table of a node, as all its functions leave it: its entries are     *)
(* entries, only those in the table have a next hop, and their numbers are *)
(* in the lower half.                                                      *)
Table == {t \in [Node -> Entry] : \A d \in Node :
              (t[d].known => t[d].exists) /\ t[d].seq \in Low}

(* A step from table t to u loses no next hop and goes back to no older    *)
(* number.                                                                 *)
Grows(t, u) ==
    \A d \in Node : t[d].known => u[d].known /\ u[d].seq >= t[d].seq

(* Looking an entry up, or creating it, shows nothing new. *)
LEMMA LookupEffect ==
    ASSUME NEW t \in Table, NEW d \in Node
    PROVE  LET e == Lookup(t, d) IN
           /\ e \in Entry /\ e.known = t[d].known /\ (e.known => e = t[d] /\ e.exists)
           /\ e.seq \in Low
<1>1. t[d] \in Entry /\ t[d].known \in BOOLEAN /\ t[d].exists \in BOOLEAN
      /\ (t[d].known => t[d].exists) /\ t[d].seq \in Low
  BY FieldTypes DEF Table
<1>2. 0 \in Low
  BY ConstantFacts DEF Low
<1>3. CASE t[d].exists
  BY <1>1, <1>3 DEF Lookup
<1>4. CASE ~t[d].exists
  BY <1>1, <1>2, <1>4, AbsentType DEF Lookup
<1> QED
  BY <1>1, <1>3, <1>4

(* A captured RREQ changes no flag, replaces a known next hop only by the  *)
(* previous hop of a RREQ that is not old, and goes back to no older       *)
(* number.                                                                 *)
LEMMA CaptRreqEffect ==
    ASSUME NEW t \in Table, NEW dest \in Node, NEW orig \in Node, NEW prev \in Node,
           NEW seq \in Low, NEW metric \in Metric
    PROVE  LET u == CaptRreq(t, dest, orig, prev, seq, metric) IN
           /\ u \in Table
           /\ Grows(t, u)
           /\ \A d \in Node :
                /\ u[d].known = t[d].known
                /\ u[d].known =>
                     /\ u[d].valid = t[d].valid
                     /\ \/ u[d].next = t[d].next
                        \/ /\ d = orig /\ u[d].next = prev
                           /\ CaptResult(t, orig, seq, metric) # "OLD"
<1> DEFINE u == CaptRreq(t, dest, orig, prev, seq, metric)
<1>1. ASSUME NEW d \in Node
      PROVE  /\ u[d] \in Entry
             /\ u[d].known = t[d].known
             /\ u[d].known => u[d].exists
             /\ u[d].seq \in Low
             /\ u[d].known =>
                  /\ u[d].valid = t[d].valid
                  /\ u[d].seq >= t[d].seq
                  /\ \/ u[d].next = t[d].next
                     \/ /\ d = orig /\ u[d].next = prev
                        /\ CaptResult(t, orig, seq, metric) # "OLD"
  <2>0. t[d] \in Entry /\ t[d].seq \in Low /\ t[d].seq \in Nat
        /\ t[d].known \in BOOLEAN /\ t[d].valid \in BOOLEAN
    BY FieldTypes DEF Table, Low, SeqNo
  <2>1. CASE d = orig /\ CaptResult(t, orig, seq, metric) # "OLD"
    <3>1. u[d] = [exists |-> TRUE, known |-> t[d].known, valid |-> t[d].valid,
                  next |-> prev, seq |-> seq, metric |-> metric]
      BY <2>1 DEF CaptRreq
    <3>2. u[d] \in Entry /\ u[d].known = t[d].known /\ u[d].exists
          /\ u[d].valid = t[d].valid /\ u[d].next = prev /\ u[d].seq = seq
      BY <3>1, <2>0 DEF Entry, Low
    <3>3. ASSUME t[d].known PROVE seq >= t[d].seq
      <4>1. Lookup(t, d).seq = t[d].seq
        BY <3>3, LookupEffect
      <4>2. ~(hf_comp_u32(t[d].seq, seq) > 0)
        <5>1. hf_comp_u32(t[d].seq, seq) = 0 \/ hf_comp_u32(t[d].seq, seq) < 0
          BY <2>1, <4>1 DEF CaptResult
        <5>2. hf_comp_u32(t[d].seq, seq) = 0 => t[d].seq = seq
          BY <2>0, NewerIsGreater
        <5>3. hf_comp_u32(t[d].seq, seq) < 0 => t[d].seq < seq
          BY <2>0, NewerIsGreater
        <5>4. t[d].seq <= seq
          BY <5>1, <5>2, <5>3, <2>0 DEF Low, SeqNo
        <5> QED
          BY <5>4, <2>0, NewerIsGreater
      <4> QED
        BY <4>2, <2>0, NewerIsGreater
    <3> QED
      BY <3>2, <3>3, <2>1
  <2>2. CASE ~(d = orig /\ CaptResult(t, orig, seq, metric) # "OLD") /\ d \in {orig, dest}
    <3>1. u[d] = Lookup(t, d)
      BY <2>2 DEF CaptRreq
    <3> QED
      BY <3>1, <2>0, LookupEffect
  <2>3. CASE d \notin {orig, dest}
    <3>1. u[d] = t[d]
      BY <2>3 DEF CaptRreq
    <3> QED
      BY <3>1, <2>0 DEF Table
  <2> QED
    BY <2>1, <2>2, <2>3
<1>2. u = [d \in Node |-> u[d]]
  BY DEF CaptRreq
<1>3. u \in [Node -> Entry]
  BY <1>1, <1>2
<1> HIDE DEF u
<1>4. u \in Table
  BY <1>1, <1>3 DEF Table
<1>5. Grows(t, u)
  BY <1>1 DEF Grows
<1> QED
  BY <1>1, <1>4, <1>5 DEF u

(* A RREP that is used makes its destination known and valid over the next *)
(* hop, and goes back to no older number.                                  *)
LEMMA CaptRrepEffect ==
    ASSUME NEW t \in Table, NEW dest \in Node, NEW hop \in Node,
           NEW seq \in Low, NEW metric \in Metric, CaptUsed(t, dest, seq)
    PROVE  LET u == CaptRrep(t, dest, hop, seq, metric) IN
           /\ u \in Table
           /\ Grows(t, u)
           /\ u[dest].known /\ u[dest].next = hop
           /\ \A d \in Node \ {dest} : u[d] = t[d]
<1> DEFINE e == [exists |-> TRUE, known |-> TRUE, valid |-> TRUE,
                 next |-> hop, seq |-> seq, metric |-> metric]
           u == CaptRrep(t, dest, hop, seq, metric)
<1>1. e \in Entry /\ e.exists /\ e.known /\ e.seq = seq /\ e.next = hop
  BY DEF Entry, Low
<1>2. u = [t EXCEPT ![dest] = e] /\ t \in [Node -> Entry]
  BY DEF CaptRrep, Table
<1>3. t[dest].known => seq >= t[dest].seq
  <2>1. t[dest].seq \in Low
    BY DEF Table
  <2> QED
    BY <2>1, NewerIsGreater DEF CaptUsed
<1> HIDE DEF e, u
<1>4. u[dest] = e /\ \A d \in Node \ {dest} : u[d] = t[d]
  BY <1>2
<1>5. u \in Table
  BY <1>1, <1>2, <1>4 DEF Table
<1>6. Grows(t, u)
  <2>1. \A d \in Node : t[d].seq \in Nat
    BY DEF Table, Low, SeqNo
  <2> QED
    BY <1>1, <1>3, <1>4, <2>1 DEF Grows
<1> QED
  BY <1>1, <1>4, <1>5, <1>6 DEF u

(* Marking routes invalid changes their valid flags and nothing else. *)
LEMMA InvalidateAllEffect ==
    ASSUME NEW t \in Table, NEW D
    PROVE  LET u == InvalidateAll(t, D) IN
           /\ u \in Table
           /\ Grows(t, u)
           /\ \A d \in Node : /\ u[d].known = t[d].known /\ u[d].next = t[d].next
                              /\ u[d].valid => t[d].valid /\ d \notin D
<1> DEFINE u == InvalidateAll(t, D)
<1>1. ASSUME NEW d \in Node
      PROVE  /\ u[d] \in Entry
             /\ u[d].exists = t[d].exists /\ u[d].known = t[d].known
             /\ u[d].next = t[d].next /\ u[d].seq = t[d].seq
             /\ u[d].valid => t[d].valid /\ d \notin D
  <2>1. t[d] \in Entry
    BY DEF Table
  <2>2. CASE d \in D
    <3>1. u[d] = [exists |-> t[d].exists, known |-> t[d].known, valid |-> FALSE,
                  next |-> t[d].next, seq |-> t[d].seq, metric |-> t[d].metric]
      BY <2>2 DEF InvalidateAll, Invalidate
    <3> QED
      BY <3>1, <2>1 DEF Entry
  <2>3. CASE d \notin D
    BY <2>1, <2>3 DEF InvalidateAll
  <2> QED
    BY <2>2, <2>3
<1>2. u \in [Node -> Entry]
  <2>1. u = [d \in Node |-> u[d]]
    BY DEF InvalidateAll
  <2> QED
    BY <1>1, <2>1
<1> HIDE DEF u
<1>3. \A d \in Node : t[d].seq \in Low /\ t[d].seq \in Nat /\ (t[d].known => t[d].exists)
  BY DEF Table, Low, SeqNo
<1>4. u \in Table
  BY <1>1, <1>2, <1>3 DEF Table
<1>5. Grows(t, u)
  BY <1>1, <1>3 DEF Grows
<1> QED
  BY <1>1, <1>4, <1>5 DEF u

-----------------------------------------------------------------------------
(* The locals of a thread are those of the frame while it is needed. *)
Locals ==
    \A t \in Rx :
        LET l == rx[t]
        IN  /\ l \in Thread
            /\ l.pc = "as_rrep" => l.msg.from \in Hop /\ l.msg.orig \in Node
            /\ l.pc \in {"as_rrep", "dest_seq", "metric", "mark"} => l.msg.dest \in Node
            /\ l.pc = "metric" => l.num \in Low

(* per.hop is a neighbour while a RERR task runs. *)
PerHop == per \in Per /\ (per.pc # "idle" => per.hop \in Hop)

(* TypeOK, with what the code relies on. *)
TInv ==
    /\ rt \in Table
    /\ nht \subseteq Node \X Node
    /\ dangling \subseteq nht
    /\ local_used \subseteq Node /\ warned \subseteq Node
    /\ rx \in [Rx -> Thread] /\ Locals
    /\ PerHop
    /\ moved \subseteq Node /\ strayed \subseteq Node /\ fresh \subseteq Node

(* The next hop table has every entry that is known, under its next hop    *)
(* and without a dangling pointer, unless it has strayed.                  *)
HasPair(d) == <<rt[d].next, d>> \in nht /\ <<rt[d].next, d>> \notin dangling

NoneMissing == \A d \in Node : rt[d].known => HasPair(d) \/ d \in strayed

(* ReportIsLost for the pointers that do not dangle. *)
BrokenIsLost ==
    per.pc = "list" => \A d \in Broken(per.hop) : HasRoute(rt, d) => d \in fresh

Routes == OnlyRreqsUnmirror /\ NoneMissing /\ BreakIsComplete /\ BrokenIsLost

(* The number of a pending answer is not newer than the entry, as numbers. *)
AnswerIsLow ==
    \A t \in Rx : rx[t].pc = "metric" /\ ~rx[t].gone =>
        rt[rx[t].msg.dest].known /\ rx[t].num <= rt[rx[t].msg.dest].seq

IInv == TInv /\ Routes /\ AnswerIsLow

(* TInv is a type invariant. *)
LEMMA TInvType == TInv => TypeOK
BY DEF TInv, TypeOK, Table, PerHop

(* The answers of the threads stay covered when the table grows. *)
LEMMA AnswersStay ==
    ASSUME TInv, AnswerIsLow, rt' \in Table, Grows(rt, rt'),
           \A t \in Rx : rx'[t].pc = "metric" => rx'[t] = rx[t]
    PROVE  AnswerIsLow'
<1> SUFFICES ASSUME NEW t \in Rx, rx'[t].pc = "metric", ~rx'[t].gone
             PROVE  rt'[rx'[t].msg.dest].known /\ rx'[t].num <= rt'[rx'[t].msg.dest].seq
  BY DEF AnswerIsLow
<1> DEFINE d == rx[t].msg.dest
<1>1. rx'[t] = rx[t] /\ d \in Node /\ rx[t].num \in Low
  BY DEF TInv, Locals
<1>2. rt[d].known /\ rx[t].num <= rt[d].seq
  BY <1>1 DEF AnswerIsLow
<1>3. rt'[d].known /\ rt'[d].seq >= rt[d].seq
  BY <1>1, <1>2 DEF Grows
<1>4. rt[d].seq \in Int /\ rt'[d].seq \in Int /\ rx[t].num \in Int
  BY <1>1 DEF TInv, Table, Low, SeqNo
<1> QED
  BY <1>1, <1>2, <1>3, <1>4

(* A thread goes on with the locals l, or leaves them. *)
LEMMA GotoEffect ==
    ASSUME TInv, NEW t \in Rx, NEW l \in Thread, Goto(t, l)
    PROVE  /\ rx' \in [Rx -> Thread]
           /\ rx'[t] = l
           /\ \A s \in Rx \ {t} : rx'[s] = rx[s]
BY DEF TInv, Goto

(* What a thread goes on with are locals. *)
LEMMA LocalTypes ==
    /\ Idle \in Thread /\ Idle.pc = "idle"
    /\ \A m \in Frame :
         LET l == At("as_rrep", WithoutSeq(m), 0) IN
         /\ l \in Thread /\ l.pc = "as_rrep"
         /\ l.msg.from = m.from /\ l.msg.orig = m.orig /\ l.msg.dest = m.dest
    /\ \A pc \in {"dest_seq", "metric", "forward", "mark"}, d \in Node, i, num \in SeqNo :
         LET l == At(pc, Only(d, i), num) IN
         /\ l \in Thread /\ l.pc = pc /\ l.msg.dest = d /\ l.num = num
BY ConstantFacts DEF Idle, At, Only, WithoutSeq, Thread, Local, Frame

(* Locals, when one thread goes on. *)
LEMMA LocalsStay ==
    ASSUME TInv, NEW t \in Rx, rx' \in [Rx -> Thread],
           \A s \in Rx \ {t} : rx'[s] = rx[s],
           LET l == rx'[t] IN
             /\ l.pc = "as_rrep" => l.msg.from \in Hop /\ l.msg.orig \in Node
             /\ l.pc \in {"as_rrep", "dest_seq", "metric", "mark"} => l.msg.dest \in Node
             /\ l.pc = "metric" => l.num \in Low
    PROVE  Locals'
BY DEF TInv, Locals

(* Steps that change neither table, next hop table nor the RERR task. *)
LEMMA RoutesStay ==
    ASSUME IInv, UNCHANGED <<rt, nht, dangling, per, moved, strayed>>,
           fresh' = fresh \/ per.pc # "list"
    PROVE  Routes'
BY DEF IInv, Routes, OnlyRreqsUnmirror, NoneMissing, HasPair, BreakIsComplete, BrokenIsLost,
       Mirrored, HopsOf, HasRoute, Broken, DestsOver

-----------------------------------------------------------------------------
(* The pairs of the next hop table after a RREP for d has been used: only  *)
(* those of d change, to its new next hop.                                 *)
LEMMA RrepPairs ==
    ASSUME nht \subseteq Node \X Node, dangling \subseteq nht,
           NEW d \in Node, NEW hop \in Node,
           nht' = RrepNht(rt, nht, d, hop), dangling' = RrepDangling(rt, dangling, d, hop)
    PROVE  /\ nht' \subseteq Node \X Node /\ dangling' \subseteq nht'
           /\ \A h \in Node, x \in Node \ {d} :
                /\ <<h, x>> \in nht' <=> <<h, x>> \in nht
                /\ <<h, x>> \in dangling' <=> <<h, x>> \in dangling
           /\ \A h \in Node : <<h, d>> \in dangling' => <<h, d>> \in dangling
           /\ <<hop, d>> \in nht' /\ <<hop, d>> \notin dangling'
           /\ Mirrored(d) => \A h \in Node : <<h, d>> \in nht' <=> h = hop
<1>1. OwnPair(rt, d) = {} \/ OwnPair(rt, d) = {<<rt[d].next, d>>}
  BY DEF OwnPair
<1>2. nht' = (nht \ OwnPair(rt, d)) \cup {<<hop, d>>}
      /\ dangling' = dangling \ (OwnPair(rt, d) \cup {<<hop, d>>})
  BY DEF RrepNht, RrepDangling
<1>3. nht' \subseteq Node \X Node /\ dangling' \subseteq nht'
  BY <1>2
<1>4. ASSUME NEW h \in Node, NEW x \in Node \ {d}
      PROVE  /\ <<h, x>> \in nht' <=> <<h, x>> \in nht
             /\ <<h, x>> \in dangling' <=> <<h, x>> \in dangling
  BY <1>1, <1>2
<1>5. ASSUME Mirrored(d), NEW h \in Node PROVE <<h, d>> \in nht' <=> h = hop
  <2>1. CASE rt[d].known
    <3>1. <<h, d>> \in nht => h = rt[d].next
      BY <1>5, <2>1 DEF Mirrored, HopsOf
    <3>2. OwnPair(rt, d) = {<<rt[d].next, d>>}
      BY <2>1 DEF OwnPair
    <3> QED
      BY <1>2, <3>1, <3>2
  <2>2. CASE ~rt[d].known
    <3>1. <<h, d>> \notin nht
      BY <1>5, <2>2 DEF Mirrored, HopsOf
    <3> QED
      BY <1>2, <3>1
  <2> QED
    BY <2>1, <2>2
<1>6. /\ \A h \in Node : <<h, d>> \in dangling' => <<h, d>> \in dangling
      /\ <<hop, d>> \in nht' /\ <<hop, d>> \notin dangling'
  BY <1>2
<1> QED
  BY <1>3, <1>4, <1>5, <1>6

(* What a RREP that is used leaves of the invariant. *)
LEMMA UseRrepEffect ==
    ASSUME IInv, NEW d \in Node, NEW m, m.from \in Hop, m.metric \in Metric,
           NEW seq \in Low, CaptUsed(rt, d, seq), UseRrep(d, m, seq),
           UNCHANGED <<per, moved>>
    PROVE  /\ rt' \in Table /\ Grows(rt, rt')
           /\ nht' \subseteq Node \X Node /\ dangling' \subseteq nht'
           /\ warned' \subseteq Node /\ strayed' \subseteq Node /\ fresh' \subseteq Node
           /\ Routes'
<1>1. /\ rt' \in Table /\ Grows(rt, rt')
      /\ rt'[d].known /\ rt'[d].next = m.from
      /\ \A x \in Node \ {d} : rt'[x] = rt[x]
  BY ConstantFacts, CaptRrepEffect DEF UseRrep, IInv, TInv
<1>2. /\ nht' \subseteq Node \X Node /\ dangling' \subseteq nht'
      /\ \A h \in Node, x \in Node \ {d} :
           /\ <<h, x>> \in nht' <=> <<h, x>> \in nht
           /\ <<h, x>> \in dangling' <=> <<h, x>> \in dangling
      /\ \A h \in Node : <<h, d>> \in dangling' => <<h, d>> \in dangling
      /\ <<m.from, d>> \in nht' /\ <<m.from, d>> \notin dangling'
      /\ Mirrored(d) => \A h \in Node : <<h, d>> \in nht' <=> h = m.from
  BY ConstantFacts, RrepPairs DEF UseRrep, IInv, TInv
<1>3. /\ warned' \subseteq Node /\ fresh' \subseteq Node
      /\ strayed' = strayed \ {d} /\ strayed' \subseteq Node
      /\ per.pc = "list" => d \in fresh' /\ fresh \subseteq fresh'
  BY DEF UseRrep, IInv, TInv
<1>4. ASSUME NEW x \in Node \ moved' PROVE Mirrored(x)'
  <2>1. Mirrored(x) /\ x \in Node
    BY <1>4 DEF IInv, Routes, OnlyRreqsUnmirror
  <2>2. CASE x = d
    <3>1. HopsOf(d)' = {m.from}
      BY <1>2, <2>1, <2>2, ConstantFacts DEF HopsOf
    <3>2. \A h \in Node : <<h, d>> \notin dangling'
      BY <1>2, <2>1, <2>2 DEF Mirrored
    <3> QED
      BY <1>1, <2>2, <3>1, <3>2 DEF Mirrored
  <2>3. CASE x # d
    <3>1. rt'[x] = rt[x]
      BY <1>1, <2>1, <2>3
    <3>2. HopsOf(x)' = HopsOf(x)
      BY <1>2, <2>1, <2>3 DEF HopsOf
    <3>3. \A h \in Node : <<h, x>> \notin dangling'
      BY <1>2, <2>1, <2>3 DEF Mirrored
    <3> QED
      BY <2>1, <3>1, <3>2, <3>3 DEF Mirrored
  <2> QED
    BY <2>2, <2>3
<1>5. BreakIsComplete'
  <2> SUFFICES ASSUME per.pc = "list", NEW x \in Node, HasRoute(rt', x), rt'[x].next = per.hop
               PROVE  x \in fresh' \cup strayed'
    BY DEF BreakIsComplete
  <2>1. CASE x = d
    BY <1>3, <2>1
  <2>2. CASE x # d
    BY <1>1, <1>3, <2>2 DEF IInv, Routes, BreakIsComplete, HasRoute
  <2> QED
    BY <2>1, <2>2
<1>6. BrokenIsLost'
  <2> SUFFICES ASSUME per.pc = "list", NEW x \in Broken(per.hop)', HasRoute(rt', x)
               PROVE  x \in fresh'
    BY DEF BrokenIsLost
  <2>0. x \in Node /\ <<per.hop, x>> \in nht' /\ <<per.hop, x>> \notin dangling'
        /\ per.hop \in Node
    BY ConstantFacts DEF Broken, DestsOver, IInv, TInv, PerHop
  <2>1. CASE x = d
    BY <1>3, <2>1
  <2>2. CASE x # d
    <3>1. x \in Broken(per.hop) /\ HasRoute(rt, x)
      BY <1>1, <1>2, <2>0, <2>2 DEF Broken, DestsOver, HasRoute
    <3> QED
      BY <1>3, <3>1 DEF IInv, Routes, BrokenIsLost
  <2> QED
    BY <2>1, <2>2
<1>7. NoneMissing'
  <2> SUFFICES ASSUME NEW x \in Node, rt'[x].known, x \notin strayed' PROVE HasPair(x)'
    BY DEF NoneMissing
  <2>1. CASE x = d
    BY <1>1, <1>2, <2>1 DEF HasPair
  <2>2. CASE x # d
    <3>1. rt'[x] = rt[x] /\ HasPair(x)
      BY <1>1, <1>3, <2>2 DEF IInv, Routes, NoneMissing
    <3>2. rt[x].next \in Node
      BY <3>1 DEF HasPair, IInv, TInv
    <3> QED
      BY <1>2, <2>2, <3>1, <3>2 DEF HasPair
  <2> QED
    BY <2>1, <2>2
<1> QED
  BY <1>1, <1>2, <1>3, <1>4, <1>5, <1>6, <1>7 DEF Routes, OnlyRreqsUnmirror

(* Steps that leave the next hop table, and of the routing table all flags *)
(* that they do not clear and all next hops, but those of RREQs.           *)
LEMMA TableEffect ==
    ASSUME IInv, rt' \in Table, UNCHANGED <<nht, dangling, per, fresh>>,
           moved \subseteq moved', strayed \subseteq strayed',
           \A d \in Node :
             /\ rt'[d].known = rt[d].known
             /\ rt'[d].known => /\ rt'[d].valid => rt[d].valid
                                /\ rt'[d].next = rt[d].next \/ d \in moved' \cap strayed'
    PROVE  Routes'
<1>1. ASSUME NEW d \in Node \ moved' PROVE Mirrored(d)'
  <2>1. Mirrored(d) /\ d \in Node
    BY <1>1 DEF IInv, Routes, OnlyRreqsUnmirror
  <2>2. HopsOf(d)' = HopsOf(d)
    BY DEF HopsOf
  <2> QED
    BY <1>1, <2>1, <2>2 DEF Mirrored
<1>2. BreakIsComplete'
  BY DEF IInv, Routes, BreakIsComplete, HasRoute
<1>3. BrokenIsLost'
  <2>1. \A d \in Broken(per.hop)' : d \in Broken(per.hop) /\ d \in Node
    BY DEF Broken, DestsOver
  <2> QED
    BY <2>1 DEF IInv, Routes, BrokenIsLost, HasRoute
<1>4. NoneMissing'
  BY DEF IInv, Routes, NoneMissing, HasPair
<1> QED
  BY <1>1, <1>2, <1>3, <1>4 DEF Routes, OnlyRreqsUnmirror

-----------------------------------------------------------------------------
(* The steps of the invariant, one lemma for each action. *)

LEMMA InitStep == Init => IInv
<1> SUFFICES ASSUME Init PROVE IInv
  OBVIOUS
<1>1. 0 \in Low
  BY ConstantFacts DEF Low
<1>2. rt \in Table /\ \A d \in Node : rt[d].known = FALSE
  BY <1>1, AbsentType DEF Init, Table
<1>3. rx \in [Rx -> Thread] /\ \A t \in Rx : rx[t].pc = "idle"
  BY LocalTypes DEF Init
<1>4. PerHop
  BY DEF Init, PerIdle, Per, PerHop
<1>5. TInv
  BY <1>2, <1>3, <1>4 DEF TInv, Locals, Init
<1>6. OnlyRreqsUnmirror
  BY <1>2 DEF OnlyRreqsUnmirror, Mirrored, HopsOf, Init
<1>7. BreakIsComplete /\ BrokenIsLost /\ AnswerIsLow
  BY <1>3 DEF BreakIsComplete, BrokenIsLost, AnswerIsLow, Init, PerIdle
<1>8. NoneMissing
  BY <1>2 DEF NoneMissing
<1> QED
  BY <1>5, <1>6, <1>7, <1>8 DEF IInv, Routes

(* What aodv_db_capt_rreq leaves of the table of the node. *)
LEMMA CaptureRreqTable ==
    ASSUME rt \in Table, NEW dest \in Node, NEW orig \in Node, NEW prev \in Node,
           NEW seq \in Low, NEW metric \in Metric,
           rt' = CaptRreq(rt, dest, orig, prev, seq, metric)
    PROVE  /\ rt' \in Table /\ Grows(rt, rt')
           /\ \A d \in Node :
                /\ rt'[d].known = rt[d].known
                /\ rt'[d].known =>
                     /\ rt'[d].valid = rt[d].valid
                     /\ \/ rt'[d].next = rt[d].next
                        \/ /\ d = orig /\ rt'[d].next = prev
                           /\ CaptResult(rt, orig, seq, metric) # "OLD"
<1>1. rt' \in Table /\ Grows(rt, rt')
  BY CaptRreqEffect
<1>2. ASSUME NEW d \in Node
      PROVE  /\ rt'[d].known = rt[d].known
             /\ rt'[d].known =>
                  /\ rt'[d].valid = rt[d].valid
                  /\ \/ rt'[d].next = rt[d].next
                     \/ /\ d = orig /\ rt'[d].next = prev
                        /\ CaptResult(rt, orig, seq, metric) # "OLD"
  BY CaptRreqEffect
<1> QED
  BY <1>1, <1>2

LEMMA CaptureRreqStep ==
    ASSUME IInv, NEW t \in Rx, NEW m \in Rreqs, CaptureRreq(t, m)
    PROVE  IInv'
<1>1. m \in Frame /\ m.from \in Node /\ m.from \in Hop /\ m.orig \in Node /\ m.dest \in Node
      /\ m.seq \in Low /\ m.metric \in Metric
  BY FieldTypes, ConstantFacts
<1>2. /\ rt' \in Table /\ Grows(rt, rt')
      /\ \A d \in Node :
           /\ rt'[d].known = rt[d].known
           /\ rt'[d].known =>
                /\ rt'[d].valid = rt[d].valid
                /\ \/ rt'[d].next = rt[d].next
                   \/ /\ d = m.orig /\ rt'[d].next = m.from
                      /\ CaptResult(rt, m.orig, m.seq, m.metric) # "OLD"
  <2>1. rt' = CaptRreq(rt, m.dest, m.orig, m.from, m.seq, m.metric) /\ rt \in Table
    BY DEF CaptureRreq, IInv, TInv
  <2> QED
    BY <1>1, <2>1, CaptureRreqTable
<1>3. /\ moved \subseteq moved' /\ moved' \subseteq Node
      /\ strayed \subseteq strayed' /\ strayed' \subseteq Node
  <2>1. /\ moved' = moved \/ moved' = moved \cup {m.orig}
        /\ strayed' = strayed \/ strayed' = strayed \cup {m.orig}
    BY DEF CaptureRreq
  <2> QED
    BY <1>1, <2>1 DEF IInv, TInv
<1>4. \A d \in Node : rt'[d].known => rt'[d].next = rt[d].next \/ d \in moved' \cap strayed'
  <2> SUFFICES ASSUME NEW d \in Node, rt'[d].known, rt'[d].next # rt[d].next
               PROVE  d \in moved' \cap strayed'
    OBVIOUS
  <2>1. d = m.orig /\ rt[d].known /\ rt'[d].next = m.from
        /\ CaptResult(rt, m.orig, m.seq, m.metric) # "OLD"
    BY <1>2
  <2>2. Moves(m)
    BY <2>1 DEF Moves
  <2> QED
    BY <2>1, <2>2 DEF CaptureRreq
<1>5. Routes'
  BY <1>2, <1>3, <1>4, TableEffect DEF CaptureRreq, flags
<1>6. /\ rx' \in [Rx -> Thread] /\ Locals'
      /\ \A s \in Rx : rx'[s].pc = "metric" => rx'[s] = rx[s]
  <2>1. CASE rx' = rx
    BY <2>1 DEF IInv, TInv, Locals
  <2>2. CASE Goto(t, At("as_rrep", WithoutSeq(m), 0))
    <3>1. /\ rx' \in [Rx -> Thread]
          /\ rx'[t] = At("as_rrep", WithoutSeq(m), 0)
          /\ \A s \in Rx \ {t} : rx'[s] = rx[s]
      BY <1>1, <2>2, GotoEffect, LocalTypes DEF IInv
    <3>2. /\ rx'[t].pc = "as_rrep" /\ rx'[t].msg.from = m.from
          /\ rx'[t].msg.orig = m.orig /\ rx'[t].msg.dest = m.dest
      BY <1>1, <3>1, LocalTypes
    <3>3. Locals'
      BY <1>1, <3>1, <3>2, LocalsStay DEF IInv
    <3> QED
      BY <3>1, <3>2, <3>3
  <2> QED
    BY <2>1, <2>2 DEF CaptureRreq
<1>7. AnswerIsLow'
  BY <1>2, <1>6, AnswersStay DEF IInv
<1>8. TInv'
  BY <1>2, <1>3, <1>6 DEF CaptureRreq, IInv, TInv, PerHop, flags
<1> QED
  BY <1>5, <1>7, <1>8 DEF IInv

(* A thread goes on after a step that leaves the table, or grew it. *)
LEMMA GoesOn ==
    ASSUME IInv, NEW t \in Rx, NEW l \in Thread, Goto(t, l),
           l.pc # "as_rrep", l.pc \in {"dest_seq", "mark"} => l.msg.dest \in Node,
           l.pc # "metric"
    PROVE  /\ rx' \in [Rx -> Thread] /\ Locals'
           /\ \A s \in Rx : rx'[s].pc = "metric" => rx'[s] = rx[s]
<1>1. rx' \in [Rx -> Thread] /\ rx'[t] = l /\ \A s \in Rx \ {t} : rx'[s] = rx[s]
  BY GotoEffect DEF IInv
<1>2. Locals'
  BY <1>1, LocalsStay DEF IInv
<1> QED
  BY <1>1, <1>2

LEMMA ProcessAsRrepStep ==
    ASSUME IInv, NEW t \in Rx, ProcessAsRrep(t)
    PROVE  IInv'
<1> DEFINE m == rx[t].msg
<1>1. m.from \in Hop /\ m.orig \in Node /\ m.dest \in Node /\ m.metric \in Metric
  BY DEF ProcessAsRrep, IInv, TInv, Locals, Thread, Local
<1>2. 0 \in Low /\ 0 \in SeqNo
  BY ConstantFacts DEF Low
<1>3. /\ rx' \in [Rx -> Thread] /\ Locals'
      /\ \A s \in Rx : rx'[s].pc = "metric" => rx'[s] = rx[s]
  <2> DEFINE l == At("dest_seq", Only(m.dest, 0), 0)
  <2>1. CASE Goto(t, Idle)
    BY <2>1, GoesOn, LocalTypes
  <2>2. CASE Goto(t, l)
    <3>1. l \in Thread /\ l.pc = "dest_seq" /\ l.msg.dest = m.dest
      BY <1>1, <1>2, LocalTypes
    <3> HIDE DEF l, m
    <3> QED
      BY <1>1, <2>2, <3>1, GoesOn
  <2> QED
    BY <2>1, <2>2 DEF ProcessAsRrep
<1>4. /\ rt' \in Table /\ Grows(rt, rt')
      /\ nht' \subseteq Node \X Node /\ dangling' \subseteq nht'
      /\ warned' \subseteq Node /\ strayed' \subseteq Node /\ fresh' \subseteq Node
      /\ Routes'
  <2>1. CASE CaptUsed(rt, m.orig, 0)
    <3>1. UseRrep(m.orig, m, 0) /\ UNCHANGED <<per, moved>>
      BY <2>1 DEF ProcessAsRrep
    <3> HIDE DEF m
    <3> QED
      BY <1>1, <1>2, <2>1, <3>1, UseRrepEffect
  <2>2. CASE ~CaptUsed(rt, m.orig, 0)
    <3>1. UNCHANGED <<rt, nht, dangling, warned, strayed, fresh, per, moved>>
      BY <2>2 DEF ProcessAsRrep, tables
    <3>2. \A d \in Node : rt[d].seq \in Int
      BY DEF IInv, TInv, Table, Low, SeqNo
    <3> QED
      BY <3>1, <3>2, RoutesStay DEF IInv, TInv, Grows
  <2> QED
    BY <2>1, <2>2
<1>5. AnswerIsLow'
  BY <1>3, <1>4, AnswersStay DEF IInv
<1>6. TInv'
  BY <1>3, <1>4 DEF ProcessAsRrep, IInv, TInv, PerHop
<1> QED
  BY <1>4, <1>5, <1>6 DEF IInv

LEMMA CaptureRrepStep ==
    ASSUME IInv, NEW t \in Rx, NEW m \in Rreps, CaptureRrep(t, m)
    PROVE  IInv'
<1>1. m.from \in Hop /\ m.orig \in Node /\ m.dest \in Node /\ m.seq \in Low
      /\ m.metric \in Metric
  BY FieldTypes
<1>2. 0 \in SeqNo
  BY ConstantFacts
<1>3. /\ rx' \in [Rx -> Thread] /\ Locals'
      /\ \A s \in Rx : rx'[s].pc = "metric" => rx'[s] = rx[s]
  <2>1. CASE rx' = rx
    BY <2>1 DEF IInv, TInv, Locals
  <2>2. CASE Goto(t, At("forward", Only(m.orig, 0), 0))
    BY <1>1, <1>2, <2>2, GoesOn, LocalTypes
  <2> QED
    BY <2>1, <2>2 DEF CaptureRrep
<1>4. /\ rt' \in Table /\ Grows(rt, rt')
      /\ nht' \subseteq Node \X Node /\ dangling' \subseteq nht'
      /\ warned' \subseteq Node /\ strayed' \subseteq Node /\ fresh' \subseteq Node
      /\ Routes'
  <2>1. CASE CaptUsed(rt, m.dest, m.seq)
    <3>1. UseRrep(m.dest, m, m.seq) /\ UNCHANGED <<per, moved>>
      BY <2>1 DEF CaptureRrep
    <3> QED
      BY <1>1, <2>1, <3>1, UseRrepEffect
  <2>2. CASE ~CaptUsed(rt, m.dest, m.seq)
    <3>1. rt' = [rt EXCEPT ![m.dest] = Lookup(rt, m.dest)]
          /\ UNCHANGED <<nht, dangling, warned, strayed, fresh, per, moved>>
      BY <2>2 DEF CaptureRrep
    <3>2. rt \in Table /\ rt \in [Node -> Entry] /\ Lookup(rt, m.dest) \in Entry
          /\ Lookup(rt, m.dest).seq \in Low /\ Lookup(rt, m.dest).known = rt[m.dest].known
          /\ (rt[m.dest].known => Lookup(rt, m.dest) = rt[m.dest] /\ rt[m.dest].exists)
      BY <1>1, LookupEffect DEF IInv, TInv, Table
    <3>3. \A d \in Node : rt'[d].known = rt[d].known /\ (rt[d].known => rt'[d] = rt[d])
      BY <1>1, <3>1, <3>2
    <3>4. rt' \in Table
      BY <1>1, <3>1, <3>2, <3>3 DEF Table
    <3>5. Grows(rt, rt')
      BY <3>2, <3>3 DEF Grows, Table, Low, SeqNo
    <3>6. Routes'
      BY <3>1, <3>3, <3>4, TableEffect
    <3> QED
      BY <3>1, <3>4, <3>5, <3>6 DEF IInv, TInv
  <2> QED
    BY <2>1, <2>2
<1>5. AnswerIsLow'
  BY <1>3, <1>4, AnswersStay DEF IInv
<1>6. TInv'
  BY <1>3, <1>4 DEF CaptureRrep, IInv, TInv, PerHop
<1> QED
  BY <1>4, <1>5, <1>6 DEF IInv

(* Steps of a thread that change nothing but where it is. *)
LEMMA ThreadStep ==
    ASSUME IInv, UNCHANGED <<tables, flags, per, history>>,
           rx' \in [Rx -> Thread], Locals',
           \A s \in Rx : rx'[s].pc = "metric" =>
             \/ rx'[s] = rx[s]
             \/ /\ rt[rx'[s].msg.dest].known /\ rx'[s].msg.dest \in Node
                /\ rx'[s].num = rt[rx'[s].msg.dest].seq
    PROVE  IInv'
<1>1. Routes'
  BY RoutesStay DEF tables, history
<1>2. AnswerIsLow'
  <2>1. \A d \in Node : rt[d].seq \in Int
    BY DEF IInv, TInv, Table, Low, SeqNo
  <2> QED
    BY <2>1 DEF IInv, AnswerIsLow, tables
<1>3. TInv'
  BY DEF IInv, TInv, tables, flags, history, PerHop
<1> QED
  BY <1>1, <1>2, <1>3 DEF IInv

LEMMA GetDestSeqStep ==
    ASSUME IInv, NEW t \in Rx, GetDestSeq(t)
    PROVE  IInv'
<1> DEFINE d == rx[t].msg.dest
           l == At("metric", Only(d, 0), rt[d].seq)
<1>1. d \in Node /\ rt[d].seq \in Low /\ rt[d].seq \in SeqNo /\ 0 \in SeqNo
  BY ConstantFacts DEF GetDestSeq, IInv, TInv, Locals, Table, Low
<1>2. UNCHANGED <<tables, flags, per, history>>
  BY DEF GetDestSeq
<1>3. CASE Goto(t, Idle)
  <2>1. /\ rx' \in [Rx -> Thread] /\ Locals'
        /\ \A s \in Rx : rx'[s].pc = "metric" => rx'[s] = rx[s]
    BY <1>3, GoesOn, LocalTypes
  <2> QED
    BY <1>2, <2>1, ThreadStep
<1>4. CASE rt[d].known /\ Goto(t, l)
  <2>1. l \in Thread /\ l.pc = "metric" /\ l.msg.dest = d /\ l.num = rt[d].seq
    BY <1>1, LocalTypes
  <2> HIDE DEF l
  <2>2. rx' \in [Rx -> Thread] /\ rx'[t] = l /\ \A s \in Rx \ {t} : rx'[s] = rx[s]
    BY <1>4, <2>1, GotoEffect DEF IInv
  <2>3. Locals'
    BY <1>1, <2>1, <2>2, LocalsStay DEF IInv
  <2> QED
    BY <1>1, <1>2, <1>4, <2>1, <2>2, <2>3, ThreadStep
<1> QED
  BY <1>3, <1>4 DEF GetDestSeq

LEMMA LookupNextHopStep ==
    ASSUME IInv, NEW t \in Rx, NEW m \in Rerrs, LookupNextHop(t, m)
    PROVE  IInv'
<1> DEFINE l == At("mark", Only(m.dest, m.seq), 0)
<1>1. m.dest \in Node /\ m.seq \in SeqNo /\ 0 \in SeqNo
  BY FieldTypes, ConstantFacts
<1>2. l \in Thread /\ l.pc = "mark" /\ l.msg.dest = m.dest
  BY <1>1, LocalTypes
<1>3. Goto(t, l) /\ UNCHANGED <<tables, flags, per, history>>
  BY DEF LookupNextHop
<1> HIDE DEF l
<1>4. /\ rx' \in [Rx -> Thread] /\ Locals'
      /\ \A s \in Rx : rx'[s].pc = "metric" => rx'[s] = rx[s]
  BY <1>1, <1>2, <1>3, GoesOn
<1> QED
  BY <1>3, <1>4, ThreadStep

LEMMA EndStep ==
    ASSUME IInv, NEW t \in Rx, GetMetric(t) \/ ForwardRrep(t)
    PROVE  IInv'
<1>1. Goto(t, Idle) /\ UNCHANGED <<tables, flags, per, history>>
  BY DEF GetMetric, ForwardRrep
<1>2. /\ rx' \in [Rx -> Thread] /\ Locals'
      /\ \A s \in Rx : rx'[s].pc = "metric" => rx'[s] = rx[s]
  BY <1>1, GoesOn, LocalTypes
<1> QED
  BY <1>1, <1>2, ThreadStep

(* Steps that mark the routes of D invalid and leave the tables otherwise. *)
LEMMA InvalidateStep ==
    ASSUME IInv, NEW D, rt' = InvalidateAll(rt, D) \/ rt' = rt,
           UNCHANGED <<nht, dangling, flags, history>>,
           rx' \in [Rx -> Thread], Locals',
           \A s \in Rx : rx'[s].pc = "metric" => rx'[s] = rx[s]
    PROVE  /\ rt' \in Table
           /\ \A d \in Node : /\ rt'[d].known = rt[d].known /\ rt'[d].next = rt[d].next
                              /\ rt'[d].valid => rt[d].valid
           /\ AnswerIsLow'
           /\ PerHop' => TInv'
           /\ per' = per => IInv'
<1>1. rt \in Table
  BY DEF IInv, TInv
<1>2. /\ rt' \in Table /\ Grows(rt, rt')
      /\ \A d \in Node : /\ rt'[d].known = rt[d].known /\ rt'[d].next = rt[d].next
                         /\ rt'[d].valid => rt[d].valid
  <2>1. CASE rt' = InvalidateAll(rt, D)
    BY <1>1, <2>1, InvalidateAllEffect
  <2>2. CASE rt' = rt
    <3>1. \A d \in Node : rt[d].seq \in Int
      BY <1>1 DEF Table, Low, SeqNo
    <3> QED
      BY <1>1, <2>2, <3>1 DEF Grows
  <2> QED
    BY <2>1, <2>2
<1>3. AnswerIsLow'
  BY <1>2, AnswersStay DEF IInv
<1>4. PerHop' => TInv'
  BY <1>2 DEF IInv, TInv, flags, history
<1>5. ASSUME per' = per PROVE IInv'
  <2>1. Routes'
    BY <1>2, <1>5, TableEffect DEF history
  <2>2. TInv'
    BY <1>4, <1>5 DEF PerHop, IInv, TInv
  <2> QED
    BY <1>3, <2>1, <2>2 DEF IInv
<1> QED
  BY <1>2, <1>3, <1>4, <1>5

LEMMA MarkRouteStep ==
    ASSUME IInv, NEW t \in Rx, MarkRoute(t)
    PROVE  IInv'
<1>1. /\ rx' \in [Rx -> Thread] /\ Locals'
      /\ \A s \in Rx : rx'[s].pc = "metric" => rx'[s] = rx[s]
  BY GoesOn, LocalTypes DEF MarkRoute
<1>2. /\ rt' = InvalidateAll(rt, {rx[t].msg.dest}) \/ rt' = rt
      /\ UNCHANGED <<nht, dangling, flags, history, per>>
  BY DEF MarkRoute
<1> QED
  BY <1>1, <1>2, InvalidateStep

LEMMA RoutingResetStep ==
    ASSUME IInv, RoutingReset
    PROVE  IInv'
<1>1. rx' \in [Rx -> Thread] /\ Locals'
  BY DEF RoutingReset, IInv, TInv, Locals
<1> QED
  BY <1>1, InvalidateStep DEF RoutingReset

(* Once the routes over the neighbour are marked invalid, one can be valid *)
(* only if the next hop table did not have it.                             *)
LEMMA InvOverNexthopStep ==
    ASSUME IInv, InvOverNexthop
    PROVE  IInv'
<1>1. PICK junk \in Junk(per.hop) : rt' = InvalidateAll(rt, Broken(per.hop) \cup junk)
  BY DEF InvOverNexthop
<1>2. per.hop \in Hop /\ per.hop \in Node
  BY ConstantFacts DEF InvOverNexthop, IInv, TInv, PerHop
<1>3. rx' \in [Rx -> Thread] /\ Locals' /\ rx' = rx
      /\ UNCHANGED <<nht, dangling, flags, history>>
  BY DEF InvOverNexthop, IInv, TInv, Locals
<1>4. per' = [pc |-> "list", hop |-> per.hop] \/ per' = PerIdle
  BY DEF InvOverNexthop
<1>5. PerHop'
  BY <1>2, <1>4 DEF PerHop, Per, PerIdle
<1>6. /\ rt' \in Table /\ AnswerIsLow' /\ TInv'
      /\ \A d \in Node : rt'[d].known = rt[d].known /\ rt'[d].next = rt[d].next
  BY <1>1, <1>3, <1>5, InvalidateStep
<1>7. \A d \in Broken(per.hop) : d \in Node /\ ~HasRoute(rt', d)
  <2>1. \A d \in Node : rt'[d].valid => d \notin Broken(per.hop)
    BY <1>1, InvalidateAllEffect DEF IInv, TInv
  <2> QED
    BY <2>1 DEF Broken, DestsOver, HasRoute
<1>8. OnlyRreqsUnmirror' /\ NoneMissing'
  BY <1>3, <1>6 DEF IInv, Routes, OnlyRreqsUnmirror, Mirrored, HopsOf, NoneMissing, HasPair,
                    history
<1>9. per'.pc = "list" => per'.hop = per.hop
  BY <1>4 DEF PerIdle
<1>10. per'.pc = "list" => Broken(per.hop)' = Broken(per.hop)
  BY <1>3, <1>9 DEF Broken, DestsOver
<1>11. BrokenIsLost'
  BY <1>7, <1>10 DEF BrokenIsLost
<1>12. BreakIsComplete'
  <2> SUFFICES ASSUME per'.pc = "list", NEW d \in Node \ strayed,
                      HasRoute(rt', d), rt'[d].next = per.hop
               PROVE  FALSE
    BY <1>3, <1>9 DEF BreakIsComplete, history
  <2>1. HasPair(d) /\ rt[d].next = per.hop
    BY <1>6 DEF IInv, Routes, NoneMissing, HasRoute
  <2>2. d \in Broken(per.hop)
    BY <2>1 DEF HasPair, Broken, DestsOver
  <2> QED
    BY <1>7, <2>2
<1> QED
  BY <1>6, <1>8, <1>11, <1>12 DEF IInv, Routes

(* An entry expires, also in the middle of a RERR task: its own pair goes, *)
(* and an answer that is built from it is marked.                          *)
LEMMA ExpireStep ==
    ASSUME IInv, NEW d \in Node, Expire(d)
    PROVE  IInv'
<1>1. rt \in Table /\ rt \in [Node -> Entry] /\ 0 \in Low
  BY ConstantFacts DEF IInv, TInv, Table, Low
<1>2. rt' = [rt EXCEPT ![d] = Absent]
  BY DEF Expire, PurgeEntry
<1>3. rt'[d] = Absent /\ \A x \in Node \ {d} : rt'[x] = rt[x]
  BY <1>1, <1>2
<1>4. rt' \in Table
  BY <1>1, <1>2, <1>3, AbsentType DEF Table
<1>5. OwnPair(rt, d) = IF rt[d].known THEN {<<rt[d].next, d>>} ELSE {}
  BY DEF OwnPair
<1>6. /\ nht' = nht \ OwnPair(rt, d)
      /\ dangling' = (dangling \ OwnPair(rt, d)) \cup {p \in nht' : p[2] = d}
      /\ nht \subseteq Node \X Node /\ dangling \subseteq nht
  BY DEF Expire, PurgeNht, PurgeDangling, IInv, TInv
<1>7. nht' \subseteq Node \X Node /\ dangling' \subseteq nht'
  BY <1>6
<1>8. rx' \in [Rx -> Thread]
      /\ \A t \in Rx : IF rx[t].pc = "metric" /\ rx[t].msg.dest = d
                        THEN rx'[t] = [rx[t] EXCEPT !.gone = TRUE] ELSE rx'[t] = rx[t]
  <2>1. \A t \in Rx : [rx[t] EXCEPT !.gone = TRUE] \in Thread
    BY DEF IInv, TInv, Thread
  <2> QED
    BY <2>1 DEF Expire, IInv, TInv
<1>9. \A t \in Rx : /\ rx'[t].pc = rx[t].pc /\ rx'[t].msg = rx[t].msg /\ rx'[t].num = rx[t].num
                    /\ ~rx'[t].gone => rx'[t] = rx[t]
                                       /\ ~(rx[t].pc = "metric" /\ rx[t].msg.dest = d)
  BY <1>8 DEF IInv, TInv, Thread
<1>10. Locals'
  BY <1>8, <1>9 DEF IInv, TInv, Locals
<1>11. TInv'
  <2>1. UNCHANGED <<per, moved, fresh>>
    BY DEF Expire
  <2>2. local_used' \subseteq Node /\ warned' \subseteq Node /\ strayed' \subseteq Node
    BY DEF Expire, IInv, TInv
  <2> QED
    BY <1>4, <1>7, <1>8, <1>10, <2>1, <2>2 DEF IInv, TInv, PerHop
<1>12. AnswerIsLow'
  <2> SUFFICES ASSUME NEW t \in Rx, rx'[t].pc = "metric", ~rx'[t].gone
               PROVE  rt'[rx'[t].msg.dest].known /\ rx'[t].num <= rt'[rx'[t].msg.dest].seq
    BY DEF AnswerIsLow
  <2>1. rx'[t] = rx[t] /\ rx[t].msg.dest \in Node \ {d}
    BY <1>9 DEF IInv, TInv, Locals
  <2> QED
    BY <1>3, <2>1 DEF IInv, AnswerIsLow
<1>13. ASSUME NEW x \in Node \ moved' PROVE Mirrored(x)'
  <2>1. Mirrored(x) /\ x \in Node
    BY <1>13 DEF IInv, Routes, OnlyRreqsUnmirror, Expire
  <2>2. CASE x = d
    <3>1. \A h \in Node : <<h, d>> \notin nht'
      <4>1. CASE rt[d].known
        <5>1. \A h \in Node : <<h, d>> \in nht => h = rt[d].next
          BY <2>1, <2>2, <4>1 DEF Mirrored, HopsOf
        <5> QED
          BY <1>5, <1>6, <4>1, <5>1
      <4>2. CASE ~rt[d].known
        BY <1>6, <2>1, <2>2, <4>2 DEF Mirrored, HopsOf
      <4> QED
        BY <4>1, <4>2
    <3>2. \A h \in Node : <<h, d>> \notin dangling'
      BY <1>7, <3>1
    <3> QED
      BY <1>3, <2>2, <3>1, <3>2, AbsentType DEF Mirrored, HopsOf
  <2>3. CASE x # d
    <3>1. \A h \in Node : /\ <<h, x>> \in nht' <=> <<h, x>> \in nht
                          /\ <<h, x>> \in dangling' => <<h, x>> \in dangling
      BY <1>5, <1>6, <2>3
    <3>2. HopsOf(x)' = HopsOf(x)
      BY <3>1 DEF HopsOf
    <3> QED
      BY <1>3, <2>1, <2>3, <3>1, <3>2 DEF Mirrored
  <2> QED
    BY <2>2, <2>3
<1>14. UNCHANGED <<per, fresh>> /\ strayed' = strayed \ {d}
  BY DEF Expire
<1>15. ~rt'[d].known
  BY <1>3, AbsentType
<1>16. BreakIsComplete'
  <2> SUFFICES ASSUME per.pc = "list", NEW x \in Node, HasRoute(rt', x), rt'[x].next = per.hop
               PROVE  x \in fresh \cup strayed'
    BY <1>14 DEF BreakIsComplete
  <2>1. x # d /\ rt'[x] = rt[x]
    BY <1>3, <1>15 DEF HasRoute
  <2>2. x \in fresh \cup strayed
    BY <2>1 DEF IInv, Routes, BreakIsComplete, HasRoute
  <2> QED
    BY <1>14, <2>1, <2>2
<1>17. BrokenIsLost'
  <2> SUFFICES ASSUME per.pc = "list", NEW x \in Broken(per.hop)', HasRoute(rt', x)
               PROVE  x \in fresh
    BY <1>14 DEF BrokenIsLost
  <2>1. x \in Node /\ <<per.hop, x>> \in nht' /\ <<per.hop, x>> \notin dangling'
    BY <1>14 DEF Broken, DestsOver
  <2>2. x # d /\ rt'[x] = rt[x]
    BY <1>3, <1>15, <2>1 DEF HasRoute
  <2>3. <<per.hop, x>> \in nht /\ <<per.hop, x>> \notin dangling
    BY <1>5, <1>6, <2>1, <2>2
  <2>4. x \in Broken(per.hop)
    BY <2>1, <2>3 DEF Broken, DestsOver
  <2> QED
    BY <2>2, <2>4 DEF IInv, Routes, BrokenIsLost, HasRoute
<1>18. NoneMissing'
  <2> SUFFICES ASSUME NEW x \in Node, rt'[x].known, x \notin strayed' PROVE HasPair(x)'
    BY DEF NoneMissing
  <2>1. x # d /\ rt'[x] = rt[x] /\ x \notin strayed
    BY <1>3, <1>14, <1>15
  <2>2. <<rt[x].next, x>> \in nht /\ <<rt[x].next, x>> \notin dangling
    BY <2>1 DEF IInv, Routes, NoneMissing, HasPair
  <2>3. <<rt[x].next, x>> \in nht' /\ <<rt[x].next, x>> \notin dangling'
    BY <1>5, <1>6, <2>1, <2>2
  <2> QED
    BY <2>1, <2>3 DEF HasPair
<1> QED
  BY <1>11, <1>12, <1>13, <1>16, <1>17, <1>18 DEF IInv, Routes, OnlyRreqsUnmirror

(* The periodic thread begins or ends a RERR task. *)
LEMMA PeriodicStep ==
    ASSUME IInv, GetDestlist \/ \E h \in Hop : PopRerr(h)
    PROVE  IInv'
<1>1. UNCHANGED <<rt, nht, dangling, local_used, warned, rx, moved, strayed>>
      /\ fresh' \subseteq Node
  BY DEF GetDestlist, PopRerr, tables, flags, history, IInv, TInv
<1>2. per'.pc # "list" /\ PerHop'
  BY DEF GetDestlist, PopRerr, PerIdle, PerHop, Per
<1>3. OnlyRreqsUnmirror' /\ NoneMissing' /\ AnswerIsLow' /\ Locals'
  BY <1>1 DEF IInv, TInv, Routes, OnlyRreqsUnmirror, Mirrored, HopsOf, NoneMissing, HasPair,
              AnswerIsLow, Locals
<1>4. TInv'
  BY <1>1, <1>2, <1>3 DEF IInv, TInv
<1>5. (BreakIsComplete /\ BrokenIsLost)'
  BY <1>2 DEF BreakIsComplete, BrokenIsLost
<1> QED
  BY <1>3, <1>4, <1>5 DEF IInv, Routes

(* The flags LOCAL_USED and WARN decide nothing here. *)
LEMMA FlagStep ==
    ASSUME IInv, (\E d \in Wanted : SendData(d)) \/ (\E h \in Hop : Warn(h))
    PROVE  IInv'
<1>1. UNCHANGED <<rt, nht, dangling, rx, per, moved, strayed, fresh>>
  BY DEF SendData, Warn, tables, history
<1>2. local_used' \subseteq Node /\ warned' \subseteq Node
  BY ConstantFacts DEF SendData, Warn, Junk, Endangered, Broken, DestsOver, IInv, TInv
<1>3. AnswerIsLow' /\ Locals' /\ PerHop'
  BY <1>1 DEF IInv, TInv, AnswerIsLow, Locals, PerHop
<1>4. TInv'
  BY <1>1, <1>2, <1>3 DEF IInv, TInv
<1> QED
  BY <1>1, <1>3, <1>4, RoutesStay DEF IInv

LEMMA StutterStep ==
    ASSUME IInv, UNCHANGED vars
    PROVE  IInv'
<1>1. UNCHANGED <<rt, nht, dangling, local_used, warned, rx, per, moved, strayed, fresh>>
  BY DEF vars
<1>2. Routes'
  BY <1>1, RoutesStay
<1> QED
  BY <1>1, <1>2 DEF IInv, TInv, Locals, PerHop, AnswerIsLow

LEMMA Inductive == IInv /\ [Next]_vars => IInv'
<1> SUFFICES ASSUME IInv, [Next]_vars PROVE IInv'
  OBVIOUS
<1>1. ASSUME NEW t \in Rx, NEW m \in Rreqs, CaptureRreq(t, m) PROVE IInv'
  BY <1>1, CaptureRreqStep
<1>2. ASSUME NEW t \in Rx, NEW m \in Rreps, CaptureRrep(t, m) PROVE IInv'
  BY <1>2, CaptureRrepStep
<1>3. ASSUME NEW t \in Rx, NEW m \in Rerrs, LookupNextHop(t, m) PROVE IInv'
  BY <1>3, LookupNextHopStep
<1>4. ASSUME NEW t \in Rx, ProcessAsRrep(t) PROVE IInv'
  BY <1>4, ProcessAsRrepStep
<1>5. ASSUME NEW t \in Rx, GetDestSeq(t) PROVE IInv'
  BY <1>5, GetDestSeqStep
<1>6. ASSUME NEW t \in Rx, GetMetric(t) \/ ForwardRrep(t) PROVE IInv'
  BY <1>6, EndStep
<1>7. ASSUME NEW t \in Rx, MarkRoute(t) PROVE IInv'
  BY <1>7, MarkRouteStep
<1>8. ASSUME NEW d \in Node, Expire(d) PROVE IInv'
  BY <1>8, ExpireStep
<1>9. ASSUME RoutingReset PROVE IInv'
  BY <1>9, RoutingResetStep
<1>10. ASSUME InvOverNexthop PROVE IInv'
  BY <1>10, InvOverNexthopStep
<1>11. ASSUME GetDestlist \/ \E h \in Hop : PopRerr(h) PROVE IInv'
  BY <1>11, PeriodicStep
<1>12. ASSUME (\E d \in Wanted : SendData(d)) \/ \E h \in Hop : Warn(h) PROVE IInv'
  BY <1>12, FlagStep
<1>13. ASSUME UNCHANGED vars PROVE IInv'
  BY <1>13, StutterStep
<1> QED
  BY <1>1, <1>2, <1>3, <1>4, <1>5, <1>6, <1>7, <1>8, <1>9, <1>10, <1>11, <1>12, <1>13 DEF Next

(* The number of a pending answer is not newer than the entry. *)
LEMMA AnswersAreNotNewer == IInv => RepairIsNotOutdated
<1> SUFFICES ASSUME IInv, NEW t \in Rx, rx[t].pc = "metric", ~rx[t].gone
             PROVE  LET e == rt[rx[t].msg.dest]
                    IN  e.known /\ ~(hf_comp_u32(rx[t].num, e.seq) > 0)
  BY DEF RepairIsNotOutdated
<1> DEFINE e == rt[rx[t].msg.dest]
<1>1. e.known /\ rx[t].num <= e.seq
  BY DEF IInv, AnswerIsLow
<1>2. rx[t].num \in Low /\ e.seq \in Low
  BY DEF IInv, TInv, Locals, Table
<1>3. rx[t].num \in Int /\ e.seq \in Int
  BY <1>2 DEF Low, SeqNo
<1>4. ~(rx[t].num > e.seq)
  BY <1>1, <1>3
<1> QED
  BY <1>1, <1>2, <1>4, NewerIsGreater

(* A pointer that dangles belongs to a destination that a RREQ has moved,  *)
(* and only through such pointers a RERR lists a usable route.             *)
LEMMA ReportsFollow == IInv => ReportIsLost
<1> SUFFICES ASSUME IInv, per.pc = "list", NEW d \in Reported(per.hop), HasRoute(rt, d)
             PROVE  \/ d \in fresh
                    \/ d \notin Broken(per.hop) /\ Stale(per.hop) \cap moved # {}
  BY DEF ReportIsLost
<1>1. CASE d \in Broken(per.hop)
  BY <1>1 DEF IInv, Routes, BrokenIsLost
<1>2. CASE d \notin Broken(per.hop)
  <2>1. PICK junk \in Junk(per.hop) : d \in junk
    BY <1>2 DEF Reported
  <2>2. Stale(per.hop) # {}
    BY <2>1 DEF Junk
  <2>3. PICK e \in Node : <<per.hop, e>> \in dangling
    BY <2>2 DEF Stale
  <2>4. per.hop \in Node
    BY ConstantFacts DEF IInv, TInv, PerHop
  <2>5. e \in moved
    BY <2>3, <2>4 DEF IInv, Routes, OnlyRreqsUnmirror, Mirrored
  <2> QED
    BY <1>2, <2>3, <2>5 DEF Stale
<1> QED
  BY <1>1, <1>2

LEMMA Invariance == Spec => []IInv
<1>1. Init => IInv
  BY InitStep
<1>2. IInv /\ [Next]_vars => IInv'
  BY Inductive
<1> QED
  BY <1>1, <1>2, PTL DEF Spec

-----------------------------------------------------------------------------
(* The tables of a node, its flags and its threads keep their types under  *)
(* any interleaving of the database calls.                                 *)
THEOREM RoutesTypeCorrect == Spec => []TypeOK
BY Invariance, TInvType, PTL DEF IInv

(* The next hop table mirrors the routing table, without dangling          *)
(* pointers, but for destinations of which a RREQ has replaced a known     *)
(* next hop: aodv_db_rt_capt_rreq is the one function that breaks it.      *)
THEOREM OnlyRreqsBreakTheMirror == Spec => []OnlyRreqsUnmirror
BY Invariance, PTL DEF IInv, Routes

(* When a RERR is built, after any purges and captures since the routes    *)
(* over the lost neighbour were invalidated, no route over it is usable    *)
(* but those that a RREP has brought since, and those whose next hop is    *)
(* from a RREQ: aodv_db_inv_over_nexthop does not find these.              *)
THEOREM BreaksAreComplete == Spec => []BreakIsComplete
BY Invariance, PTL DEF IInv, Routes

(* A RERR lists no usable route but those that a RREP has brought since,   *)
(* and what it reads through a pointer that dangles because a RREQ has     *)
(* replaced the known next hop of its destination.                         *)
THEOREM ReportsAreLost == Spec => []ReportIsLost
BY Invariance, ReportsFollow, PTL

(* A node never answers a RREQ with the metric of a route that is older    *)
(* than the number it answers with, unless the entry expired in between.   *)
THEOREM RepairsAreNotOutdated == Spec => []RepairIsNotOutdated
BY Invariance, AnswersAreNotNewer, PTL

-----------------------------------------------------------------------------
(* Every database call leaves the number of an entry that stays known at   *)
(* least as new as it was.                                                 *)
LEMMA StepGrows ==
    ASSUME IInv, [Next]_vars
    PROVE  rt' \in Table /\ (Grows(rt, rt') \/ \E d \in Node : rt' = PurgeEntry(rt, d))
<1>0. rt' \in Table
  BY Inductive DEF IInv, TInv
<1>1. \A d \in Node : rt[d].seq \in Nat
  BY DEF IInv, TInv, Table, Low, SeqNo
<1>2. rt' = rt => Grows(rt, rt')
  BY <1>1 DEF Grows
<1>3. ASSUME NEW t \in Rx, NEW m \in Rreqs, CaptureRreq(t, m) PROVE Grows(rt, rt')
  <2>1. /\ m.from \in Node /\ m.orig \in Node /\ m.dest \in Node
        /\ m.seq \in Low /\ m.metric \in Metric
    BY FieldTypes, ConstantFacts
  <2> QED
    BY <1>3, <2>1, CaptureRreqTable DEF CaptureRreq, IInv, TInv
<1>4. ASSUME NEW t \in Rx, NEW m \in Rreps, CaptureRrep(t, m) PROVE Grows(rt, rt')
  <2>1. m.from \in Node /\ m.dest \in Node /\ m.seq \in Low /\ m.metric \in Metric
    BY FieldTypes, ConstantFacts
  <2>2. CASE CaptUsed(rt, m.dest, m.seq)
    BY <1>4, <2>1, <2>2, CaptRrepEffect DEF CaptureRrep, UseRrep, IInv, TInv
  <2>3. CASE ~CaptUsed(rt, m.dest, m.seq)
    <3>1. rt' = [rt EXCEPT ![m.dest] = Lookup(rt, m.dest)] /\ rt \in Table
          /\ rt \in [Node -> Entry]
      BY <1>4, <2>3 DEF CaptureRrep, IInv, TInv, Table
    <3>2. \A d \in Node : rt[d].known => rt'[d] = rt[d]
      BY <2>1, <3>1, LookupEffect
    <3> QED
      BY <1>1, <3>2 DEF Grows
  <2> QED
    BY <2>2, <2>3
<1>5. ASSUME NEW t \in Rx, ProcessAsRrep(t) PROVE Grows(rt, rt')
  <2> DEFINE m == rx[t].msg
  <2>1. m.from \in Node /\ m.orig \in Node /\ m.metric \in Metric /\ 0 \in Low
    BY <1>5, ConstantFacts DEF ProcessAsRrep, IInv, TInv, Locals, Thread, Local, Low
  <2>2. CASE CaptUsed(rt, m.orig, 0)
    <3>1. rt' = CaptRrep(rt, m.orig, m.from, 0, m.metric)
      BY <1>5, <2>2 DEF ProcessAsRrep, UseRrep
    <3> HIDE DEF m
    <3> QED
      BY <2>1, <2>2, <3>1, CaptRrepEffect DEF IInv, TInv
  <2>3. CASE ~CaptUsed(rt, m.orig, 0)
    BY <1>1, <1>5, <2>3 DEF ProcessAsRrep, tables, Grows
  <2> QED
    BY <2>2, <2>3
<1>6. ASSUME NEW D, rt' = InvalidateAll(rt, D) PROVE Grows(rt, rt')
  BY <1>6, InvalidateAllEffect DEF IInv, TInv
<1>7. ASSUME NEW d \in Node, Expire(d) PROVE rt' = PurgeEntry(rt, d)
  BY <1>7 DEF Expire
<1>8. ASSUME NEW t \in Rx, MarkRoute(t) PROVE Grows(rt, rt')
  <2>1. rt' = rt \/ rt' = InvalidateAll(rt, {rx[t].msg.dest})
    BY <1>8 DEF MarkRoute
  <2>2. CASE rt' = rt
    BY <1>2, <2>2
  <2> QED
    BY <1>6, <2>1, <2>2
<1>9. CASE RoutingReset \/ InvOverNexthop
  BY <1>0, <1>6, <1>9 DEF RoutingReset, InvOverNexthop
<1>10. ASSUME NEW t \in Rx, GetDestSeq(t) \/ GetMetric(t) \/ ForwardRrep(t) PROVE rt' = rt
  BY <1>10 DEF GetDestSeq, GetMetric, ForwardRrep, tables
<1>11. ASSUME NEW t \in Rx, NEW m \in Rerrs, LookupNextHop(t, m) PROVE rt' = rt
  BY <1>11 DEF LookupNextHop, tables
<1>12. CASE \/ UNCHANGED vars \/ GetDestlist
            \/ \E d \in Wanted : SendData(d)
            \/ \E h \in Hop : PopRerr(h) \/ Warn(h)
  <2>1. rt' = rt
    BY <1>12 DEF vars, GetDestlist, SendData, PopRerr, Warn, tables
  <2> QED
    BY <1>0, <1>2, <2>1
<1> QED
  BY <1>0, <1>2, <1>3, <1>4, <1>5, <1>7, <1>8, <1>9, <1>10, <1>11, <1>12 DEF Next

(* An entry that stays known never goes back to an older number, in any    *)
(* interleaving of the calls that the handlers of RREQs, RREPs and RERRs   *)
(* make: each compares with hf_comp_u32 in the call that takes the number. *)
THEOREM NumbersNeverOlder == Spec => SeqNeverOlder
<1> DEFINE Kept == \A d \in Node : rt[d].known /\ rt'[d].known =>
                       ~(hf_comp_u32(rt[d].seq, rt'[d].seq) > 0)
<1>1. IInv /\ [Next]_vars => [Kept]_vars
  <2> SUFFICES ASSUME IInv, [Next]_vars,
                      NEW d \in Node, rt[d].known, rt'[d].known
               PROVE  ~(hf_comp_u32(rt[d].seq, rt'[d].seq) > 0)
    OBVIOUS
  <2>1. rt[d].seq \in Low /\ rt'[d].seq \in Low
    BY StepGrows DEF IInv, TInv, Table
  <2>2. CASE Grows(rt, rt')
    <3>1. rt'[d].seq >= rt[d].seq /\ rt[d].seq \in Nat /\ rt'[d].seq \in Nat
      BY <2>1, <2>2 DEF Grows, Low, SeqNo
    <3> QED
      BY <2>1, <3>1, NewerIsGreater
  <2>3. ASSUME NEW x \in Node, rt' = PurgeEntry(rt, x)
        PROVE  ~(hf_comp_u32(rt[d].seq, rt'[d].seq) > 0)
    <3>1. d # x /\ rt'[d] = rt[d]
      BY <2>3, AbsentType DEF PurgeEntry, IInv, TInv, Table
    <3> QED
      BY <3>1 DEF hf_comp_u32
  <2> QED
    BY <2>2, <2>3, StepGrows
<1> QED
  BY <1>1, Invariance, PTL DEF Spec, SeqNeverOlder

-----------------------------------------------------------------------------
(* The number that comes d increments after i. *)
Ahead(i, d) == IF i + d < SeqMod THEN i + d ELSE i + d - SeqMod

(* hf_comp_u32 orders the numbers of any window of fewer than half of the  *)
(* range as they were drawn, also where the window runs over the wrap.     *)
THEOREM WindowsAreOrdered ==
    ASSUME NEW i \in SeqNo, NEW d \in 0..(HalfSeq - 1), NEW e \in 0..(HalfSeq - 1)
    PROVE  /\ hf_comp_u32(Ahead(i, d), Ahead(i, e)) > 0 <=> d > e
           /\ hf_comp_u32(Ahead(i, d), Ahead(i, e)) = 0 <=> d = e
BY ConstantFacts DEF hf_comp_u32, SeqDiff, Ahead, SeqNo

(* Of two numbers never both are newer than the other.  Both are older     *)
(* exactly when they are half of the range apart: for uint32_t, at three   *)
(* differences, because UINT32_MAX >> 1 is one less than half.             *)
THEOREM BothAreOldAtHalf ==
    ASSUME NEW i \in SeqNo, NEW j \in SeqNo, i # j
    PROVE  /\ ~(hf_comp_u32(i, j) > 0 /\ hf_comp_u32(j, i) > 0)
           /\ hf_comp_u32(i, j) < 0 /\ hf_comp_u32(j, i) < 0
                <=> SeqDiff(i, j) \in HalfSeq..(SeqMod - HalfSeq)
BY ConstantFacts DEF hf_comp_u32, SeqDiff, SeqNo

(* A node whose own number has come into the upper half is not heard any   *)
(* more: its RREQs are old for whoever has no entry of it, since a new     *)
(* entry starts with number 0 (aodv_rt.c 88).  This is why the theorems    *)
(* assume numbers of the lower half.                                       *)
THEOREM UpperHalfIsOld ==
    ASSUME NEW table, NEW orig, ~table[orig].exists, NEW metric,
           NEW seq \in SeqNo, seq > SeqMod - HalfSeq
    PROVE  CaptResult(table, orig, seq, metric) = "OLD"
<1>1. Lookup(table, orig).seq = 0
  BY AbsentType DEF Lookup
<1>2. hf_comp_u32(0, seq) = 1
  BY ConstantFacts DEF hf_comp_u32, SeqDiff, SeqNo
<1> QED
  BY <1>1, <1>2 DEF CaptResult

(* The number 0 with which aodv_handle_rreq captures a RREQ as a RREP ("0  *)
(* force", line 369) forces nothing where the next hop is known: once a    *)
(* number has been heard, the capture is refused, and a route that is      *)
(* marked invalid stays so.                                                *)
THEOREM ZeroForcesOnlyUnknown ==
    ASSUME NEW table \in Table, NEW d \in Node
    PROVE  CaptUsed(table, d, 0) <=> ~table[d].known \/ table[d].seq = 0
<1>1. 0 \in Low /\ table[d].seq \in Low
  BY ConstantFacts DEF Low, Table
<1>2. table[d].seq \in Nat
  BY <1>1 DEF Low, SeqNo
<1> QED
  BY <1>1, <1>2, NewerIsGreater DEF CaptUsed

(* The number UINT32_MAX that aodv_forward puts into the RERR for a        *)
(* stranded packet is older than every number a node hears, but for the    *)
(* last ones before the upper half: no receiver marks its route invalid,   *)
(* and the source goes on sending over it.                                 *)
THEOREM StrandedRerrIsIgnored ==
    ASSUME NEW table \in Table, NEW d \in Node, table[d].seq < HalfSeq - 1
    PROVE  ~MarkedInvalid(table, d, SEQ_MAX)
<1>1. table[d].seq \in SeqNo
  BY DEF Table, Low
<1>2. hf_comp_u32(table[d].seq, SEQ_MAX) = 1
  BY <1>1, ConstantFacts DEF hf_comp_u32, SeqDiff, SeqNo, SEQ_MAX
<1> QED
  BY <1>2 DEF MarkedInvalid
=============================================================================

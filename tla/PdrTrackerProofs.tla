-------------------------- MODULE PdrTrackerProofs --------------------------
(* Proofs about the PDR tracker, for any threads, parameters and counters. *)
EXTENDS PdrTracker, FiniteSetTheorems, FunctionTheorems, TLAPS

(* The assumptions on the constants, as one fact to cite. *)
LEMMA ConstantFacts ==
    /\ Intervals \subseteq Nat \ {0} /\ HELLO_INTERVAL \in Intervals
    /\ Factors \subseteq Nat \ {0} /\ PDR_TRACKING_FACTOR \in Factors
    /\ MinTracking \in Nat /\ PurgeFactor \in Nat \ {0}
    /\ CountMod \in Nat \ {0} /\ HelloMod \in Nat \ {0} /\ EtxOne \in Nat
    /\ Answers \subseteq Count /\ MaxSwitches \in Nat /\ MaxMetric \in Nat \ {0}
    /\ 0 \in Count /\ 0 \in HelloNo /\ NotYet \in HelloNo
BY TrackerAssumption, SeqModAssumption DEF Count, HelloNo, NotYet

-----------------------------------------------------------------------------
(* Division of integers. *)
LEMMA DivMod ==
    ASSUME NEW a \in Int, NEW m \in Nat \ {0}
    PROVE  /\ a % m \in 0..(m - 1)
           /\ a \div m \in Int
           /\ a = m * (a \div m) + (a % m)
OBVIOUS

LEMMA ModUnique ==
    ASSUME NEW m \in Nat \ {0}, NEW p \in Int, NEW q \in Int,
           NEW r \in 0..(m - 1), NEW s \in 0..(m - 1),
           m * p + r = m * q + s
    PROVE  r = s
<1>1. m * (p - q) = s - r
  OBVIOUS
<1>2. CASE p > q
  <2>1. m * (p - q) >= m
    BY <1>2
  <2> QED BY <1>1, <2>1
<1>3. CASE p < q
  <2>1. m * (p - q) <= -m
    BY <1>3
  <2> QED BY <1>1, <2>1
<1> QED BY <1>1, <1>2, <1>3

(* A sum may be reduced before or after something is added. *)
LEMMA ModPlus ==
    ASSUME NEW a \in Int, NEW k \in Int, NEW m \in Nat \ {0}
    PROVE  ((a % m) + k) % m = (a + k) % m
<1> DEFINE b == (a % m) + k
           c == a + k
<1>1. /\ a % m \in Int /\ a \div m \in Int /\ a = m * (a \div m) + (a % m)
  BY DivMod
<1>2. b \in Int /\ c \in Int
  BY <1>1
<1>3. /\ b % m \in 0..(m - 1) /\ b \div m \in Int /\ b = m * (b \div m) + (b % m)
      /\ c % m \in 0..(m - 1) /\ c \div m \in Int /\ c = m * (c \div m) + (c % m)
  <2> HIDE DEF b, c
  <2> QED BY <1>2, DivMod
<1>4. c = b + m * (a \div m)
  BY <1>1
<1> HIDE DEF b, c
<1>5. c = m * ((b \div m) + (a \div m)) + (b % m)
  BY <1>1, <1>2, <1>3, <1>4
<1>6. m * (c \div m) + (c % m) = m * ((b \div m) + (a \div m)) + (b % m)
  BY <1>3, <1>5
<1>7. (b \div m) + (a \div m) \in Int
  BY <1>1, <1>3
<1>8. c % m = b % m
  BY <1>3, <1>6, <1>7, ModUnique
<1> QED BY <1>8 DEF b, c

LEMMA ModSmall ==
    ASSUME NEW m \in Nat \ {0}, NEW a \in 0..(m - 1)
    PROVE  a % m = a
<1>1. /\ a % m \in 0..(m - 1) /\ a \div m \in Int /\ a = m * (a \div m) + (a % m)
  BY DivMod
<1>2. m * (a \div m) + (a % m) = m * 0 + a
  BY <1>1
<1> QED BY <1>1, <1>2, ModUnique

-----------------------------------------------------------------------------
LEMMA DivPositive ==
    ASSUME NEW a \in Nat, NEW m \in Nat \ {0}, a >= m
    PROVE  a \div m \in Nat \ {0}
<1>1. /\ a % m \in 0..(m - 1) /\ a \div m \in Int /\ a = m * (a \div m) + (a % m)
  BY DivMod
<1>2. ASSUME a \div m <= 0 PROVE FALSE
  <2>1. m * (a \div m) <= 0
    BY <1>1, <1>2
  <2> QED BY <1>1, <2>1
<1> QED BY <1>1, <1>2

LEMMA CountMods ==
    ASSUME NEW a \in Int
    PROVE  a % CountMod \in Count
BY ConstantFacts, DivMod DEF Count

(* Whatever the parameters, at least one hello is expected. *)
LEMMA ExpectedType ==
    ASSUME NEW i \in Nat \ {0}, NEW f \in Nat \ {0}
    PROVE  /\ Expected(i, f) \in Nat \ {0}
           /\ Watch(i, f) \in Nat /\ Purge(i, f) \in Nat
<1>1. i * f \in Nat /\ i * f >= i
  OBVIOUS
<1>2. MinTracking \in Nat /\ PurgeFactor \in Nat
  BY ConstantFacts
<1>3. i * f < MinTracking => MinTracking \div i \in Nat \ {0}
  <2>1. SUFFICES ASSUME i * f < MinTracking PROVE MinTracking \div i \in Nat \ {0}
    OBVIOUS
  <2>2. MinTracking >= i
    BY <1>1, <1>2, <2>1
  <2> QED BY <1>2, <2>2, DivPositive
<1>4. Expected(i, f) \in Nat \ {0}
  BY <1>1, <1>2, <1>3 DEF Expected
<1>5. Watch(i, f) \in Nat
  BY <1>1, <1>2 DEF Watch
<1>6. Purge(i, f) \in Nat
  BY <1>1, <1>2 DEF Purge
<1> QED BY <1>4, <1>5, <1>6

LEMMA ListedIsFinite ==
    ASSUME NEW l \in SUBSET HelloNo
    PROVE  IsFiniteSet(l) /\ Cardinality(l) \in Nat
<1>1. HelloMod - 1 \in Int
  BY ConstantFacts
<1>2. IsFiniteSet(HelloNo)
  BY <1>1, FS_Interval DEF HelloNo
<1>3. IsFiniteSet(l)
  BY <1>2, FS_Subset
<1> QED BY <1>3, FS_CardinalityType

(* What the functions of the tracker need of an entry. *)
Sound(e) == e \in Entry /\ (e.exists => e.expected > 0)

LEMMA NoEntryType == Sound(NoEntry)
BY ConstantFacts DEF Sound, NoEntry, Entry

(* The refresh makes an entry, or keeps what was counted. *)
LEMMA RefreshedType ==
    ASSUME NEW e, Sound(e), NEW i \in Intervals, tracking_factor \in Factors
    PROVE  /\ Sound(Refreshed(e, i)) /\ Refreshed(e, i).exists
           /\ Refreshed(e, i).listed = IF e.exists THEN e.listed ELSE {}
           /\ Refreshed(e, i).rcvd = IF e.exists THEN e.rcvd ELSE 0
<1>1. i \in Nat \ {0} /\ tracking_factor \in Nat \ {0}
  BY ConstantFacts
<1>2. /\ Expected(i, tracking_factor) \in Nat \ {0}
      /\ Watch(i, tracking_factor) \in Nat /\ Purge(i, tracking_factor) \in Nat
  BY <1>1, ExpectedType
<1> DEFINE c == IF e.exists THEN e
                ELSE [NoEntry EXCEPT !.exists = TRUE, !.watch = Watch(i, tracking_factor)]
           u == IF c.interv = i THEN c
                ELSE [c EXCEPT !.interv = i, !.expected = Expected(i, tracking_factor),
                               !.purge = Purge(i, tracking_factor)]
<1>3. /\ c \in Entry /\ c.exists
      /\ c.expected > 0 \/ c.interv # i
      /\ c.listed = IF e.exists THEN e.listed ELSE {}
      /\ c.rcvd = IF e.exists THEN e.rcvd ELSE 0
  <2>1. CASE e.exists
    BY <2>1 DEF Sound
  <2>2. CASE ~e.exists
    BY <1>1, <1>2, <2>2, ConstantFacts DEF NoEntry, Entry
  <2> QED BY <2>1, <2>2
<1> HIDE DEF c
<1>4. /\ u \in Entry /\ u.exists /\ u.expected > 0
      /\ u.listed = c.listed /\ u.rcvd = c.rcvd
  <2>1. CASE c.interv = i
    BY <1>3, <2>1
  <2>2. CASE c.interv # i
    <3>1. u = [c EXCEPT !.interv = i, !.expected = Expected(i, tracking_factor),
                        !.purge = Purge(i, tracking_factor)]
      BY <2>2
    <3> HIDE DEF u
    <3>2. u \in Entry
      BY <1>1, <1>2, <1>3, <3>1 DEF Entry
    <3> QED BY <1>2, <1>3, <3>1, <3>2 DEF Entry
  <2> QED BY <2>1, <2>2
<1> HIDE DEF u
<1>5. Refreshed(e, i) = [u EXCEPT !.gone = u.purge]
  BY DEF Refreshed, u, c
<1> QED BY <1>3, <1>4, <1>5 DEF Sound, Entry

LEMMA CapturedType ==
    ASSUME NEW e, Sound(e), NEW s \in HelloNo
    PROVE  /\ Sound(Captured(e, s)) /\ Captured(e, s).exists = e.exists
           /\ Captured(e, s).listed = e.listed \cup {s}
           /\ Captured(e, s).rcvd = (e.rcvd + 1) % CountMod
<1>1. e.rcvd \in Count /\ e.watch \in Nat
  BY DEF Sound, Entry
<1>2. (e.rcvd + 1) % CountMod \in Count
  BY <1>1, CountMods DEF Count
<1> QED BY <1>1, <1>2 DEF Sound, Captured, Entry

LEMMA PurgedType ==
    ASSUME NEW e, Sound(e)
    PROVE  /\ Sound(Purged(e)) /\ Purged(e).exists = e.exists
           /\ Purged(e).listed = e.listed \ {s \in e.listed : e.left[s] = 0}
           /\ Purged(e).rcvd =
                (e.rcvd - Cardinality({s \in e.listed : e.left[s] = 0})) % CountMod
<1> DEFINE due == {s \in e.listed : e.left[s] = 0}
<1>1. e.rcvd \in Count /\ e.listed \in SUBSET HelloNo
  BY DEF Sound, Entry
<1>2. due \in SUBSET HelloNo
  BY <1>1
<1> HIDE DEF due
<1>3. Cardinality(due) \in Nat
  BY <1>2, ListedIsFinite
<1>4. e.rcvd - Cardinality(due) \in Int
  BY <1>1, <1>3 DEF Count
<1>5. (e.rcvd - Cardinality(due)) % CountMod \in Count
  BY <1>4, CountMods
<1>6. Purged(e) = [e EXCEPT !.listed = e.listed \ due,
                            !.rcvd = (e.rcvd - Cardinality(due)) % CountMod]
  BY DEF Purged, due
<1>7. /\ Sound(Purged(e)) /\ Purged(e).exists = e.exists
      /\ Purged(e).listed = e.listed \ due
      /\ Purged(e).rcvd = (e.rcvd - Cardinality(due)) % CountMod
  BY <1>1, <1>5, <1>6 DEF Sound, Entry
<1> QED BY <1>7 DEF due

-----------------------------------------------------------------------------
TInv == TypeOK /\ Sound(entry) /\ nb_expected > 0

LEMMA InitTInv == Init => TInv
<1> SUFFICES ASSUME Init PROVE TInv
  OBVIOUS
<1>1. /\ entry = NoEntry /\ hello_interval = HELLO_INTERVAL
      /\ tracking_factor = PDR_TRACKING_FACTOR
      /\ nb_expected = Expected(hello_interval, tracking_factor)
      /\ answering = {} /\ air = {} /\ switches = 0
      /\ repeats = 0 /\ streak = 0 /\ steady = TRUE
  BY DEF Init
<1>2. PICK i \in Intervals : peer = [on |-> TRUE, interv |-> i, due |-> 0, seq |-> NotYet]
  BY DEF Init
<1>3. nb_expected \in Nat \ {0}
  BY <1>1, ConstantFacts, ExpectedType
<1>4. peer \in [on : BOOLEAN, interv : Intervals, due : Nat, seq : HelloNo]
  BY <1>2, ConstantFacts
<1> QED BY <1>1, <1>3, <1>4, ConstantFacts, NoEntryType DEF TInv, TypeOK, Sound

(* Every action keeps the types; one step for each. *)
LEMMA NextTInv == TInv /\ [Next]_vars => TInv'
<1> SUFFICES ASSUME TInv, [Next]_vars PROVE TInv'
  OBVIOUS
<1> USE DEF TInv
<1>p. /\ peer \in [on : BOOLEAN, interv : Intervals, due : Nat, seq : HelloNo]
      /\ peer.interv \in Intervals /\ peer.due \in Nat /\ peer.seq \in HelloNo
  BY DEF TypeOK
<1>r. (repeats + 1) % CountMod \in Count
  BY CountMods DEF TypeOK, Count
<1>1. CASE NbHello
  <2>1. (peer.seq + 1) % HelloMod \in HelloNo
    <3>1. peer.seq + 1 \in Int /\ HelloMod \in Nat \ {0}
      BY <1>p, ConstantFacts DEF HelloNo
    <3> QED BY <3>1, DivMod DEF HelloNo
  <2>2. peer' \in [on : BOOLEAN, interv : Intervals, due : Nat, seq : HelloNo]
    BY <1>1, <1>p, <2>1, ConstantFacts DEF NbHello
  <2>3. air' \subseteq Rx /\ streak' \in HelloNo
    BY <1>1, ConstantFacts DEF NbHello, TypeOK, HelloNo
  <2> QED BY <1>1, <2>2, <2>3 DEF NbHello, TypeOK, params
<1>2. ASSUME NEW t \in Rx, CaptureHello(t) PROVE TInv'
  <2>1. Sound(entry')
    BY <1>2, <1>p, RefreshedType, CapturedType, PurgedType DEF CaptureHello, TypeOK
  <2>2. repeats' \in Count
    BY <1>2, <1>r, ConstantFacts DEF CaptureHello, TypeOK
  <2> QED BY <1>2, <2>1, <2>2 DEF CaptureHello, TypeOK, params, Sound
<1>3. ASSUME NEW t \in Rx, GetRcvdHelloCount(t) PROVE TInv'
  <2>1. Sound(entry')
    BY <1>3, PurgedType DEF GetRcvdHelloCount
  <2> QED BY <1>3, <2>1 DEF GetRcvdHelloCount, TypeOK, params, history, Sound
<1>4. ASSUME NEW count \in Answers, CaptureHelloRsp(count) PROVE TInv'
  <2>1. Sound(Refreshed(entry, peer.interv))
    BY <1>p, RefreshedType DEF TypeOK
  <2>2. Sound(entry')
    BY <1>4, <2>1, ConstantFacts DEF CaptureHelloRsp, Sound, Entry
  <2> QED BY <1>4, <2>2, ConstantFacts DEF CaptureHelloRsp, TypeOK, params, Sound
<1>5. CASE Measure
  <2>1. Sound(entry')
    BY <1>5, PurgedType DEF Measure
  <2> QED BY <1>5, <2>1 DEF Measure, TypeOK, params, history, Sound
<1>6. CASE Cleanup
  BY <1>6, NoEntryType, ConstantFacts DEF Cleanup, TypeOK, params, Sound
<1>7. CASE Tick
  <2>1. \A n \in Nat : Less(n) \in Nat
    BY DEF Less
  <2>2. Sound(entry')
    BY <1>7, <2>1 DEF Tick, Sound, Entry
  <2>3. peer' \in [on : BOOLEAN, interv : Intervals, due : Nat, seq : HelloNo]
    BY <1>7, <1>p, <2>1 DEF Tick
  <2> QED BY <1>7, <2>2, <2>3 DEF Tick, TypeOK, params, history, Sound
<1>8. CASE NbStop
  <2>1. peer' \in [on : BOOLEAN, interv : Intervals, due : Nat, seq : HelloNo]
    BY <1>8, <1>p, ConstantFacts DEF NbStop
  <2> QED BY <1>8, <2>1, ConstantFacts DEF NbStop, TypeOK, params
<1>9. ASSUME NEW i \in Intervals, NbStart(i) PROVE TInv'
  <2>1. peer' \in [on : BOOLEAN, interv : Intervals, due : Nat, seq : HelloNo]
    BY <1>9, ConstantFacts DEF NbStart
  <2> QED BY <1>9, <2>1 DEF NbStart, TypeOK, params
<1>10. ASSUME NEW i \in Intervals, NbSetInterval(i) PROVE TInv'
  <2>1. peer' \in [on : BOOLEAN, interv : Intervals, due : Nat, seq : HelloNo]
    BY <1>10, <1>p, ConstantFacts DEF NbSetInterval
  <2>2. steady' \in BOOLEAN
    BY <1>10 DEF NbSetInterval
  <2> QED BY <1>10, <2>1, <2>2, ConstantFacts DEF NbSetInterval, TypeOK, params
<1>11. ASSUME NEW i \in Intervals, NEW f \in Factors, SetParameters(i, f) PROVE TInv'
  <2>1. nb_expected' \in Nat \ {0}
    BY <1>11, ConstantFacts, ExpectedType DEF SetParameters
  <2> QED BY <1>11, <2>1, ConstantFacts DEF SetParameters, TypeOK, history
<1>12. CASE UNCHANGED vars
  BY <1>12 DEF vars, params, history, TypeOK
<1> QED BY <1>1, <1>2, <1>3, <1>4, <1>5, <1>6, <1>7, <1>8, <1>9, <1>10, <1>11, <1>12 DEF Next

(* The entry, the parameters and the history keep their types: in          *)
(* particular the counters stay within 8 bits.                             *)
THEOREM TrackerTypeCorrect == Spec => []TypeOK
<1>1. Spec => []TInv
  BY InitTInv, NextTInv, PTL DEF Spec
<1>2. TInv => TypeOK
  BY DEF TInv
<1> QED BY <1>1, <1>2, PTL

-----------------------------------------------------------------------------
LEMMA InitCount == Init => CountIsListed
BY DEF Init, CountIsListed, NoEntry

(* The count of entry e is that of its list and of n repeats. *)
Counts(e, n) == e.rcvd = (Cardinality(e.listed) + n) % CountMod

(* A purge takes the same number off the list and off the count. *)
LEMMA PurgedCount ==
    ASSUME NEW e, Sound(e), NEW reps \in Nat, Counts(e, reps)
    PROVE  Counts(Purged(e), reps)
<1> DEFINE due  == {s \in e.listed : e.left[s] = 0}
           rest == e.listed \ due
           p    == Purged(e)
<1>1. CountMod \in Nat \ {0}
  BY ConstantFacts
<1>2. e.listed \in SUBSET HelloNo /\ due \in SUBSET HelloNo
  BY DEF Sound, Entry
<1>3. p.listed = rest /\ p.rcvd = (e.rcvd - Cardinality(due)) % CountMod
  BY PurgedType
<1>4. due = e.listed \cap due
  OBVIOUS
<1> HIDE DEF due, p
<1>5. /\ Cardinality(due) \in Nat /\ Cardinality(e.listed) \in Nat
      /\ Cardinality(rest) = Cardinality(e.listed) - Cardinality(due)
  <2>1. /\ IsFiniteSet(e.listed) /\ Cardinality(e.listed) \in Nat
        /\ Cardinality(due) \in Nat
    BY <1>2, ListedIsFinite
  <2>2. Cardinality(e.listed \ due)
          = Cardinality(e.listed) - Cardinality(e.listed \cap due)
    BY <2>1, FS_Difference
  <2> QED BY <1>4, <2>1, <2>2
<1> HIDE DEF rest
<1>6. e.rcvd = (Cardinality(e.listed) + reps) % CountMod
  BY DEF Counts
<1> DEFINE n == Cardinality(e.listed) + reps
           k == 0 - Cardinality(due)
<1>7. n \in Int /\ k \in Int /\ n + k = Cardinality(rest) + reps
  BY <1>5
<1>8. n % CountMod \in Int
  BY <1>1, <1>7, DivMod
<1>9. p.rcvd = ((n % CountMod) + k) % CountMod
  <2>1. e.rcvd - Cardinality(due) = (n % CountMod) + k
    BY <1>5, <1>6, <1>8
  <2> QED BY <1>3, <2>1
<1> HIDE DEF n, k
<1>10. p.rcvd = (n + k) % CountMod
  BY <1>1, <1>7, <1>9, ModPlus
<1>11. p.rcvd = (Cardinality(p.listed) + reps) % CountMod
  BY <1>3, <1>7, <1>10
<1> QED BY <1>11 DEF Counts, p

(* A hello that is captured adds one to the list or to the repeats. *)
LEMMA CaptureCount ==
    ASSUME TInv, CountIsListed, NEW t \in Rx, CaptureHello(t)
    PROVE  CountIsListed'
<1> DEFINE listed == IF entry.exists THEN entry.listed ELSE {}
           old    == IF entry.exists THEN repeats ELSE 0
           rcvd   == IF entry.exists THEN entry.rcvd ELSE 0
           c      == Captured(Refreshed(entry, peer.interv), peer.seq)
<1>1. /\ Sound(entry) /\ tracking_factor \in Factors
      /\ peer.interv \in Intervals /\ peer.seq \in HelloNo
      /\ repeats \in Count
  BY DEF TInv, TypeOK
<1>2. /\ c.listed = listed \cup {peer.seq}
      /\ c.rcvd = (rcvd + 1) % CountMod
      /\ Sound(c)
  BY <1>1, RefreshedType, CapturedType
<1>e. entry' = Purged(c) /\ repeats' \in Nat
  BY <1>1, CountMods DEF CaptureHello, Count
<1>3. listed \in SUBSET HelloNo
  BY <1>1 DEF Sound, Entry
<1>4. /\ IsFiniteSet(listed) /\ Cardinality(listed) \in Nat
      /\ Cardinality(c.listed) = IF peer.seq \in listed THEN Cardinality(listed)
                                      ELSE Cardinality(listed) + 1
  BY <1>2, <1>3, ListedIsFinite, FS_AddElement
<1>5. rcvd = (Cardinality(listed) + old) % CountMod
  <2>1. CASE entry.exists
    BY <2>1 DEF CountIsListed
  <2>2. CASE ~entry.exists
    <3>1. Cardinality(listed) + old = 0
      BY <2>2, FS_EmptySet
    <3> QED BY <2>2, <3>1, ConstantFacts, ModSmall DEF Count
  <2> QED BY <2>1, <2>2
<1>6. repeats' = IF peer.seq \in listed THEN (old + 1) % CountMod ELSE old
  BY DEF CaptureHello
<1>7. old \in Nat /\ CountMod \in Nat \ {0}
  BY <1>1, ConstantFacts DEF Count
<1> HIDE DEF listed, old, rcvd, c
<1>8. c.rcvd = (Cardinality(listed) + old + 1) % CountMod
  <2>1. Cardinality(listed) + old \in Int
    BY <1>4, <1>7
  <2> QED BY <1>2, <1>5, <1>7, <2>1, ModPlus
<1>9. ASSUME peer.seq \in listed PROVE Counts(c, repeats')
  <2> DEFINE n == old + 1
             l == Cardinality(listed)
  <2>1. n \in Int /\ l \in Int /\ n % CountMod \in Int
    BY <1>4, <1>7, DivMod
  <2>2. n + l = Cardinality(listed) + old + 1
    BY <1>4, <1>7
  <2>3. c.rcvd = (n + l) % CountMod
    BY <1>8, <2>2
  <2>4. Cardinality(c.listed) = l /\ repeats' = n % CountMod
    BY <1>4, <1>6, <1>9
  <2> HIDE DEF n, l
  <2>5. ((n % CountMod) + l) % CountMod = (n + l) % CountMod
    BY <1>7, <2>1, ModPlus
  <2>6. (n % CountMod) + l = l + (n % CountMod)
    BY <2>1
  <2> QED BY <2>3, <2>4, <2>5, <2>6 DEF Counts
<1>10. ASSUME peer.seq \notin listed PROVE Counts(c, repeats')
  <2>1. Cardinality(listed) + old + 1 = Cardinality(listed) + 1 + old
    BY <1>4, <1>7
  <2> QED BY <1>4, <1>6, <1>8, <1>10, <2>1 DEF Counts
<1>11. Counts(Purged(c), repeats')
  BY <1>2, <1>e, <1>9, <1>10, PurgedCount
<1> QED BY <1>e, <1>11 DEF CountIsListed, Counts

(* A purge of the entry leaves the repeats. *)
LEMMA PurgeCount ==
    ASSUME TInv, CountIsListed, entry.exists,
           entry' = Purged(entry), repeats' = repeats
    PROVE  CountIsListed'
<1>1. Sound(entry) /\ repeats \in Nat /\ Counts(entry, repeats)
  BY DEF TInv, TypeOK, Count, CountIsListed, Counts
<1> QED BY <1>1, PurgedCount DEF CountIsListed, Counts

LEMMA NextCount == TInv /\ CountIsListed /\ [Next]_vars => CountIsListed'
<1> SUFFICES ASSUME TInv, CountIsListed, [Next]_vars PROVE CountIsListed'
  OBVIOUS
<1>1. ASSUME NEW t \in Rx, CaptureHello(t) PROVE CountIsListed'
  BY <1>1, CaptureCount
<1>2. ASSUME NEW t \in Rx, GetRcvdHelloCount(t) PROVE CountIsListed'
  <2>1. CASE entry.exists
    BY <1>2, <2>1, PurgeCount DEF GetRcvdHelloCount, history
  <2>2. CASE ~entry.exists
    BY <1>2, <2>2 DEF GetRcvdHelloCount, CountIsListed
  <2> QED BY <2>1, <2>2
<1>3. ASSUME NEW count \in Answers, CaptureHelloRsp(count) PROVE CountIsListed'
  <2>1. /\ Sound(entry) /\ tracking_factor \in Factors /\ peer.interv \in Intervals
        /\ repeats \in Count
    BY DEF TInv, TypeOK
  <2> DEFINE r == Refreshed(entry, peer.interv)
  <2>2. /\ r \in Entry
        /\ r.listed = IF entry.exists THEN entry.listed ELSE {}
        /\ r.rcvd = IF entry.exists THEN entry.rcvd ELSE 0
    BY <2>1, RefreshedType DEF Sound
  <2>3. entry' = [r EXCEPT !.nb_rcvd = count]
    BY <1>3 DEF CaptureHelloRsp
  <2> HIDE DEF r
  <2>4. entry'.listed = r.listed /\ entry'.rcvd = r.rcvd
    BY <2>2, <2>3 DEF Entry
  <2>5. CASE entry.exists
    BY <1>3, <2>2, <2>4, <2>5 DEF CaptureHelloRsp, CountIsListed
  <2>6. CASE ~entry.exists
    <3>1. Cardinality({}) + 0 = 0
      BY FS_EmptySet
    <3>2. 0 % CountMod = 0
      BY ConstantFacts, ModSmall DEF Count
    <3> QED BY <1>3, <2>2, <2>4, <2>6, <3>1, <3>2 DEF CaptureHelloRsp, CountIsListed
  <2> QED BY <2>5, <2>6
<1>4. CASE Measure
  BY <1>4, PurgeCount DEF Measure, history
<1>5. CASE Cleanup
  BY <1>5 DEF Cleanup, CountIsListed, NoEntry
<1>6. CASE Tick
  <2>1. entry \in Entry
    BY DEF TInv, TypeOK
  <2>2. /\ entry'.exists = entry.exists /\ entry'.listed = entry.listed
        /\ entry'.rcvd = entry.rcvd
    BY <1>6, <2>1 DEF Tick, Entry
  <2> QED BY <1>6, <2>2 DEF Tick, history, CountIsListed
<1>7. CASE \/ NbHello \/ NbStop \/ UNCHANGED vars
           \/ \E i \in Intervals : NbStart(i) \/ NbSetInterval(i)
           \/ \E i \in Intervals, f \in Factors : SetParameters(i, f)
  BY <1>7 DEF NbHello, NbStop, NbStart, NbSetInterval, SetParameters, vars, params, history,
              CountIsListed
<1> QED BY <1>1, <1>2, <1>3, <1>4, <1>5, <1>6, <1>7 DEF Next

(* The count of an entry is at any time the number of hellos that it lists *)
(* and of the repeats that no purge has taken off.                         *)
THEOREM CountsAreListed == Spec => []CountIsListed
<1>1. Init => TInv /\ CountIsListed
  BY InitTInv, InitCount
<1>2. TInv /\ CountIsListed /\ [Next]_vars => (TInv /\ CountIsListed)'
  BY NextTInv, NextCount
<1> QED BY <1>1, <1>2, PTL DEF Spec

-----------------------------------------------------------------------------
(* Division of naturals and order. *)
LEMMA DivBelow ==
    ASSUME NEW a \in Nat, NEW m \in Nat \ {0}, NEW b \in Nat, a < m * (b + 1)
    PROVE  a \div m \in 0..b
<1> DEFINE q == a \div m
<1>1. a % m \in 0..(m - 1) /\ q \in Int /\ a = m * q + (a % m)
  BY DivMod
<1> HIDE DEF q
<1>2. ASSUME q >= b + 1 PROVE FALSE
  <2>1. m * q >= m * (b + 1)
    BY <1>1, <1>2
  <2> QED BY <1>1, <2>1
<1>3. ASSUME q <= -1 PROVE FALSE
  <2>1. m * q <= -m
    BY <1>1, <1>3
  <2> QED BY <1>1, <2>1
<1> QED BY <1>1, <1>2, <1>3 DEF q

LEMMA DivAbove ==
    ASSUME NEW a \in Nat, NEW m \in Nat \ {0}, NEW b \in Nat, a >= m * b
    PROVE  a \div m \in Nat /\ a \div m >= b
<1> DEFINE q == a \div m
<1>1. a % m \in 0..(m - 1) /\ q \in Int /\ a = m * q + (a % m)
  BY DivMod
<1> HIDE DEF q
<1>2. ASSUME q <= b - 1 PROVE FALSE
  <2>1. m * q <= m * (b - 1)
    BY <1>1, <1>2
  <2>2. m * (b - 1) = m * b - m
    OBVIOUS
  <2> QED BY <1>1, <2>1, <2>2
<1> QED BY <1>1, <1>2 DEF q

LEMMA TimesGrows ==
    ASSUME NEW a \in Nat, NEW b \in Nat, a <= b, NEW c \in Nat
    PROVE  a * c \in Nat /\ b * c \in Nat /\ a * c <= b * c
OBVIOUS

LEMMA PositiveTimes ==
    ASSUME NEW a \in Nat \ {0}, NEW b \in Nat \ {0}
    PROVE  a * b \in Nat \ {0}
OBVIOUS

(* The counts that the metrics divide by are positive. *)
LEMMA CountTypes ==
    ASSUME TInv, entry.exists
    PROVE  /\ entry.expected \in Nat \ {0} /\ nb_expected \in Nat \ {0}
           /\ entry.rcvd \in Nat /\ entry.nb_rcvd \in Nat
           /\ entry.expected * nb_expected \in Nat \ {0}
<1>1. /\ entry.expected \in Nat \ {0} /\ nb_expected \in Nat \ {0}
      /\ entry.rcvd \in Nat /\ entry.nb_rcvd \in Nat
  BY DEF TInv, TypeOK, Sound, Entry, Count
<1> QED BY <1>1, PositiveTimes

LEMMA RateTypes ==
    ASSUME TInv, entry.exists
    PROVE  /\ Clamped(entry.rcvd, entry.expected) \in 0..entry.expected
           /\ Clamped(entry.nb_rcvd, nb_expected) \in 0..nb_expected
           /\ entry.rcvd > 0 => Clamped(entry.rcvd, entry.expected) > 0
           /\ entry.nb_rcvd > 0 => Clamped(entry.nb_rcvd, nb_expected) > 0
<1>1. \A a, b \in Nat : /\ Clamped(a, b) \in 0..b
                        /\ a > 0 /\ b > 0 => Clamped(a, b) > 0
  BY DEF Clamped
<1>2. /\ entry.expected \in Nat /\ entry.expected > 0 /\ nb_expected \in Nat /\ nb_expected > 0
      /\ entry.rcvd \in Nat /\ entry.nb_rcvd \in Nat
  BY CountTypes
<1> QED BY <1>1, <1>2

LEMMA PdrType ==
    ASSUME TInv, entry.exists
    PROVE  Pdr(entry) \in 0..MaxMetric
<1> DEFINE e == entry.expected
           r == entry.rcvd
<1>1. e \in Nat \ {0} /\ r \in Nat /\ MaxMetric \in Nat
  BY CountTypes, ConstantFacts
<1>2. Pdr(entry) = IF r >= e THEN MaxMetric ELSE (MaxMetric * r) \div e
  BY DEF Pdr
<1> HIDE DEF e, r
<1>3. CASE r >= e
  BY <1>1, <1>2, <1>3
<1>4. CASE r < e
  <2>1. MaxMetric * r \in Nat
    BY <1>1
  <2>2. MaxMetric * r < e * (MaxMetric + 1)
    <3>1. r * MaxMetric <= e * MaxMetric
      BY <1>1, <1>4, TimesGrows
    <3>2. e * (MaxMetric + 1) = e * MaxMetric + e
      BY <1>1
    <3> QED BY <1>1, <3>1, <3>2
  <2>3. (MaxMetric * r) \div e \in 0..MaxMetric
    BY <1>1, <2>1, <2>2, DivBelow
  <2> QED BY <1>1, <1>2, <1>4, <2>3
<1> QED BY <1>1, <1>3, <1>4

(* Losses at the neighbour make the round trip no better than the way here. *)
LEMMA EtxMulBelowPdr ==
    ASSUME TInv, entry.exists
    PROVE  EtxMul(entry) <= Pdr(entry)
<1> DEFINE e  == entry.expected
           r  == Clamped(entry.rcvd, entry.expected)
           n  == Clamped(entry.nb_rcvd, nb_expected)
           q  == Pdr(entry)
<1>1. /\ e \in Nat \ {0} /\ nb_expected \in Nat \ {0} /\ e * nb_expected \in Nat \ {0}
      /\ r \in Nat /\ n \in Nat /\ n <= nb_expected /\ MaxMetric \in Nat /\ q \in Nat
  <2>1. q \in 0..MaxMetric /\ MaxMetric \in Nat
    BY PdrType, ConstantFacts
  <2>2. r \in 0..e /\ n \in 0..nb_expected
    BY RateTypes
  <2>3. /\ e \in Nat \ {0} /\ nb_expected \in Nat \ {0}
        /\ e * nb_expected \in Nat \ {0}
    BY CountTypes
  <2> HIDE DEF e, r, n, q
  <2> QED BY <2>1, <2>2, <2>3
<1>2. MaxMetric * r < e * (q + 1)
  <2>1. CASE entry.rcvd >= e
    <3>1. r = e /\ q = MaxMetric
      BY <2>1, <1>1, CountTypes DEF Clamped, Pdr
    <3> HIDE DEF e, r, q
    <3>2. e * (q + 1) = MaxMetric * r + e
      BY <1>1, <3>1
    <3>3. MaxMetric * r \in Nat
      BY <1>1
    <3> QED BY <1>1, <3>2, <3>3
  <2>2. CASE entry.rcvd < e
    <3>1. r = entry.rcvd /\ q = (MaxMetric * r) \div e
      BY <2>2, <1>1, CountTypes DEF Clamped, Pdr
    <3> HIDE DEF e, r, q
    <3>2. MaxMetric * r \in Int
      BY <1>1
    <3>3. (MaxMetric * r) % e \in 0..(e - 1) /\ MaxMetric * r = e * q + ((MaxMetric * r) % e)
      BY <1>1, <3>1, <3>2, DivMod
    <3>4. e * (q + 1) = e * q + e
      BY <1>1
    <3> QED BY <1>1, <3>3, <3>4
  <2> QED BY <1>1, <2>1, <2>2, CountTypes
<1>3. EtxMul(entry) = (MaxMetric * r * n) \div (e * nb_expected)
  BY DEF EtxMul
<1> HIDE DEF e, r, n, q
<1>4. MaxMetric * r \in Nat /\ e * (q + 1) \in Nat
  BY <1>1
<1>5. MaxMetric * r * n \in Nat /\ MaxMetric * r * n <= MaxMetric * r * nb_expected
  <2> DEFINE p == MaxMetric * r
  <2> HIDE DEF p
  <2>1. n * p \in Nat /\ n * p <= nb_expected * p
    BY <1>1, <1>4, TimesGrows DEF p
  <2>2. p * n = n * p /\ p * nb_expected = nb_expected * p
    BY <1>1, <1>4 DEF p
  <2> QED BY <2>1, <2>2 DEF p
<1>6. MaxMetric * r * nb_expected < (e * (q + 1)) * nb_expected
  <2> DEFINE p == MaxMetric * r
             s == e * (q + 1)
  <2> HIDE DEF p, s
  <2>1. (p + 1) * nb_expected <= s * nb_expected
    BY <1>1, <1>2, <1>4, TimesGrows DEF p, s
  <2>2. (p + 1) * nb_expected = p * nb_expected + nb_expected
    BY <1>1, <1>4 DEF p
  <2>3. p * nb_expected \in Nat /\ s * nb_expected \in Nat
    BY <1>1, <1>4 DEF p, s
  <2> QED BY <1>1, <2>1, <2>2, <2>3 DEF p, s
<1>7. (e * (q + 1)) * nb_expected = (e * nb_expected) * (q + 1)
  BY <1>1
<1>8. MaxMetric * r * nb_expected \in Nat /\ (e * nb_expected) * (q + 1) \in Nat
  BY <1>1, <1>4
<1>9. MaxMetric * r * n < (e * nb_expected) * (q + 1)
  BY <1>5, <1>6, <1>7, <1>8
<1>10. EtxMul(entry) \in 0..q
  BY <1>1, <1>3, <1>5, <1>9, DivBelow
<1> QED BY <1>1, <1>10 DEF q

(* ETX_ADD gives metrics, and at least one transmission of a known link. *)
LEMMA EtxAddType ==
    ASSUME TInv, entry.exists, NEW etx \in EtxAdd(entry)
    PROVE  /\ etx \in 0..MaxMetric
           /\ entry.rcvd > 0 /\ entry.nb_rcvd > 0 => etx >= Clamped(EtxOne, MaxMetric)
<1> DEFINE e == entry.expected
           r == Clamped(entry.rcvd, entry.expected)
           n == Clamped(entry.nb_rcvd, nb_expected)
           x == (EtxOne * e * nb_expected) \div (r * n)
<1>1. /\ e \in Nat \ {0} /\ nb_expected \in Nat \ {0} /\ e * nb_expected \in Nat
      /\ r \in Nat /\ r <= e /\ n \in Nat /\ n <= nb_expected
      /\ MaxMetric \in Nat /\ EtxOne \in Nat
      /\ entry.rcvd > 0 => r > 0
      /\ entry.nb_rcvd > 0 => n > 0
  <2>1. MaxMetric \in Nat /\ EtxOne \in Nat
    BY ConstantFacts
  <2>2. /\ r \in 0..e /\ n \in 0..nb_expected
        /\ entry.rcvd > 0 => r > 0
        /\ entry.nb_rcvd > 0 => n > 0
    BY RateTypes
  <2>3. /\ e \in Nat \ {0} /\ nb_expected \in Nat \ {0}
        /\ e * nb_expected \in Nat \ {0}
    BY CountTypes
  <2> HIDE DEF e, r, n
  <2> QED BY <2>1, <2>2, <2>3
<1>2. EtxAdd(entry) = IF r * n = 0 THEN Metric ELSE {Clamped(x, MaxMetric)}
  BY DEF EtxAdd
<1> HIDE DEF e, r, n
<1>3. CASE r * n = 0
  <2>1. r = 0 \/ n = 0
    BY <1>1, <1>3
  <2> QED BY <1>1, <1>2, <1>3, <2>1 DEF Metric
<1>4. CASE r * n # 0
  <2>1. r * n \in Nat \ {0} /\ EtxOne * e * nb_expected \in Nat
    BY <1>1, <1>4
  <2>2. r * n <= e * nb_expected
    <3>1. r * n <= e * n /\ r * n \in Nat /\ e * n \in Nat
      BY <1>1, TimesGrows
    <3>2. n * e <= nb_expected * e /\ n * e \in Nat /\ nb_expected * e \in Nat
      BY <1>1, TimesGrows
    <3>3. n * e = e * n /\ nb_expected * e = e * nb_expected
      BY <1>1
    <3> QED BY <3>1, <3>2, <3>3
  <2>3. EtxOne * e * nb_expected >= (r * n) * EtxOne
    <3>1. (r * n) * EtxOne <= (e * nb_expected) * EtxOne
      BY <1>1, <2>1, <2>2, TimesGrows
    <3>2. (e * nb_expected) * EtxOne = EtxOne * e * nb_expected
      BY <1>1
    <3> QED BY <3>1, <3>2
  <2>4. x \in Nat /\ x >= EtxOne
    BY <1>1, <2>1, <2>3, DivAbove
  <2>5. etx = Clamped(x, MaxMetric)
    BY <1>2, <1>4
  <2> HIDE DEF x
  <2> QED BY <1>1, <2>4, <2>5 DEF Clamped
<1> QED BY <1>3, <1>4

(* The rates of any entry are rates: the round trip is no better than one  *)
(* way, and a link that is known needs at least one transmission.          *)
THEOREM RatesStayBounded == Spec => []RatesAreBounded
<1>1. TInv => RatesAreBounded
  <2> SUFFICES ASSUME TInv, entry.exists PROVE RatesAreBounded
    BY DEF RatesAreBounded
  <2>1. Pdr(entry) <= MaxMetric
    BY PdrType, ConstantFacts
  <2>2. \A etx \in EtxAdd(entry) :
          entry.rcvd > 0 /\ entry.nb_rcvd > 0 => etx >= Clamped(EtxOne, MaxMetric)
    BY EtxAddType
  <2> QED BY <2>1, <2>2, EtxMulBelowPdr DEF RatesAreBounded
<1>2. Spec => []TInv
  BY InitTInv, NextTInv, PTL DEF Spec
<1> QED BY <1>1, <1>2, PTL

(* No link makes a path better, for PDR and for ETX_ADD, whatever the      *)
(* metric of the path so far.                                              *)
THEOREM PathsNeverImprove == Spec => []PathNeverImproves
<1>1. TInv => PathNeverImproves
  <2> SUFFICES ASSUME TInv, entry.exists, NEW m \in Metric
               PROVE  /\ LongerPdr(m, Pdr(entry)) <= m
                      /\ \A etx \in EtxAdd(entry) : LongerEtxAdd(m, etx) \in m..MaxMetric
    BY DEF PathNeverImproves
  <2>1. m \in Nat /\ m <= MaxMetric /\ MaxMetric \in Nat \ {0}
    BY ConstantFacts DEF Metric
  <2>2. LongerPdr(m, Pdr(entry)) <= m
    <3> DEFINE p == Pdr(entry)
    <3>1. p \in Nat /\ p <= MaxMetric
      BY PdrType, <2>1
    <3>2. LongerPdr(m, p) = (m * p) \div MaxMetric
      BY DEF LongerPdr
    <3> HIDE DEF p
    <3>3. m * p \in Nat
      BY <2>1, <3>1
    <3>4. m * p < MaxMetric * (m + 1)
      <4>1. p * m <= MaxMetric * m /\ MaxMetric * m \in Nat
        BY <2>1, <3>1, TimesGrows
      <4>2. MaxMetric * (m + 1) = MaxMetric * m + MaxMetric
        BY <2>1
      <4>3. p * m = m * p
        BY <2>1, <3>1
      <4> QED BY <2>1, <3>3, <4>1, <4>2, <4>3
    <3>5. LongerPdr(m, p) \in 0..m
      BY <2>1, <3>2, <3>3, <3>4, DivBelow
    <3> QED BY <2>1, <3>5 DEF p
  <2>3. ASSUME NEW etx \in EtxAdd(entry) PROVE LongerEtxAdd(m, etx) \in m..MaxMetric
    <3>1. etx \in 0..MaxMetric
      BY EtxAddType
    <3> QED BY <2>1, <3>1 DEF LongerEtxAdd
  <2> QED BY <2>2, <2>3
<1>2. Spec => []TInv
  BY InitTInv, NextTInv, PTL DEF Spec
<1> QED BY <1>1, <1>2, PTL

-----------------------------------------------------------------------------
(* The window of a link without losses.  Heard(i) is the number of the     *)
(* hello before the last i ones, which was sent Since(i) ticks ago; it is  *)
(* kept when it is listed for the rest of its time in the window, unless   *)
(* it has left the window, or is the last one and on its way to a thread.  *)
Heard(i) == (peer.seq - i) % HelloMod
Since(i) == i * entry.interv + entry.interv - peer.due

Kept(i) ==
    \/ i = 0 /\ air # {}
    \/ Since(i) >= entry.watch
    \/ Heard(i) \in entry.listed /\ entry.left[Heard(i)] + Since(i) >= entry.watch

(* Who hears a hello does so in the tick in which it is sent, and nothing  *)
(* has been heard in a row from a neighbour that is gone or not known.     *)
InTime ==
    /\ peer.due <= peer.interv
    /\ air # {} => peer.on /\ peer.due = peer.interv
    /\ ~peer.on => streak = 0
    /\ ~entry.exists => streak = 0 \/ (streak = 1 /\ air # {})

(* While the neighbour keeps its interval, the hellos that are expected    *)
(* fit into the window, and each of those heard in a row is kept.          *)
InWindow ==
    entry.exists /\ steady =>
        /\ entry.expected * entry.interv <= entry.watch
        /\ peer.on => entry.interv = peer.interv
        /\ \A i \in 0..(streak - 1) : Kept(i)

WindowInv == TInv /\ InTime /\ InWindow

(* As many hellos as are expected fit into the window. *)
LEMMA ExpectedFits ==
    ASSUME NEW i \in Nat \ {0}, NEW f \in Nat \ {0}
    PROVE  Expected(i, f) * i <= Watch(i, f)
<1>1. MinTracking \in Nat
  BY ConstantFacts
<1>2. i * f \in Nat /\ f * i = i * f
  OBVIOUS
<1>3. (MinTracking \div i) * i <= MinTracking
  <2> DEFINE q == MinTracking \div i
             r == MinTracking % i
  <2>1. q \in Int /\ r \in 0..(i - 1) /\ MinTracking = i * q + r
    BY <1>1, DivMod
  <2> HIDE DEF q, r
  <2>2. q * i = i * q /\ i * q \in Int
    BY <2>1
  <2>3. q * i <= MinTracking
    BY <1>1, <2>1, <2>2
  <2> QED BY <2>3 DEF q
<1> QED BY <1>2, <1>3 DEF Expected, Watch

(* The refresh of an entry whose interval is the neighbour's leaves its    *)
(* window alone; a new entry gets the one of the interval.                 *)
LEMMA RefreshedWindow ==
    ASSUME NEW e, Sound(e), NEW i \in Intervals, tracking_factor \in Factors
    PROVE  /\ e.exists /\ e.interv = i =>
                /\ Refreshed(e, i).interv = i
                /\ Refreshed(e, i).watch = e.watch
                /\ Refreshed(e, i).expected = e.expected
                /\ Refreshed(e, i).left = e.left
           /\ ~e.exists =>
                /\ Refreshed(e, i).interv = i
                /\ Refreshed(e, i).expected * i <= Refreshed(e, i).watch
<1>1. i \in Nat \ {0} /\ tracking_factor \in Nat \ {0}
  BY ConstantFacts
<1>2. CASE e.exists /\ e.interv = i
  <2>1. Refreshed(e, i) = [e EXCEPT !.gone = e.purge]
    BY <1>2 DEF Refreshed
  <2> QED BY <1>2, <2>1 DEF Sound, Entry
<1>3. CASE ~e.exists
  <2> DEFINE c == [NoEntry EXCEPT !.exists = TRUE, !.watch = Watch(i, tracking_factor)]
             u == [c EXCEPT !.interv = i, !.expected = Expected(i, tracking_factor),
                            !.purge = Purge(i, tracking_factor)]
  <2>1. c.interv # i
    BY <1>1 DEF NoEntry
  <2>2. Refreshed(e, i) = [u EXCEPT !.gone = u.purge]
    BY <1>3, <2>1 DEF Refreshed
  <2>3. /\ u.interv = i /\ u.watch = Watch(i, tracking_factor)
        /\ u.expected = Expected(i, tracking_factor)
        /\ [u EXCEPT !.gone = u.purge].interv = u.interv
        /\ [u EXCEPT !.gone = u.purge].watch = u.watch
        /\ [u EXCEPT !.gone = u.purge].expected = u.expected
    BY DEF NoEntry
  <2>4. Expected(i, tracking_factor) * i <= Watch(i, tracking_factor)
    BY <1>1, ExpectedFits
  <2> HIDE DEF u
  <2> QED BY <1>3, <2>2, <2>3, <2>4
<1> QED BY <1>2, <1>3

LEMMA WindowTypes ==
    ASSUME TInv
    PROVE  /\ entry.interv \in Nat /\ entry.watch \in Nat /\ entry.expected \in Nat
           /\ entry.listed \in SUBSET HelloNo /\ entry.exists \in BOOLEAN
           /\ entry.left \in [HelloNo -> Nat] /\ \A s \in HelloNo : entry.left[s] \in Nat
           /\ peer \in [on : BOOLEAN, interv : Intervals, due : Nat, seq : HelloNo]
           /\ peer.due \in Nat /\ peer.interv \in Nat \ {0} /\ peer.interv \in Intervals
           /\ peer.seq \in HelloNo /\ peer.seq \in Int /\ peer.on \in BOOLEAN
           /\ streak \in Nat /\ streak \in HelloNo /\ HelloMod \in Nat \ {0}
           /\ steady \in BOOLEAN
           /\ \A i \in Nat : Heard(i) \in HelloNo /\ Since(i) \in Int
<1>1. /\ entry \in Entry
      /\ peer \in [on : BOOLEAN, interv : Intervals, due : Nat, seq : HelloNo]
      /\ streak \in HelloNo /\ steady \in BOOLEAN /\ HelloMod \in Nat \ {0}
      /\ Intervals \subseteq Nat \ {0}
  BY ConstantFacts DEF TInv, TypeOK
<1>2. /\ entry.interv \in Nat /\ entry.watch \in Nat /\ entry.expected \in Nat
      /\ entry.listed \in SUBSET HelloNo /\ entry.exists \in BOOLEAN
      /\ entry.left \in [HelloNo -> Nat] /\ \A s \in HelloNo : entry.left[s] \in Nat
  BY <1>1 DEF Entry
<1>3. /\ peer.due \in Nat /\ peer.interv \in Nat \ {0} /\ peer.interv \in Intervals
      /\ peer.seq \in HelloNo /\ peer.on \in BOOLEAN
  BY <1>1
<1>4. peer.seq \in Int /\ streak \in Nat
  BY <1>1, <1>3 DEF HelloNo
<1>5. ASSUME NEW i \in Nat PROVE Heard(i) \in HelloNo /\ Since(i) \in Int
  <2>1. peer.seq - i \in Int
    BY <1>4
  <2>2. Heard(i) \in 0..(HelloMod - 1)
    BY <1>1, <2>1, DivMod DEF Heard
  <2>3. i * entry.interv \in Int /\ entry.interv \in Int /\ peer.due \in Int
    BY <1>2, <1>3
  <2>4. Since(i) \in Int
    BY <2>3 DEF Since
  <2> QED BY <2>2, <2>4 DEF HelloNo
<1> QED BY <1>1, <1>2, <1>3, <1>4, <1>5

LEMMA HeardLast ==
    ASSUME TInv
    PROVE  Heard(0) = peer.seq
<1>1. peer.seq \in 0..(HelloMod - 1) /\ HelloMod \in Nat \ {0} /\ peer.seq - 0 = peer.seq
  BY WindowTypes DEF HelloNo
<1> QED BY <1>1, ModSmall DEF Heard

(* What a step keeps that leaves the window alone and takes no hello off   *)
(* the list before its time.                                               *)
LEMMA SameWindow ==
    ASSUME WindowInv, UNCHANGED <<peer, air, streak, steady>>, entry.exists,
           entry'.interv = entry.interv, entry'.watch = entry.watch,
           entry'.expected = entry.expected,
           \A s \in HelloNo : s \in entry.listed /\ entry.left[s] > 0 =>
                               s \in entry'.listed /\ entry'.left[s] = entry.left[s]
    PROVE  InWindow'
<1> SUFFICES ASSUME steady PROVE InWindow'
  BY DEF InWindow
<1>1. /\ entry.expected * entry.interv <= entry.watch
      /\ peer.on => entry.interv = peer.interv
      /\ \A i \in 0..(streak - 1) : Kept(i)
  BY DEF WindowInv, InWindow
<1>2. ASSUME NEW i \in 0..(streak - 1) PROVE Kept(i)'
  <2>1. /\ i \in Nat /\ Heard(i) \in HelloNo /\ Since(i) \in Int /\ entry.watch \in Nat
        /\ entry.left[Heard(i)] \in Nat
    BY WindowTypes DEF WindowInv
  <2>2. Heard(i)' = Heard(i) /\ Since(i)' = Since(i)
    BY DEF Heard, Since
  <2>3. Kept(i)
    BY <1>1
  <2>4. CASE i = 0 /\ air # {}
    BY <2>4 DEF Kept
  <2>5. CASE Since(i) >= entry.watch
    BY <2>2, <2>5 DEF Kept
  <2>6. CASE /\ Heard(i) \in entry.listed /\ entry.left[Heard(i)] + Since(i) >= entry.watch
             /\ Since(i) < entry.watch
    <3>1. entry.left[Heard(i)] > 0
      BY <2>1, <2>6
    <3>2. Heard(i) \in entry'.listed /\ entry'.left[Heard(i)] = entry.left[Heard(i)]
      BY <2>1, <2>6, <3>1
    <3> QED BY <2>2, <2>6, <3>2 DEF Kept
  <2> QED BY <2>1, <2>3, <2>4, <2>5, <2>6 DEF Kept
<1> QED BY <1>1, <1>2 DEF InWindow

LEMMA PurgeWindow ==
    ASSUME WindowInv, UNCHANGED <<peer, air, streak, steady>>, entry.exists,
           entry' = Purged(entry)
    PROVE  InWindow'
<1>1. Sound(entry)
  BY DEF WindowInv, TInv
<1>2. /\ entry'.interv = entry.interv /\ entry'.watch = entry.watch
      /\ entry'.expected = entry.expected /\ entry'.left = entry.left
  BY <1>1 DEF Purged, Sound, Entry
<1>3. entry'.listed = entry.listed \ {s \in entry.listed : entry.left[s] = 0}
  BY <1>1, PurgedType
<1> QED BY <1>2, <1>3, SameWindow

(* The hello that is captured is listed for the whole window. *)
LEMMA CaptureWindow ==
    ASSUME WindowInv, NEW t \in Rx, CaptureHello(t)
    PROVE  InWindow'
<1> DEFINE e == Refreshed(entry, peer.interv)
           c == Captured(e, peer.seq)
<1>1. /\ Sound(entry) /\ tracking_factor \in Factors /\ peer.interv \in Intervals
      /\ peer.seq \in HelloNo /\ peer.interv \in Nat /\ peer.due \in Nat
      /\ streak \in Nat /\ steady \in BOOLEAN
  BY WindowTypes DEF WindowInv, TInv, TypeOK
<1>2. /\ peer' = peer /\ streak' = streak /\ steady' = (steady \/ ~entry.exists)
      /\ entry' = Purged(c) /\ air # {}
  BY DEF CaptureHello
<1>3. /\ Sound(e) /\ e.listed = IF entry.exists THEN entry.listed ELSE {}
  BY <1>1, RefreshedType
<1>4. /\ entry'.interv = e.interv /\ entry'.watch = e.watch /\ entry'.expected = e.expected
      /\ entry'.listed = {s \in e.listed \cup {peer.seq} : entry'.left[s] > 0}
      /\ entry'.left = [e.left EXCEPT ![peer.seq] = e.watch]
      /\ e.left \in [HelloNo -> Nat] /\ e.watch \in Nat
  <2> HIDE DEF e
  <2>1. /\ c.interv = e.interv /\ c.watch = e.watch /\ c.expected = e.expected
        /\ c.listed = e.listed \cup {peer.seq}
        /\ c.left = [e.left EXCEPT ![peer.seq] = e.watch]
        /\ e.left \in [HelloNo -> Nat] /\ e.watch \in Nat
        /\ Sound(c)
    BY <1>1, <1>3, CapturedType DEF Captured, Sound, Entry
  <2> HIDE DEF c
  <2>2. /\ entry'.interv = c.interv /\ entry'.watch = c.watch
        /\ entry'.expected = c.expected /\ entry'.left = c.left
    BY <1>2, <2>1 DEF Purged, Sound, Entry
  <2>3. entry'.listed = c.listed \ {s \in c.listed : c.left[s] = 0}
    BY <1>2, <2>1, PurgedType
  <2>4. c.listed \subseteq HelloNo /\ \A s \in c.listed : c.left[s] \in Nat
    BY <2>1 DEF Sound, Entry
  <2>5. entry'.listed = {s \in c.listed : c.left[s] > 0}
    BY <2>3, <2>4
  <2> QED BY <2>1, <2>2, <2>5
<1>5. peer.on /\ peer.due = peer.interv
  BY <1>2 DEF WindowInv, InTime
<1>6. /\ entry.exists /\ entry.interv = peer.interv =>
           e.interv = entry.interv /\ e.watch = entry.watch /\ e.expected = entry.expected
           /\ e.left = entry.left
      /\ ~entry.exists => e.interv = peer.interv /\ e.expected * peer.interv <= e.watch
  BY <1>1, RefreshedWindow
<1> HIDE DEF e, c
<1>7. ASSUME e.interv = peer.interv, NEW i \in Nat, Heard(i) = peer.seq PROVE Kept(i)'
  <2>1. Heard(i)' = peer.seq
    BY <1>2, <1>7 DEF Heard
  <2>2. Since(i)' = i * peer.interv + peer.interv - peer.due
    BY <1>2, <1>4, <1>7 DEF Since
  <2>3. i * peer.interv \in Nat
    BY <1>1
  <2>4. Since(i)' \in Nat
    BY <1>1, <1>5, <2>2, <2>3
  <2>5. /\ entry'.left[peer.seq] = entry'.watch /\ entry'.watch \in Nat
        /\ entry'.watch > 0 => peer.seq \in entry'.listed
    BY <1>1, <1>4
  <2>6. /\ entry'.left[peer.seq] + Since(i)' >= entry'.watch
        /\ entry'.watch = 0 => Since(i)' >= entry'.watch
    BY <2>4, <2>5
  <2> QED BY <2>1, <2>5, <2>6 DEF Kept
<1>8. CASE ~entry.exists
  <2>1. \A i \in 0..(streak' - 1) : i = 0
    BY <1>1, <1>2, <1>8 DEF WindowInv, InTime
  <2>2. Kept(0)'
    BY <1>6, <1>7, <1>8, HeardLast DEF WindowInv
  <2> QED BY <1>2, <1>4, <1>6, <1>8, <2>1, <2>2 DEF InWindow
<1>9. CASE entry.exists /\ steady
  <2>1. /\ entry.expected * entry.interv <= entry.watch
        /\ entry.interv = peer.interv
        /\ \A i \in 0..(streak - 1) : Kept(i)
    BY <1>5, <1>9 DEF WindowInv, InWindow
  <2>2. /\ e.interv = entry.interv /\ e.watch = entry.watch /\ e.expected = entry.expected
        /\ e.left = entry.left /\ e.listed = entry.listed
    BY <1>3, <1>6, <1>9, <2>1
  <2>3. ASSUME NEW i \in 0..(streak - 1) PROVE Kept(i)'
    <3>1. i \in Nat /\ Heard(i) \in HelloNo
      BY WindowTypes DEF WindowInv
    <3>2. CASE Heard(i) = peer.seq
      BY <1>7, <2>1, <2>2, <3>1, <3>2
    <3>3. CASE Heard(i) # peer.seq
      <4>1. Heard(i)' = Heard(i) /\ Since(i)' = Since(i)
        BY <1>2, <1>4, <2>2 DEF Heard, Since
      <4>2. entry'.left[Heard(i)] = entry.left[Heard(i)]
        BY <1>4, <2>2, <3>1, <3>3
      <4>3. i # 0
        BY <3>3, HeardLast DEF WindowInv
      <4>4. Kept(i)
        BY <2>1
      <4>5. entry.left[Heard(i)] \in Nat /\ Since(i) \in Int /\ entry.watch \in Nat
        BY <3>1, WindowTypes DEF WindowInv
      <4>6. CASE Since(i) >= entry.watch
        BY <1>4, <2>2, <4>1, <4>6 DEF Kept
      <4>7. CASE Since(i) < entry.watch
        <5>1. Heard(i) \in entry.listed /\ entry.left[Heard(i)] + Since(i) >= entry.watch
          BY <4>3, <4>4, <4>5, <4>7 DEF Kept
        <5>2. Heard(i) \in entry'.listed
          BY <1>4, <2>2, <4>2, <4>5, <4>7, <5>1
        <5> QED BY <1>4, <2>2, <4>1, <4>2, <5>1, <5>2 DEF Kept
      <4> QED BY <4>5, <4>6, <4>7
    <3> QED BY <3>2, <3>3
  <2>4. entry'.expected * entry'.interv <= entry'.watch /\ entry'.interv = peer'.interv
    BY <1>2, <1>4, <2>1, <2>2
  <2> QED BY <1>2, <2>3, <2>4 DEF InWindow
<1>10. CASE entry.exists /\ ~steady
  BY <1>2, <1>10 DEF InWindow
<1> QED BY <1>1, <1>8, <1>9, <1>10

(* With the next hello every other one is one further back. *)
LEMMA HelloWindow ==
    ASSUME WindowInv, NbHello
    PROVE  InWindow'
<1> SUFFICES ASSUME entry.exists, steady PROVE InWindow'
  BY DEF NbHello, InWindow
<1>1. /\ peer.on /\ peer.due = 0 /\ air = {} /\ entry' = entry
      /\ peer' = [peer EXCEPT !.due = peer.interv, !.seq = (peer.seq + 1) % HelloMod]
      /\ air' = {} => streak' = 0
      /\ streak' = 0 \/ streak' = streak \/ streak' = streak + 1
  BY DEF NbHello
<1>2. /\ peer \in [on : BOOLEAN, interv : Intervals, due : Nat, seq : HelloNo]
      /\ entry.interv \in Nat /\ peer.seq \in Int /\ streak \in Nat /\ HelloMod \in Nat \ {0}
  BY WindowTypes DEF WindowInv
<1>3. /\ peer'.interv = peer.interv /\ peer'.due = peer.interv /\ peer'.on = peer.on
      /\ peer'.seq = (peer.seq + 1) % HelloMod
  BY <1>1, <1>2
<1>4. /\ entry.expected * entry.interv <= entry.watch /\ entry.interv = peer.interv
      /\ \A i \in 0..(streak - 1) : Kept(i)
  BY <1>1 DEF WindowInv, InWindow
<1>5. ASSUME NEW i \in 0..(streak' - 1) PROVE Kept(i)'
  <2>1. CASE i = 0
    BY <1>1, <2>1 DEF Kept
  <2>2. CASE i # 0
    <3> DEFINE j == i - 1
    <3>1. j \in Nat /\ j \in 0..(streak - 1) /\ i = j + 1 /\ i \in Nat
      BY <1>1, <1>2, <2>2
    <3>2. Heard(i)' = Heard(j)
      <4>1. (((peer.seq + 1) % HelloMod) + (-i)) % HelloMod
              = ((peer.seq + 1) + (-i)) % HelloMod
        BY <1>2, <3>1, ModPlus
      <4>2. (peer.seq + 1) + (-i) = peer.seq - j
        BY <1>2, <3>1
      <4>3. peer'.seq \in Int /\ peer'.seq - i = ((peer.seq + 1) % HelloMod) + (-i)
        BY <1>2, <1>3, <3>1
      <4> QED BY <4>1, <4>2, <4>3 DEF Heard
    <3>3. Since(i)' = Since(j)
      <4> DEFINE p == j * entry.interv
      <4>1. p \in Nat /\ i * entry.interv = p + entry.interv
        BY <1>2, <3>1
      <4>2. Since(i)' = i * entry.interv + entry.interv - entry.interv
        BY <1>1, <1>3, <1>4 DEF Since
      <4>3. Since(j) = p + entry.interv - 0
        BY <1>1 DEF Since
      <4> HIDE DEF p
      <4> QED BY <1>2, <4>1, <4>2, <4>3
    <3>4. Kept(j)
      BY <1>4, <3>1
    <3> HIDE DEF j
    <3> QED BY <1>1, <3>2, <3>3, <3>4 DEF Kept
  <2> QED BY <2>1, <2>2
<1> QED BY <1>1, <1>3, <1>4, <1>5 DEF InWindow

(* A tick takes one off what is left, and adds one to the age. *)
LEMMA TickWindow ==
    ASSUME WindowInv, Tick
    PROVE  InWindow'
<1>1. /\ air = {}
      /\ peer.on => peer.due > 0
      /\ entry' = [entry EXCEPT !.gone = Less(entry.gone),
                                !.left = [s \in HelloNo |-> Less(entry.left[s])]]
      /\ peer' = [peer EXCEPT !.due = Less(peer.due)]
      /\ UNCHANGED <<air, streak, steady>>
  BY DEF Tick, history
<1>2. /\ peer \in [on : BOOLEAN, interv : Intervals, due : Nat, seq : HelloNo] /\ entry \in Entry
      /\ peer.due \in Nat /\ entry.interv \in Nat /\ entry.watch \in Nat
      /\ streak \in Nat /\ \A s \in HelloNo : entry.left[s] \in Nat
  BY WindowTypes DEF WindowInv, TInv, TypeOK
<1>3. /\ peer'.due = Less(peer.due) /\ peer'.interv = peer.interv /\ peer'.seq = peer.seq
      /\ peer'.on = peer.on
      /\ entry'.interv = entry.interv /\ entry'.watch = entry.watch
      /\ entry'.expected = entry.expected /\ entry'.exists = entry.exists
      /\ entry'.listed = entry.listed
      /\ entry'.left = [s \in HelloNo |-> Less(entry.left[s])]
  BY <1>1, <1>2 DEF Entry
<1> SUFFICES ASSUME entry.exists, steady PROVE InWindow'
  BY <1>1, <1>3 DEF InWindow
<1>4. /\ entry.expected * entry.interv <= entry.watch
      /\ peer.on => entry.interv = peer.interv
      /\ \A i \in 0..(streak - 1) : Kept(i)
  BY DEF WindowInv, InWindow
<1>5. ASSUME NEW i \in 0..(streak - 1) PROVE Kept(i)'
  <2>1. i \in Nat /\ Heard(i) \in HelloNo /\ Since(i) \in Int /\ streak # 0
    BY <1>2, WindowTypes DEF WindowInv
  <2>2. peer.due > 0
    BY <1>1, <2>1 DEF WindowInv, InTime
  <2>3. Since(i)' = Since(i) + 1
    <3> DEFINE p == i * entry.interv
    <3>1. p \in Nat
      BY <1>2, <2>1
    <3>2. Since(i) = p + entry.interv - peer.due /\ Since(i)' = p + entry.interv - peer'.due
      BY <1>3 DEF Since
    <3>3. peer'.due = peer.due - 1
      BY <1>2, <1>3, <2>2 DEF Less
    <3> HIDE DEF p
    <3> QED BY <1>2, <3>1, <3>2, <3>3
  <2>4. Heard(i)' = Heard(i)
    BY <1>3 DEF Heard
  <2>5. entry'.left[Heard(i)] = Less(entry.left[Heard(i)]) /\ entry.left[Heard(i)] \in Nat
    BY <1>2, <1>3, <2>1
  <2>6. Kept(i) /\ air = {}
    BY <1>1, <1>4
  <2>7. CASE Since(i) >= entry.watch
    BY <1>2, <1>3, <2>1, <2>3, <2>7 DEF Kept
  <2>8. CASE Since(i) < entry.watch
    <3>1. Heard(i) \in entry.listed /\ entry.left[Heard(i)] + Since(i) >= entry.watch
      BY <1>2, <2>1, <2>6, <2>8 DEF Kept
    <3>2. entry'.left[Heard(i)] = entry.left[Heard(i)] - 1
      BY <1>2, <2>1, <2>5, <2>8, <3>1 DEF Less
    <3>3. entry'.left[Heard(i)] + Since(i)' >= entry'.watch
      BY <1>2, <1>3, <2>1, <2>3, <2>5, <3>1, <3>2
    <3> QED BY <1>3, <2>4, <3>1, <3>3 DEF Kept
  <2> QED BY <1>2, <2>1, <2>7, <2>8
<1> QED BY <1>1, <1>3, <1>4, <1>5 DEF InWindow

LEMMA InitWindow == Init => WindowInv
<1> SUFFICES ASSUME Init PROVE WindowInv
  OBVIOUS
<1>1. PICK i \in Intervals : peer = [on |-> TRUE, interv |-> i, due |-> 0, seq |-> NotYet]
  BY DEF Init
<1>2. peer.due = 0 /\ peer.interv \in Nat /\ peer.on /\ air = {} /\ streak = 0 /\ ~entry.exists
  BY <1>1, ConstantFacts DEF Init, NoEntry
<1> QED BY <1>2, InitTInv DEF WindowInv, InTime, InWindow

LEMMA NextInTime == WindowInv /\ [Next]_vars => InTime'
<1> SUFFICES ASSUME WindowInv, [Next]_vars PROVE InTime'
  OBVIOUS
<1>1. /\ peer \in [on : BOOLEAN, interv : Intervals, due : Nat, seq : HelloNo]
      /\ peer.due \in Nat /\ peer.interv \in Nat \ {0} /\ streak \in Nat
      /\ HelloMod \in Nat \ {0} /\ Intervals \subseteq Nat \ {0} /\ InTime
  BY WindowTypes, ConstantFacts DEF WindowInv
<1>2. CASE NbHello
  <2>1. /\ peer'.due = peer.interv /\ peer'.interv = peer.interv /\ peer'.on
        /\ entry' = entry
        /\ (air' # {} \/ streak' = 0)
        /\ air = {}
        /\ (streak' = 0 \/ streak' = streak \/ streak' = streak + 1)
    BY <1>1, <1>2 DEF NbHello
  <2> QED BY <1>1, <1>2, <2>1 DEF InTime, NbHello
<1>3. ASSUME NEW t \in Rx, CaptureHello(t) PROVE InTime'
  <2>1. /\ Sound(entry) /\ tracking_factor \in Factors
        /\ peer.interv \in Intervals /\ peer.seq \in HelloNo
    BY <1>1 DEF WindowInv, TInv, TypeOK
  <2> DEFINE r == Refreshed(entry, peer.interv)
  <2> DEFINE c == Captured(r, peer.seq)
  <2>2. Sound(r) /\ r.exists
    BY <2>1, RefreshedType
  <2>3. entry' = Purged(c)
    BY <1>3 DEF CaptureHello
  <2> HIDE DEF r
  <2>4. Sound(c) /\ c.exists
    BY <2>1, <2>2, CapturedType
  <2> HIDE DEF c
  <2>5. entry'.exists
    BY <2>3, <2>4, PurgedType
  <2> QED BY <1>1, <1>3, <2>5 DEF CaptureHello, InTime
<1>4. ASSUME NEW t \in Rx, GetRcvdHelloCount(t) PROVE InTime'
  <2>1. entry'.exists = entry.exists
    BY <1>4, PurgedType DEF GetRcvdHelloCount, WindowInv, TInv
  <2> QED BY <1>1, <1>4, <2>1 DEF GetRcvdHelloCount, history, InTime
<1>5. ASSUME NEW count \in Answers, CaptureHelloRsp(count) PROVE InTime'
  <2> DEFINE r == Refreshed(entry, peer.interv)
  <2>1. r \in Entry /\ r.exists
    BY RefreshedType, WindowTypes DEF WindowInv, TInv, TypeOK, Sound
  <2>2. entry' = [r EXCEPT !.nb_rcvd = count]
    BY <1>5 DEF CaptureHelloRsp
  <2> HIDE DEF r
  <2>3. entry'.exists
    BY <2>1, <2>2 DEF Entry
  <2> QED BY <1>1, <1>5, <2>3 DEF CaptureHelloRsp, InTime
<1>6. CASE Measure
  <2>1. entry'.exists = entry.exists
    BY <1>6, PurgedType DEF Measure, WindowInv, TInv
  <2> QED BY <1>1, <1>6, <2>1 DEF Measure, history, InTime
<1>7. CASE Cleanup
  BY <1>1, <1>7 DEF Cleanup, InTime
<1>8. CASE Tick
  <2>1. entry'.exists = entry.exists
    BY <1>8 DEF Tick, WindowInv, TInv, TypeOK, Entry
  <2>2. peer'.due = Less(peer.due) /\ peer'.interv = peer.interv /\ peer'.on = peer.on
    BY <1>1, <1>8 DEF Tick
  <2> QED BY <1>1, <1>8, <2>1, <2>2 DEF Tick, history, InTime, Less
<1>9. CASE NbStop
  <2>1. peer'.due = 0 /\ peer'.interv = peer.interv /\ ~peer'.on
    BY <1>1, <1>9 DEF NbStop
  <2> QED BY <1>1, <1>9, <2>1 DEF NbStop, InTime
<1>10. ASSUME NEW i \in Intervals, NbStart(i) PROVE InTime'
  BY <1>1, <1>10 DEF NbStart, InTime
<1>11. ASSUME NEW i \in Intervals, NbSetInterval(i) PROVE InTime'
  <2>1. peer'.due = i /\ peer'.interv = i /\ peer'.on
    BY <1>1, <1>11 DEF NbSetInterval
  <2> QED BY <1>1, <1>11, <2>1 DEF NbSetInterval, InTime
<1>12. ASSUME UNCHANGED vars \/ \E i \in Intervals, f \in Factors : SetParameters(i, f)
       PROVE  InTime'
  BY <1>1, <1>12 DEF SetParameters, vars, params, history, InTime
<1> QED BY <1>2, <1>3, <1>4, <1>5, <1>6, <1>7, <1>8, <1>9, <1>10, <1>11, <1>12 DEF Next

LEMMA NextWindow == WindowInv /\ [Next]_vars => WindowInv'
<1> SUFFICES ASSUME WindowInv, [Next]_vars PROVE InWindow'
  BY NextTInv, NextInTime DEF WindowInv
<1>1. CASE NbHello
  BY <1>1, HelloWindow
<1>2. ASSUME NEW t \in Rx, CaptureHello(t) PROVE InWindow'
  BY <1>2, CaptureWindow
<1>3. ASSUME NEW t \in Rx, GetRcvdHelloCount(t) PROVE InWindow'
  <2>1. CASE entry.exists
    BY <1>3, <2>1, PurgeWindow DEF GetRcvdHelloCount, history
  <2>2. CASE ~entry.exists
    BY <1>3, <2>2 DEF GetRcvdHelloCount, InWindow
  <2> QED BY <2>1, <2>2
<1>4. ASSUME NEW count \in Answers, CaptureHelloRsp(count) PROVE InWindow'
  <2> DEFINE r == Refreshed(entry, peer.interv)
  <2>1. /\ Sound(entry) /\ tracking_factor \in Factors /\ peer.interv \in Intervals
        /\ entry.exists \in BOOLEAN /\ streak \in Nat
    BY WindowTypes DEF WindowInv, TInv, TypeOK
  <2>2. r \in Entry /\ r.listed = IF entry.exists THEN entry.listed ELSE {}
    BY <2>1, RefreshedType DEF Sound
  <2>3. /\ entry.exists /\ entry.interv = peer.interv =>
             r.interv = entry.interv /\ r.watch = entry.watch /\ r.expected = entry.expected
             /\ r.left = entry.left
        /\ ~entry.exists => r.interv = peer.interv /\ r.expected * peer.interv <= r.watch
    BY <2>1, RefreshedWindow
  <2>4. entry' = [r EXCEPT !.nb_rcvd = count]
    BY <1>4 DEF CaptureHelloRsp
  <2> HIDE DEF r
  <2>5. /\ entry'.interv = r.interv /\ entry'.watch = r.watch /\ entry'.expected = r.expected
        /\ entry'.listed = r.listed /\ entry'.left = r.left
    BY <2>2, <2>4 DEF Entry
  <2>6. /\ peer.on /\ UNCHANGED <<peer, air, streak>> /\ steady' = (steady \/ ~entry.exists)
        /\ air = {}
    BY <1>4 DEF CaptureHelloRsp
  <2>7. CASE ~entry.exists
    <3>1. streak' = 0
      BY <2>6, <2>7 DEF WindowInv, InTime
    <3> QED BY <2>3, <2>5, <2>6, <2>7, <3>1 DEF InWindow
  <2>8. CASE entry.exists /\ steady
    <3>1. entry.interv = peer.interv
      BY <2>6, <2>8 DEF WindowInv, InWindow
    <3>2. steady' = steady
      BY <2>6, <2>8 DEF WindowInv, TInv, TypeOK
    <3> QED BY <2>2, <2>3, <2>5, <2>6, <2>8, <3>1, <3>2, SameWindow
  <2>9. CASE entry.exists /\ ~steady
    BY <2>6, <2>9 DEF InWindow
  <2> QED BY <2>7, <2>8, <2>9
<1>5. CASE Measure
  BY <1>5, PurgeWindow DEF Measure, history
<1>6. CASE Cleanup
  BY <1>6 DEF Cleanup, NoEntry, InWindow
<1>7. CASE Tick
  BY <1>7, TickWindow
<1>8. CASE NbStop
  <2>1. ~peer'.on
    BY <1>8, WindowTypes DEF NbStop, WindowInv
  <2> QED BY <1>8, <2>1 DEF NbStop, WindowInv, InWindow
<1>9. ASSUME NEW i \in Intervals, NbStart(i) PROVE InWindow'
  <2>1. streak' = 0 /\ peer'.interv = i /\ entry' = entry
        /\ steady' = (steady /\ (entry.exists => entry.interv = i))
    BY <1>9 DEF NbStart, WindowInv, InTime
  <2>2. \A j \in 0..(streak' - 1) : FALSE
    BY <2>1
  <2>3. steady' => steady
    BY <2>1
  <2> QED BY <2>1, <2>2, <2>3 DEF WindowInv, InWindow
<1>10. ASSUME NEW i \in Intervals, NbSetInterval(i) PROVE InWindow'
  BY <1>10 DEF NbSetInterval, InWindow
<1>11. ASSUME UNCHANGED vars \/ \E i \in Intervals, f \in Factors : SetParameters(i, f)
       PROVE  InWindow'
  <2>1. UNCHANGED <<entry, peer, air, streak, steady>>
    BY <1>11 DEF SetParameters, vars, history
  <2> QED BY <2>1 DEF WindowInv, InWindow, Kept, Heard, Since
<1> QED BY <1>1, <1>2, <1>3, <1>4, <1>5, <1>6, <1>7, <1>8, <1>9, <1>10, <1>11 DEF Next

(* Fewer hellos than there are numbers have different numbers. *)
LEMMA HeardOnce ==
    ASSUME TInv, NEW i \in 0..(HelloMod - 1), NEW j \in 0..(HelloMod - 1), Heard(i) = Heard(j)
    PROVE  i = j
<1> DEFINE a == peer.seq - i
           b == peer.seq - j
<1>1. HelloMod \in Nat \ {0} /\ a \in Int /\ b \in Int
  BY WindowTypes
<1>2. a - b = j - i
  BY <1>1, WindowTypes
<1>3. a % HelloMod = b % HelloMod
  BY DEF Heard
<1> HIDE DEF a, b
<1>4. /\ a = HelloMod * (a \div HelloMod) + (a % HelloMod)
      /\ b = HelloMod * (b \div HelloMod) + (b % HelloMod)
      /\ a \div HelloMod \in Int /\ b \div HelloMod \in Int /\ a % HelloMod \in Int
  BY <1>1, DivMod
<1> DEFINE p == a \div HelloMod
           q == b \div HelloMod
<1>5. HelloMod * q + j = HelloMod * p + i
  <2>1. HelloMod * p \in Int /\ HelloMod * q \in Int
    BY <1>1, <1>4
  <2> HIDE DEF p, q
  <2> QED BY <1>1, <1>2, <1>3, <1>4, <2>1 DEF p, q
<1> QED BY <1>1, <1>4, <1>5, ModUnique

(* In the window of a link without losses as many hellos are listed as are *)
(* expected.                                                               *)
LEMMA LosslessLists ==
    ASSUME WindowInv, Lossless
    PROVE  Cardinality(entry.listed) >= entry.expected
<1>1. /\ entry.exists /\ steady /\ streak >= entry.expected
      /\ air = {} /\ peer.on /\ peer.due > 0
  BY DEF Lossless
<1>2. /\ entry.expected \in Nat \ {0} /\ entry.interv \in Nat /\ entry.watch \in Nat
      /\ peer.due \in Nat /\ streak \in HelloNo /\ HelloMod \in Nat \ {0}
      /\ entry.listed \in SUBSET HelloNo /\ entry.expected \in Int
  BY <1>1, WindowTypes DEF WindowInv, TInv, Sound
<1>3. /\ entry.expected * entry.interv <= entry.watch
      /\ \A i \in 0..(streak - 1) : Kept(i)
  BY <1>1 DEF WindowInv, InWindow
<1> DEFINE K == 0..(entry.expected - 1)
           f == [i \in K |-> Heard(i)]
<1>4. ASSUME NEW i \in K PROVE Heard(i) \in entry.listed
  <2>1. i \in Nat /\ i + 1 <= entry.expected /\ i \in 0..(streak - 1)
    BY <1>1, <1>2 DEF HelloNo
  <2>2. (i + 1) * entry.interv <= entry.expected * entry.interv
    BY <1>2, <2>1, TimesGrows
  <2>3. Since(i) < (i + 1) * entry.interv
    <3> DEFINE p == i * entry.interv
    <3>1. p \in Nat /\ (i + 1) * entry.interv = p + entry.interv
      BY <1>2, <2>1
    <3>2. Since(i) = p + entry.interv - peer.due
      BY DEF Since
    <3> HIDE DEF p
    <3> QED BY <1>1, <1>2, <3>1, <3>2
  <2>4. /\ (i + 1) * entry.interv \in Nat /\ entry.expected * entry.interv \in Nat
        /\ Since(i) \in Int
    BY <1>2, <2>1, WindowTypes DEF WindowInv
  <2>5. Since(i) < entry.watch
    BY <1>2, <1>3, <2>2, <2>3, <2>4
  <2> QED BY <1>1, <1>2, <1>3, <2>1, <2>4, <2>5 DEF Kept
<1>5. f \in Injection(K, entry.listed)
  <2>1. f \in [K -> entry.listed]
    BY <1>4
  <2>2. ASSUME NEW i \in K, NEW j \in K, f[i] = f[j] PROVE i = j
    <3>1. Heard(i) = Heard(j)
      BY <2>2
    <3>2. i \in 0..(HelloMod - 1) /\ j \in 0..(HelloMod - 1)
      BY <1>1, <1>2 DEF HelloNo
    <3> QED BY <3>1, <3>2, HeardOnce DEF WindowInv
  <2> HIDE DEF f, K
  <2> QED BY <2>1, <2>2, Fun_IsInj
<1>6. IsFiniteSet(entry.listed) /\ Cardinality(entry.listed) \in Nat
  BY <1>2, ListedIsFinite
<1>7. Cardinality(K) <= Cardinality(entry.listed)
  <2> HIDE DEF f, K
  <2> QED BY <1>5, <1>6, FS_Injection
<1>8. Cardinality(K) = entry.expected
  <2>1. 0 \in Int /\ entry.expected - 1 \in Int /\ 0 <= entry.expected - 1
    BY <1>2
  <2>2. Cardinality(K) = entry.expected - 1 - 0 + 1
    BY <2>1, FS_Interval
  <2> QED BY <1>2, <2>2
<1> QED BY <1>7, <1>8

(* As long as the list is shorter than the counter is wide, a link without *)
(* losses has the best PDR, for any intervals, factors and threads.        *)
THEOREM LosslessLinksAreFull == Spec => []LosslessIsFull
<1>1. WindowInv /\ CountIsListed => LosslessIsFull
  <2> SUFFICES ASSUME WindowInv, CountIsListed, Lossless, Cardinality(entry.listed) < CountMod
               PROVE  Pdr(entry) = MaxMetric
    BY DEF LosslessIsFull
  <2> DEFINE c == Cardinality(entry.listed)
  <2>1. c >= entry.expected
    BY LosslessLists
  <2>2. c \in Nat /\ CountMod \in Nat \ {0}
    BY ListedIsFinite, WindowTypes, ConstantFacts DEF WindowInv
  <2>3. entry.rcvd = (c + 0) % CountMod
    BY DEF CountIsListed, Lossless
  <2>4. c < CountMod
    OBVIOUS
  <2> HIDE DEF c
  <2>5. entry.rcvd = c
    <3>1. c + 0 \in 0..(CountMod - 1) /\ c + 0 = c
      BY <2>2, <2>4
    <3> QED BY <2>2, <2>3, <3>1, ModSmall
  <2> QED BY <2>1, <2>5 DEF Pdr
<1>2. Init => WindowInv /\ CountIsListed
  BY InitWindow, InitCount
<1>3. WindowInv /\ CountIsListed /\ [Next]_vars => (WindowInv /\ CountIsListed)'
  BY NextWindow, NextCount DEF WindowInv
<1> QED BY <1>1, <1>2, <1>3, PTL DEF Spec
=============================================================================

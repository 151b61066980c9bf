--------------------------- MODULE TimeslotProofs ---------------------------
(* A timeslot keeps its list and its hash in agreement, and its purges      *)
(* implement the map of due times, for any objects, times and lifetimes.    *)
EXTENDS Timeslot, FiniteSetTheorems, TLAPS

(* The values of a pointer, and of the pointers of all elements. *)
Pointer  == Object \cup {NULL}
Pointers == [Object -> Pointer]

ListType == [members : SUBSET Object, prev : Pointers, next : Pointers,
             head : Pointer, tail : Pointer, size : Nat,
             time : [Object -> Time]]

(* What every call finds and leaves: a list of some length, and no links    *)
(* from elements that are not in it.                                        *)
Good(L) ==
    /\ L \in ListType
    /\ \A o \in Object \ L.members : L.prev[o] = NULL /\ L.next[o] = NULL
    /\ \E n \in Nat : \E s \in [1..n -> Object] : Lists(L, n, s)

LEMMA FieldTypes ==
    ASSUME NEW L \in ListType
    PROVE  /\ L.members \in SUBSET Object /\ L.tail \in Pointer
           /\ L.head \in Pointer /\ L.size \in Nat
           /\ L.prev \in Pointers /\ L.next \in Pointers
           /\ L.time \in [Object -> Time]
BY DEF ListType

(* Different positions hold different objects. *)
LEMMA Positions ==
    ASSUME NEW n \in Nat, NEW s \in [1..n -> Object], NEW L, Lists(L, n, s),
           NEW i \in 1..n, NEW j \in 1..n, s[i] = s[j]
    PROVE  i = j
<1>1. i \in Nat /\ j \in Nat /\ ~(i < j) /\ ~(j < i)
  BY DEF Lists
<1> QED BY <1>1

LEMMA LinkValue ==
    ASSUME NEW f \in Pointers, NEW o \in Pointer,
           NEW v \in Pointer
    PROVE  /\ Link(f, o, v) \in Pointers
           /\ \A j \in Object : Link(f, o, v)[j] = IF j = o THEN v ELSE f[j]
BY TimeslotAssumption DEF Link, Pointer, Pointers

-----------------------------------------------------------------------------
(* Deleting an object takes it out and leaves the others as they are. *)
LEMMA WithoutFields ==
    ASSUME NEW L \in ListType, NEW o \in L.members, L.next[o] # o, L.prev[o] # o,
           L.size # 0, L.tail = o <=> L.prev[o] = NULL, L.head = o <=> L.next[o] = NULL
    PROVE  /\ Without(L, o) \in ListType /\ Without(L, o).size = L.size - 1
           /\ Without(L, o).members = L.members \ {o}
           /\ Without(L, o).tail = IF L.prev[o] = NULL THEN L.next[o] ELSE L.tail
           /\ Without(L, o).head = IF L.next[o] = NULL THEN L.prev[o] ELSE L.head
           /\ \A j \in Object : Without(L, o).prev[j] =
                 IF j = o THEN NULL ELSE IF j = L.next[o] THEN L.prev[o] ELSE L.prev[j]
           /\ \A j \in Object : Without(L, o).next[j] =
                 IF j = o THEN NULL ELSE IF j = L.prev[o] THEN L.next[o] ELSE L.next[j]
           /\ \A j \in Object : Without(L, o).time[j] = IF j = o THEN 0 ELSE L.time[j]
<1> DEFINE u == [L.prev EXCEPT ![o] = NULL]
           w == [L.next EXCEPT ![o] = NULL]
           p == Link(u, L.next[o], L.prev[o])
           q == Link(w, L.prev[o], L.next[o])
           t == [L.time EXCEPT ![o] = 0]
           f == IF L.prev[o] = NULL THEN L.next[o] ELSE L.tail
           h == IF L.next[o] = NULL THEN L.prev[o] ELSE L.head
<1>1. /\ o \in Object /\ L.prev[o] \in Pointer /\ L.next[o] \in Pointer
      /\ L.members \in SUBSET Object /\ f \in Pointer
      /\ h \in Pointer /\ L.size - 1 \in Nat
      /\ u \in Pointers /\ \A j \in Object : u[j] = IF j = o THEN NULL ELSE L.prev[j]
      /\ w \in Pointers /\ \A j \in Object : w[j] = IF j = o THEN NULL ELSE L.next[j]
  BY FieldTypes DEF Pointer, Pointers
<1> HIDE DEF u, w
<1>2. /\ p \in Pointers
      /\ \A j \in Object : p[j] = IF j = L.next[o] THEN L.prev[o] ELSE u[j]
  <2>1. \A x, v \in Pointer :
           /\ Link(u, x, v) \in Pointers
           /\ \A j \in Object : Link(u, x, v)[j] = IF j = x THEN v ELSE u[j]
    BY <1>1, LinkValue
  <2> QED BY <1>1, <2>1
<1>3. /\ q \in Pointers
      /\ \A j \in Object : q[j] = IF j = L.prev[o] THEN L.next[o] ELSE w[j]
  <2>1. \A x, v \in Pointer :
           /\ Link(w, x, v) \in Pointers
           /\ \A j \in Object : Link(w, x, v)[j] = IF j = x THEN v ELSE w[j]
    BY <1>1, LinkValue
  <2> QED BY <1>1, <2>1
<1>4. 0 \in Time
  BY TimeslotAssumption DEF Time
<1>5. t \in [Object -> Time] /\ \A j \in Object : t[j] = IF j = o THEN 0 ELSE L.time[j]
  BY <1>1, <1>4, FieldTypes
<1>6. \A j \in Object : p[j] = IF j = o THEN NULL ELSE IF j = L.next[o] THEN L.prev[o]
                            ELSE L.prev[j]
  BY <1>1, <1>2
<1>7. \A j \in Object : q[j] = IF j = o THEN NULL ELSE IF j = L.prev[o] THEN L.next[o]
                            ELSE L.next[j]
  BY <1>1, <1>3
<1>8. Without(L, o) = [members |-> L.members \ {o}, prev |-> p, next |-> q,
                       head |-> h, tail |-> f, size |-> L.size - 1, time |-> t]
  BY DEF Without, u, w
<1> HIDE DEF f, h, p, q, t
<1>9. Without(L, o) \in ListType
  BY <1>1, <1>2, <1>3, <1>5, <1>8 DEF ListType
<1>10. /\ Without(L, o).members = L.members \ {o} /\ Without(L, o).tail = f
       /\ Without(L, o).head = h /\ Without(L, o).size = L.size - 1
       /\ Without(L, o).prev = p /\ Without(L, o).next = q /\ Without(L, o).time = t
  BY <1>8
<1> QED BY <1>5, <1>6, <1>7, <1>9, <1>10 DEF f, h

LEMMA WithoutGood ==
    ASSUME NEW L, Good(L), NEW o \in Object
    PROVE  /\ Good(Without(L, o))
           /\ Without(L, o).members = L.members \ {o}
           /\ \A j \in Object \ {o} : Without(L, o).time[j] = L.time[j]
<1>1. CASE o \notin L.members
  BY <1>1 DEF Without
<1>2. CASE o \in L.members
  <2>1. L \in ListType
    BY DEF Good
  <2>2. PICK n \in Nat : \E s \in [1..n -> Object] : Lists(L, n, s)
    BY DEF Good
  <2>3. PICK s \in [1..n -> Object] : Lists(L, n, s)
    BY <2>2
  <2>4. PICK p \in 1..n : s[p] = o
    BY <1>2, <2>3 DEF Lists
  <2> DEFINE M == Without(L, o)
             r == [i \in 1..(n - 1) |-> IF i < p THEN s[i] ELSE s[i + 1]]
             at(i) == IF i < p THEN i ELSE i + 1
  <2>5. n - 1 \in Nat /\ p \in Nat /\ n \in Nat
    BY <2>4
  <2>6. \A i \in 1..(n - 1) : at(i) \in 1..n /\ at(i) # p /\ i \in Nat
    BY <2>4, <2>5
  <2>7. r \in [1..(n - 1) -> Object] /\ \A i \in 1..(n - 1) : r[i] = s[at(i)]
    BY <2>3, <2>6
  <2>8. \A i, j \in 1..n : s[i] = s[j] => i = j
    BY <2>3, Positions
  <2>21. \A i \in 1..n : L.next[s[i]] = IF i = n THEN NULL ELSE s[i + 1]
    BY <2>3 DEF Lists
  <2>9. /\ L.prev[o] = IF p = 1 THEN NULL ELSE s[p - 1]
        /\ L.next[o] = IF p = n THEN NULL ELSE s[p + 1]
    BY <2>3, <2>4 DEF Lists
  <2>10. L.next[o] # o /\ L.prev[o] # o
    <3>1. p # 1 => p - 1 \in 1..n /\ p - 1 # p
      BY <2>4, <2>5
    <3>2. p # n => p + 1 \in 1..n /\ p + 1 # p
      BY <2>4, <2>5
    <3>3. o # NULL
      BY TimeslotAssumption
    <3> QED BY <2>4, <2>8, <2>9, <3>1, <3>2, <3>3
  <2>23. /\ L.size = n /\ n # 0 /\ 1 \in 1..n /\ n \in 1..n
         /\ L.tail = s[1] /\ L.head = s[n]
    BY <2>3, <2>4, <2>5 DEF Lists
  <2>24. /\ L.tail = o <=> L.prev[o] = NULL
         /\ L.head = o <=> L.next[o] = NULL
    <3>1. (L.tail = o <=> p = 1) /\ (L.head = o <=> p = n)
      BY <2>4, <2>8, <2>23
    <3>2. p # 1 => p - 1 \in 1..n
      BY <2>4, <2>5
    <3>3. p # n => p + 1 \in 1..n
      BY <2>4, <2>5
    <3> QED BY <2>3, <2>9, <3>1, <3>2, <3>3, TimeslotAssumption
  <2>11. /\ M \in ListType /\ M.members = L.members \ {o} /\ M.size = n - 1
         /\ M.tail = IF L.prev[o] = NULL THEN L.next[o] ELSE L.tail
         /\ M.head = IF L.next[o] = NULL THEN L.prev[o] ELSE L.head
         /\ \A j \in Object : M.prev[j] =
               IF j = o THEN NULL ELSE IF j = L.next[o] THEN L.prev[o] ELSE L.prev[j]
         /\ \A j \in Object : M.next[j] =
               IF j = o THEN NULL ELSE IF j = L.prev[o] THEN L.next[o] ELSE L.next[j]
         /\ \A j \in Object : M.time[j] = IF j = o THEN 0 ELSE L.time[j]
    BY <1>2, <2>1, <2>10, <2>23, <2>24, WithoutFields
  <2>22. \A j \in Object : j # o /\ j # L.prev[o] => M.next[j] = L.next[j]
    BY <2>11
  <2> HIDE DEF M
  <2>12. M.members = {r[i] : i \in 1..(n - 1)}
    <3>1. ASSUME NEW x \in M.members PROVE \E i \in 1..(n - 1) : r[i] = x
      <4>1. PICK i \in 1..n : x = s[i]
        BY <2>3, <2>11, <3>1 DEF Lists
      <4>2. i # p /\ i \in Nat
        BY <2>4, <2>11, <3>1, <4>1
      <4>3. CASE i < p
        <5>1. i \in 1..(n - 1) /\ at(i) = i
          BY <2>5, <4>2, <4>3, <2>4
        <5> QED BY <2>7, <4>1, <5>1
      <4>4. CASE i > p
        <5>1. i - 1 \in 1..(n - 1) /\ at(i - 1) = i
          BY <2>5, <4>2, <4>4, <2>4
        <5> QED BY <2>7, <4>1, <5>1
      <4> QED BY <2>5, <4>2, <4>3, <4>4
    <3>2. ASSUME NEW i \in 1..(n - 1) PROVE r[i] \in M.members
      <4>1. PICK m \in 1..n : r[i] = s[m] /\ m # p
        BY <2>6, <2>7
      <4>2. s[m] # o
        BY <2>4, <2>8, <4>1
      <4>3. s[m] \in L.members
        BY <2>3 DEF Lists
      <4>4. M.members = L.members \ {o}
        BY <2>11
      <4> QED BY <4>1, <4>2, <4>3, <4>4
    <3> HIDE DEF r, at
    <3> QED BY <3>1, <3>2
  <2>13. \A i \in 1..(n - 1) : r[i] \in Object /\ r[i] # o
    BY <2>4, <2>6, <2>7, <2>8
  <2>14. ASSUME NEW i \in 1..(n - 1), NEW j \in 1..(n - 1), i < j
         PROVE  r[i] # r[j] /\ M.time[r[i]] <= M.time[r[j]]
    <3>1. at(i) < at(j) /\ at(i) \in 1..n /\ at(j) \in 1..n
      BY <2>5, <2>6, <2>14
    <3>2. s[at(i)] # s[at(j)] /\ L.time[s[at(i)]] <= L.time[s[at(j)]]
      BY <2>3, <3>1 DEF Lists
    <3>3. M.time[r[i]] = L.time[r[i]] /\ M.time[r[j]] = L.time[r[j]]
      BY <2>11, <2>13
    <3> QED BY <2>7, <3>2, <3>3
  <2>15. M.tail = IF n - 1 = 0 THEN NULL ELSE r[1]
    <3>1. CASE p = 1
      <4>1. M.tail = IF n = 1 THEN NULL ELSE s[2]
        BY <2>5, <2>9, <2>11, <3>1
      <4>2. n # 1 => 1 \in 1..(n - 1) /\ at(1) = 2
        BY <2>4, <2>5, <3>1
      <4> QED BY <2>5, <2>7, <4>1, <4>2
    <3>2. CASE p # 1
      <4>1. p - 1 \in 1..n /\ n - 1 # 0 /\ 1 \in 1..(n - 1) /\ at(1) = 1 /\ n # 0
        BY <2>4, <2>5, <3>2
      <4>2. L.prev[o] # NULL
        BY <2>9, <3>2, <4>1, TimeslotAssumption
      <4>3. M.tail = s[1]
        BY <2>3, <2>11, <4>1, <4>2 DEF Lists
      <4> QED BY <2>7, <4>1, <4>3
    <3> QED BY <3>1, <3>2
  <2>25. M.head = IF n - 1 = 0 THEN NULL ELSE r[n - 1]
    <3>1. CASE p = n
      <4>1. M.head = IF n = 1 THEN NULL ELSE s[n - 1]
        BY <2>9, <2>11, <3>1
      <4>2. n # 1 => n - 1 \in 1..(n - 1) /\ at(n - 1) = n - 1 /\ n - 1 # 0
        BY <2>4, <2>5, <3>1
      <4> QED BY <2>5, <2>7, <4>1, <4>2
    <3>2. CASE p # n
      <4>1. p + 1 \in 1..n /\ n - 1 # 0 /\ n - 1 \in 1..(n - 1) /\ at(n - 1) = n
        BY <2>4, <2>5, <3>2
      <4>2. L.next[o] # NULL
        BY <2>3, <2>9, <3>2, <4>1, TimeslotAssumption
      <4>3. M.head = s[n]
        BY <2>11, <2>23, <4>2
      <4> QED BY <2>7, <4>1, <4>3
    <3> QED BY <3>1, <3>2
  <2>16. ASSUME NEW i \in 1..(n - 1)
         PROVE  M.prev[r[i]] = IF i = 1 THEN NULL ELSE r[i - 1]
    <3>0. i # 1 => i - 1 \in 1..(n - 1)
      BY <2>5
    <3>1. CASE i < p
      <4>1. r[i] = s[i] /\ i \in 1..n /\ (i # 1 => r[i - 1] = s[i - 1])
        BY <2>5, <2>6, <2>7, <3>0, <3>1
      <4>2. p # n => p + 1 \in 1..n /\ p + 1 # i
        BY <2>4, <2>5, <3>1
      <4>3. r[i] # L.next[o]
        BY <2>8, <2>9, <2>13, <4>1, <4>2, TimeslotAssumption
      <4>4. M.prev[r[i]] = L.prev[s[i]]
        BY <2>11, <2>13, <4>1, <4>3
      <4> QED BY <2>3, <4>1, <4>4 DEF Lists
    <3>2. CASE i = p
      <4>1. r[i] = s[p + 1] /\ p # n /\ (i # 1 => r[i - 1] = s[p - 1])
        BY <2>5, <2>6, <2>7, <3>0, <3>2
      <4>2. M.prev[r[i]] = L.prev[o]
        BY <2>9, <2>11, <2>13, <4>1
      <4> QED BY <2>9, <3>2, <4>1, <4>2
    <3>3. CASE i > p
      <4>1. r[i] = s[i + 1] /\ i # 1 /\ r[i - 1] = s[i] /\ i + 1 \in 1..n /\ i + 1 # 1
            /\ (i + 1) - 1 = i
        BY <2>4, <2>5, <2>6, <2>7, <3>0, <3>3
      <4>2. p # n => p + 1 \in 1..n /\ p + 1 # i + 1
        BY <2>4, <2>5, <3>3
      <4>3. r[i] # L.next[o]
        BY <2>8, <2>9, <2>13, <4>1, <4>2, TimeslotAssumption
      <4>4. M.prev[r[i]] = L.prev[s[i + 1]]
        BY <2>11, <2>13, <4>1, <4>3
      <4>5. L.prev[s[i + 1]] = s[i]
        BY <2>3, <4>1 DEF Lists
      <4> QED BY <4>1, <4>4, <4>5
    <3> QED BY <2>5, <3>1, <3>2, <3>3
  <2>17. ASSUME NEW i \in 1..(n - 1)
         PROVE  M.next[r[i]] = IF i = n - 1 THEN NULL ELSE r[i + 1]
    <3>0. i # n - 1 => i + 1 \in 1..(n - 1)
      BY <2>5
    <3>1. CASE i > p - 1
      <4>1. /\ r[i] = s[i + 1] /\ i + 1 \in 1..n /\ (i + 1 = n <=> i = n - 1)
            /\ (i # n - 1 => r[i + 1] = s[(i + 1) + 1])
        BY <2>4, <2>5, <2>6, <2>7, <3>0, <3>1
      <4>2. p # 1 => p - 1 \in 1..n /\ p - 1 # i + 1
        BY <2>4, <2>5, <3>1
      <4>3. r[i] # L.prev[o]
        BY <2>8, <2>9, <2>13, <4>1, <4>2, TimeslotAssumption
      <4>4. M.next[r[i]] = L.next[s[i + 1]]
        BY <2>13, <2>22, <4>1, <4>3
      <4>5. L.next[s[i + 1]] = IF i + 1 = n THEN NULL ELSE s[(i + 1) + 1]
        BY <2>21, <4>1
      <4> QED BY <4>1, <4>4, <4>5
    <3>2. CASE i = p - 1
      <4>1. /\ r[i] = s[p - 1] /\ p # 1 /\ (p = n <=> i = n - 1)
            /\ (i # n - 1 => r[i + 1] = s[p + 1])
        BY <2>4, <2>5, <2>6, <2>7, <3>0, <3>2
      <4>2. M.next[r[i]] = L.next[o]
        BY <2>9, <2>11, <2>13, <4>1
      <4> QED BY <2>9, <4>1, <4>2
    <3>3. CASE i < p - 1
      <4>1. r[i] = s[i] /\ i # n - 1 /\ i # n /\ r[i + 1] = s[i + 1] /\ i \in 1..n
        BY <2>4, <2>5, <2>6, <2>7, <3>0, <3>3
      <4>2. p # 1 => p - 1 \in 1..n /\ p - 1 # i
        BY <2>4, <2>5, <3>3
      <4>3. r[i] # L.prev[o]
        BY <2>8, <2>9, <2>13, <4>1, <4>2, TimeslotAssumption
      <4>4. M.next[r[i]] = L.next[s[i]]
        BY <2>11, <2>13, <4>1, <4>3
      <4> QED BY <2>3, <4>1, <4>4 DEF Lists
    <3> QED BY <2>5, <3>1, <3>2, <3>3
  <2>18. Lists(M, n - 1, r)
    BY <2>11, <2>12, <2>14, <2>15, <2>16, <2>17, <2>25 DEF Lists
  <2>19. ASSUME NEW j \in Object \ M.members PROVE M.prev[j] = NULL /\ M.next[j] = NULL
    <3>1. CASE j = o
      BY <2>11, <3>1
    <3>2. CASE j # o
      <4>1. j \notin L.members /\ L.prev[j] = NULL /\ L.next[j] = NULL
        BY <2>11, <3>2 DEF Good
      <4>2. /\ L.prev[o] \in L.members \cup {NULL}
            /\ L.next[o] \in L.members \cup {NULL}
        <5>1. /\ p # 1 => p - 1 \in 1..n
              /\ p # n => p + 1 \in 1..n
          BY <2>4, <2>5
        <5> QED BY <2>3, <2>9, <5>1 DEF Lists
      <4>3. j # L.prev[o] /\ j # L.next[o]
        BY <4>1, <4>2, TimeslotAssumption
      <4> QED BY <2>11, <3>2, <4>1, <4>3
    <3> QED BY <3>1, <3>2
  <2>20. Good(M)
    BY <2>5, <2>7, <2>11, <2>18, <2>19 DEF Good
  <2> QED BY <2>11, <2>20 DEF M
<1> QED BY <1>1, <1>2

-----------------------------------------------------------------------------
(* What an insertion writes, for the neighbours it chooses. *)
AddedBetween(L, o, t, pred, succ, M) ==
    /\ M \in ListType
    /\ M.members = L.members \cup {o}
    /\ M.size = L.size + 1
    /\ M.tail = IF pred = NULL THEN o ELSE L.tail
    /\ M.head = IF succ = NULL THEN o ELSE L.head
    /\ \A j \in Object : M.prev[j] =
          IF j = o THEN pred ELSE IF j = succ THEN o ELSE L.prev[j]
    /\ \A j \in Object : M.next[j] =
          IF j = o THEN succ ELSE IF j = pred THEN o ELSE L.next[j]
    /\ \A j \in Object : M.time[j] = IF j = o THEN t ELSE L.time[j]

LEMMA AddedFirst ==
    ASSUME NEW L \in ListType, NEW o \in Object, NEW t \in Time, L.size = 0,
           L.prev[o] = NULL, L.next[o] = NULL
    PROVE  AddedBetween(L, o, t, NULL, NULL, With(L, o, t))
<1> DEFINE u == [L.time EXCEPT ![o] = t]
           M == [members |-> L.members \cup {o}, prev |-> L.prev, next |-> L.next,
                 head |-> o, tail |-> o, size |-> 1, time |-> u]
<1>1. u \in [Object -> Time] /\ \A j \in Object : u[j] = IF j = o THEN t ELSE L.time[j]
  BY FieldTypes
<1>2. With(L, o, t) = M
  BY DEF With
<1> HIDE DEF u
<1>3. M \in ListType
  BY <1>1, FieldTypes DEF ListType, Pointer
<1>4. o # NULL /\ \A j \in Object : j # NULL
  BY TimeslotAssumption
<1>5. AddedBetween(L, o, t, NULL, NULL, M)
  BY <1>1, <1>3, <1>4 DEF AddedBetween
<1> QED BY <1>2, <1>5

LEMMA AddedBefore ==
    ASSUME NEW L \in ListType, NEW o \in Object, NEW t \in Time, L.size # 0,
           NEW at \in Object, at = Neighbour(L, t), ~(t >= L.time[at]), at # o, L.prev[at] # o,
           L.tail = at <=> L.prev[at] = NULL
    PROVE  AddedBetween(L, o, t, L.prev[at], at, With(L, o, t))
<1> DEFINE u == [L.time EXCEPT ![o] = t]
           p == [L.prev EXCEPT ![o] = L.prev[at], ![at] = o]
           w == [L.next EXCEPT ![o] = at]
           q == Link(w, L.prev[at], o)
           f == IF L.prev[at] = NULL THEN o ELSE L.tail
           M == [members |-> L.members \cup {o}, prev |-> p, next |-> q,
                 head |-> L.head, tail |-> f, size |-> L.size + 1, time |-> u]
<1>1. u \in [Object -> Time] /\ \A j \in Object : u[j] = IF j = o THEN t ELSE L.time[j]
  BY FieldTypes
<1>9. /\ L.prev \in Pointers /\ L.next \in Pointers /\ L.tail \in Pointer
      /\ o \in Pointer /\ at \in Pointer
  BY FieldTypes DEF Pointer
<1>2. /\ L.prev[at] \in Pointer /\ f \in Pointer
      /\ p \in Pointers /\ w \in Pointers
      /\ \A j \in Object : p[j] = IF j = o THEN L.prev[at] ELSE IF j = at THEN o ELSE L.prev[j]
      /\ \A j \in Object : w[j] = IF j = o THEN at ELSE L.next[j]
  BY <1>9 DEF Pointers
<1>3. With(L, o, t) = M
  BY DEF With
<1> HIDE DEF u, p, w, f, M
<1>4. /\ q \in Pointers
      /\ \A j \in Object : q[j] = IF j = L.prev[at] THEN o ELSE w[j]
  <2>1. \A x, v \in Pointer : /\ Link(w, x, v) \in Pointers
                              /\ \A j \in Object : Link(w, x, v)[j] = IF j = x THEN v ELSE w[j]
    BY <1>2, LinkValue
  <2> QED BY <1>2, <1>9, <2>1
<1> HIDE DEF q
<1>5. M \in ListType
  BY <1>1, <1>2, <1>4, FieldTypes DEF ListType, M
<1>6. \A j \in Object : q[j] = IF j = o THEN at ELSE IF j = L.prev[at] THEN o ELSE L.next[j]
  BY <1>2, <1>4
<1>7. AddedBetween(L, o, t, L.prev[at], at, M)
  <2>1. at # NULL
    BY TimeslotAssumption
  <2> QED BY <1>1, <1>2, <1>5, <1>6, <2>1 DEF AddedBetween, f, M
<1> QED BY <1>3, <1>7 DEF M

LEMMA AddedBehind ==
    ASSUME NEW L \in ListType, NEW o \in Object, NEW t \in Time, L.size # 0,
           NEW at \in Object, at = Neighbour(L, t), t >= L.time[at], at # o, L.next[at] # o,
           L.head = at <=> L.next[at] = NULL
    PROVE  AddedBetween(L, o, t, at, L.next[at], With(L, o, t))
<1> DEFINE u == [L.time EXCEPT ![o] = t]
           q == [L.next EXCEPT ![o] = L.next[at], ![at] = o]
           w == [L.prev EXCEPT ![o] = at]
           p == Link(w, L.next[at], o)
           f == IF L.next[at] = NULL THEN o ELSE L.head
           M == [members |-> L.members \cup {o}, prev |-> p, next |-> q,
                 head |-> f, tail |-> L.tail, size |-> L.size + 1, time |-> u]
<1>1. u \in [Object -> Time] /\ \A j \in Object : u[j] = IF j = o THEN t ELSE L.time[j]
  BY FieldTypes
<1>9. /\ L.prev \in Pointers /\ L.next \in Pointers /\ L.head \in Pointer
      /\ o \in Pointer /\ at \in Pointer
  BY FieldTypes DEF Pointer
<1>2. /\ L.next[at] \in Pointer /\ f \in Pointer
      /\ q \in Pointers /\ w \in Pointers
      /\ \A j \in Object : q[j] = IF j = o THEN L.next[at] ELSE IF j = at THEN o ELSE L.next[j]
      /\ \A j \in Object : w[j] = IF j = o THEN at ELSE L.prev[j]
  BY <1>9 DEF Pointers
<1>3. With(L, o, t) = M
  BY DEF With, FixHead
<1> HIDE DEF u, q, w, f, M
<1>4. /\ p \in Pointers
      /\ \A j \in Object : p[j] = IF j = L.next[at] THEN o ELSE w[j]
  <2>1. \A x, v \in Pointer : /\ Link(w, x, v) \in Pointers
                              /\ \A j \in Object : Link(w, x, v)[j] = IF j = x THEN v ELSE w[j]
    BY <1>2, LinkValue
  <2> QED BY <1>2, <1>9, <2>1
<1> HIDE DEF p
<1>5. M \in ListType
  BY <1>1, <1>2, <1>4, FieldTypes DEF ListType, M
<1>6. \A j \in Object : p[j] = IF j = o THEN at ELSE IF j = L.next[at] THEN o ELSE L.prev[j]
  BY <1>2, <1>4
<1>7. at # NULL /\ o # NULL
  BY TimeslotAssumption
<1>8. AddedBetween(L, o, t, at, L.next[at], M)
  BY <1>1, <1>2, <1>5, <1>6, <1>7 DEF AddedBetween, f, M
<1> QED BY <1>3, <1>8 DEF M

(* An element put between two neighbours of a list, in order, makes a list. *)
LEMMA BetweenGood ==
    ASSUME NEW L, Good(L), NEW n \in Nat, NEW s \in [1..n -> Object], Lists(L, n, s),
           NEW o \in Object, o \notin L.members, NEW t \in Time, NEW w \in 1..(n + 1),
           NEW pred, pred = IF w = 1 THEN NULL ELSE s[w - 1],
           NEW succ, succ = IF w = n + 1 THEN NULL ELSE s[w],
           \A i \in 1..n : /\ i < w => L.time[s[i]] <= t
                           /\ w <= i => t <= L.time[s[i]],
           NEW M, AddedBetween(L, o, t, pred, succ, M)
    PROVE  Good(M)
<1> DEFINE r == [i \in 1..(n + 1) |-> IF i < w THEN s[i] ELSE IF i = w THEN o ELSE s[i - 1]]
<1>0. /\ M \in ListType /\ M.members = L.members \cup {o}
      /\ M.size = n + 1
      /\ M.tail = IF w = 1 THEN o ELSE L.tail
      /\ M.head = IF w = n + 1 THEN o ELSE L.head
      /\ \A j \in Object : M.prev[j] =
            IF j = o THEN pred ELSE IF j = succ THEN o ELSE L.prev[j]
      /\ \A j \in Object : M.next[j] =
            IF j = o THEN succ ELSE IF j = pred THEN o ELSE L.next[j]
      /\ \A j \in Object : M.time[j] = IF j = o THEN t ELSE L.time[j]
  <2>1. w # 1 => w - 1 \in 1..n
    OBVIOUS
  <2>2. pred = NULL <=> w = 1
    BY <2>1, TimeslotAssumption
  <2>3. succ = NULL <=> w = n + 1
    <3>1. w # n + 1 => w \in 1..n
      OBVIOUS
    <3> QED BY <3>1, TimeslotAssumption
  <2> QED BY <2>2, <2>3 DEF AddedBetween, Lists
<1> USE <1>0
<1>1. n \in Nat /\ w \in Nat /\ 1 <= w /\ w <= n + 1 /\ n + 1 \in Nat /\ o # NULL
  BY TimeslotAssumption
<1>2. /\ \A i \in 1..n : s[i] \in Object /\ s[i] \in L.members /\ s[i] # o /\ s[i] # NULL
      /\ \A i, j \in 1..n : s[i] = s[j] => i = j
  <2>1. \A i \in 1..n : s[i] \in Object /\ s[i] \in L.members
    BY DEF Lists
  <2> QED BY <2>1, Positions, TimeslotAssumption
<1>3. /\ r \in [1..(n + 1) -> Object]
      /\ \A i \in 1..(n + 1) : /\ i < w => i \in 1..n /\ r[i] = s[i]
                               /\ i = w => r[i] = o
                               /\ w < i => i - 1 \in 1..n /\ r[i] = s[i - 1]
  <2>1. \A i \in 1..(n + 1) : (i < w => i \in 1..n) /\ (w < i => i - 1 \in 1..n)
    BY <1>1
  <2> QED BY <1>1, <1>2, <2>1
<1>4. /\ \A i \in 1..n : i < w => i \in 1..(n + 1) /\ r[i] = s[i]
      /\ w \in 1..(n + 1) /\ r[w] = o
      /\ \A i \in 1..n : w <= i => i + 1 \in 1..(n + 1) /\ r[i + 1] = s[i]
  <2>1. \A i \in 1..n : /\ i \in 1..(n + 1) /\ i + 1 \in 1..(n + 1)
                        /\ (i + 1) - 1 = i /\ (w <= i => w < i + 1)
    BY <1>1
  <2> QED BY <1>1, <1>3, <2>1
<1> HIDE DEF r
<1>5. M.members = {r[i] : i \in 1..(n + 1)}
  <2>1. ASSUME NEW x \in M.members PROVE \E i \in 1..(n + 1) : x = r[i]
    <3>1. CASE x = o
      BY <1>4, <3>1
    <3>2. CASE x # o
      <4>1. PICK i \in 1..n : x = s[i]
        BY <2>1, <3>2 DEF Lists
      <4>2. i < w \/ w <= i
        BY <1>1
      <4> QED BY <1>4, <4>1, <4>2
    <3> QED BY <3>1, <3>2
  <2>2. ASSUME NEW i \in 1..(n + 1) PROVE r[i] \in M.members
    <3>1. i < w \/ i = w \/ w < i
      BY <1>1
    <3> QED BY <1>2, <1>3, <3>1
  <2> QED BY <2>1, <2>2
<1>6. ASSUME NEW i \in 1..(n + 1), NEW j \in 1..(n + 1), i < j
      PROVE  r[i] # r[j] /\ M.time[r[i]] <= M.time[r[j]]
  <2>1. /\ \A x \in 1..n : M.time[s[x]] = L.time[s[x]]
        /\ M.time[o] = t
        /\ \A x, y \in 1..n : x < y => s[x] # s[y] /\ L.time[s[x]] <= L.time[s[y]]
    BY <1>2 DEF Lists
  <2>2. CASE j < w
    <3>1. i < w
      BY <1>1, <1>6, <2>2
    <3> QED BY <1>3, <1>6, <2>1, <2>2, <3>1
  <2>3. CASE j = w
    <3>1. i < w
      BY <1>1, <1>6, <2>3
    <3>2. i \in 1..n /\ r[i] = s[i] /\ r[j] = o /\ L.time[s[i]] <= t
      BY <1>3, <2>3, <3>1
    <3> QED BY <1>2, <2>1, <3>2
  <2>4. CASE w < j /\ i < w
    <3>2. i \in 1..n /\ j - 1 \in 1..n /\ i < j - 1
      BY <1>1, <1>3, <2>4
    <3>3. r[i] = s[i] /\ r[j] = s[j - 1]
      BY <1>3, <2>4
    <3> QED BY <2>1, <3>2, <3>3
  <2>5. CASE w < j /\ i = w
    <3>1. j - 1 \in 1..n /\ w <= j - 1
      BY <1>1, <1>3, <2>5
    <3>2. r[i] = o /\ r[j] = s[j - 1] /\ t <= L.time[s[j - 1]]
      BY <1>3, <2>5, <3>1
    <3> QED BY <1>2, <2>1, <3>1, <3>2
  <2>6. CASE w < j /\ w < i
    <3>1. i - 1 \in 1..n /\ j - 1 \in 1..n /\ i - 1 < j - 1
      BY <1>1, <1>3, <1>6, <2>6
    <3>2. r[i] = s[i - 1] /\ r[j] = s[j - 1]
      BY <1>3, <2>6
    <3> QED BY <2>1, <3>1, <3>2
  <2> QED BY <1>1, <2>2, <2>3, <2>4, <2>5, <2>6
<1>7. M.tail = IF n + 1 = 0 THEN NULL ELSE r[1]
  <2>1. CASE w = 1
    BY <1>1, <1>4, <2>1
  <2>2. CASE w # 1
    <3>1. 1 \in 1..n /\ 1 < w /\ n # 0
      BY <1>1, <2>2
    <3> QED BY <1>1, <1>4, <2>2, <3>1 DEF Lists
  <2> QED BY <2>1, <2>2
<1>8. /\ w # 1 => w - 1 \in 1..n /\ pred = s[w - 1] /\ pred # o
      /\ w = 1 => pred = NULL
      /\ w # n + 1 => w \in 1..n /\ succ = s[w] /\ succ # o
      /\ w = n + 1 => succ = NULL
  <2>1. (w # 1 => w - 1 \in 1..n) /\ (w # n + 1 => w \in 1..n)
    BY <1>1
  <2> QED BY <1>2, <2>1
<1>9. ASSUME NEW i \in 1..(n + 1)
      PROVE  M.prev[r[i]] = IF i = 1 THEN NULL ELSE r[i - 1]
  <2>1. CASE i < w
    <3>1. i \in 1..n /\ r[i] = s[i] /\ (i # 1 => i - 1 \in 1..n /\ i - 1 < w)
      BY <1>1, <1>3, <2>1
    <3>2. r[i] # succ
      BY <1>1, <1>2, <1>8, <2>1, <3>1
    <3>3. M.prev[r[i]] = L.prev[s[i]]
      BY <1>2, <3>1, <3>2
    <3>4. i # 1 => r[i - 1] = s[i - 1]
      BY <1>4, <3>1
    <3> QED BY <3>1, <3>3, <3>4 DEF Lists
  <2>2. CASE i = w
    <3>1. M.prev[r[i]] = pred
      BY <1>3, <2>2
    <3>2. w # 1 => r[w - 1] = s[w - 1]
      <4>1. w - 1 < w
        BY <1>1
      <4> QED BY <1>4, <1>8, <4>1
    <3> QED BY <1>8, <2>2, <3>1, <3>2
  <2>3. CASE i = w + 1
    <3>1. i - 1 = w /\ w < i /\ i # 1
      BY <1>1, <2>3
    <3>2. r[i] = s[w] /\ w \in 1..n
      BY <1>3, <3>1
    <3>3. w # n + 1
      BY <1>1, <3>2
    <3>4. r[i] = succ /\ r[i] \in Object /\ r[i] # o
      BY <1>2, <1>8, <3>2, <3>3
    <3> QED BY <1>4, <3>1, <3>4
  <2>4. CASE w + 1 < i
    <3>1. /\ w < i /\ i # 1 /\ i - 1 \in 1..n /\ (i - 1) - 1 \in 1..n /\ w < i - 1
          /\ i - 1 \in 1..(n + 1) /\ i - 1 # 1 /\ w # i - 1
      BY <1>1, <2>4
    <3>2. r[i] = s[i - 1] /\ r[i - 1] = s[(i - 1) - 1]
      BY <1>3, <3>1
    <3>3. r[i] # succ
      BY <1>2, <1>8, <3>1, <3>2
    <3>4. M.prev[r[i]] = L.prev[s[i - 1]]
      BY <1>2, <3>1, <3>2, <3>3
    <3>5. L.prev[s[i - 1]] = s[(i - 1) - 1]
      BY <3>1 DEF Lists
    <3> QED BY <3>1, <3>2, <3>4, <3>5
  <2> QED BY <1>1, <2>1, <2>2, <2>3, <2>4
<1>10. ASSUME NEW i \in 1..(n + 1)
       PROVE  M.next[r[i]] = IF i = n + 1 THEN NULL ELSE r[i + 1]
  <2>1. CASE i < w - 1
    <3>1. i \in 1..n /\ i + 1 \in 1..n /\ i < w /\ i + 1 < w /\ i # n + 1 /\ i # w - 1 /\ i # n
      BY <1>1, <2>1
    <3>2. r[i] = s[i] /\ r[i + 1] = s[i + 1]
      BY <1>4, <3>1
    <3>3. r[i] # pred
      BY <1>2, <1>8, <3>1, <3>2
    <3>4. M.next[r[i]] = L.next[s[i]]
      BY <1>2, <3>1, <3>2, <3>3
    <3>5. L.next[s[i]] = s[i + 1]
      BY <3>1 DEF Lists
    <3> QED BY <3>1, <3>2, <3>4, <3>5
  <2>2. CASE i = w - 1
    <3>1. i \in 1..n /\ i < w /\ w # 1 /\ i + 1 = w /\ i # n + 1
      BY <1>1, <2>2
    <3>2. r[i] = pred /\ r[i] \in Object /\ r[i] # o
      BY <1>2, <1>4, <1>8, <2>2, <3>1
    <3> QED BY <1>4, <3>1, <3>2
  <2>3. CASE i = w
    <3>1. M.next[r[i]] = succ
      BY <1>3, <2>3
    <3>2. w # n + 1 => r[w + 1] = s[w]
      BY <1>1, <1>4, <1>8
    <3> QED BY <1>8, <2>3, <3>1, <3>2
  <2>4. CASE w < i
    <3>1. /\ i - 1 \in 1..n /\ (i - 1) + 1 = i /\ (i - 1 = n <=> i = n + 1)
          /\ (w # 1 => w - 1 # i - 1)
      BY <1>1, <2>4
    <3>2. r[i] = s[i - 1]
      BY <1>3, <2>4
    <3>3. r[i] # pred
      BY <1>2, <1>8, <3>1, <3>2
    <3>4. M.next[r[i]] = L.next[s[i - 1]]
      BY <1>2, <3>1, <3>2, <3>3
    <3>5. L.next[s[i - 1]] = IF i - 1 = n THEN NULL ELSE s[(i - 1) + 1]
      BY <3>1 DEF Lists
    <3>6. i # n + 1 => i \in 1..n /\ w <= i /\ r[i + 1] = s[i]
      BY <1>1, <1>4, <2>4
    <3> QED BY <3>1, <3>4, <3>5, <3>6
  <2> QED BY <1>1, <2>1, <2>2, <2>3, <2>4
<1>13. M.head = IF n + 1 = 0 THEN NULL ELSE r[n + 1]
  <2>1. CASE w = n + 1
    BY <1>1, <1>4, <2>1
  <2>2. CASE w # n + 1
    <3>1. n \in 1..n /\ w <= n /\ n # 0 /\ n + 1 # 0
      BY <1>1, <2>2
    <3> QED BY <1>4, <2>2, <3>1 DEF Lists
  <2> QED BY <2>1, <2>2
<1>11. Lists(M, n + 1, r)
  BY <1>5, <1>6, <1>7, <1>9, <1>10, <1>13 DEF Lists
<1>12. ASSUME NEW j \in Object \ M.members PROVE M.prev[j] = NULL /\ M.next[j] = NULL
  <2>1. j # o /\ j \notin L.members /\ L.prev[j] = NULL /\ L.next[j] = NULL
    BY DEF Good
  <2>2. j # pred /\ j # succ
    BY <1>2, <1>8, <2>1, TimeslotAssumption
  <2> QED BY <2>1, <2>2
<1> QED BY <1>1, <1>3, <1>11, <1>12 DEF Good

-----------------------------------------------------------------------------
(* A set of numbers that is not empty has a smallest one. *)
LEMMA Smallest ==
    ASSUME NEW T, T \subseteq Nat, T # {}
    PROVE  \E x \in T : \A y \in T : x <= y
<1> DEFINE F == {1..x : x \in T}
           R == StrictSubsetOrdering(Nat)
<1>1. F \subseteq FiniteSubsetsOf(Nat)
  <2> SUFFICES ASSUME NEW x \in T PROVE 1..x \in FiniteSubsetsOf(Nat)
    OBVIOUS
  <2>1. IsFiniteSet(1..x)
    BY FS_Interval
  <2> QED BY <2>1 DEF FiniteSubsetsOf
<1>2. \E s \in F : \A u \in F : <<u, s>> \notin R
  <2>1. F # {}
    OBVIOUS
  <2>2. IsWellFoundedOn(R, FiniteSubsetsOf(Nat))
    BY FS_StrictSubsetOrderingWellFounded
  <2> HIDE DEF F, R
  <2> QED BY <1>1, <2>1, <2>2, WFMin
<1>3. PICK x \in T : \A y \in T : <<1..y, 1..x>> \notin R
  BY <1>2
<1>4. ASSUME NEW y \in T, y < x PROVE FALSE
  <2>1. x \in Nat /\ y \in Nat /\ x \in 1..x /\ x \notin 1..y
    BY <1>4
  <2>2. 1..y \subseteq 1..x /\ 1..x # 1..y /\ 1..x \subseteq Nat
    BY <1>4, <2>1
  <2>3. <<1..y, 1..x>> \in R
    BY <2>2 DEF StrictSubsetOrdering
  <2> QED BY <1>3, <2>3
<1> QED BY <1>3, <1>4

(* The search ends at the latest object that t is not before, or at the tail. *)
LEMMA NeighbourFound ==
    ASSUME NEW L \in ListType, NEW n \in Nat, n # 0, NEW s \in [1..n -> Object],
           Lists(L, n, s), NEW t \in Time
    PROVE  \E m \in 1..n : /\ Neighbour(L, t) = s[m]
                           /\ m = 1 \/ L.time[s[m]] <= t
                           /\ m # n => t < L.time[s[m + 1]]
<1> DEFINE T == {x \in 0..(n - 1) : ~Earlier(L, s[n - x], t)}
           Ends(o) == /\ ~Earlier(L, o, t)
                      /\ \A j \in L.members : L.prev[j] = o => Earlier(L, j, t)
<1>1. /\ \A i \in 1..n : s[i] \in Object /\ s[i] \in L.members /\ s[i] # NULL
      /\ \A i, j \in 1..n : s[i] = s[j] => i = j
      /\ \A i \in 1..n : L.prev[s[i]] = IF i = 1 THEN NULL ELSE s[i - 1]
  <2>1. /\ \A i \in 1..n : s[i] \in Object /\ s[i] \in L.members
        /\ \A i \in 1..n : L.prev[s[i]] = IF i = 1 THEN NULL ELSE s[i - 1]
    BY DEF Lists
  <2> QED BY <2>1, Positions, TimeslotAssumption
<1>2. \A i \in 1..n : L.time[s[i]] \in Nat
  <2>1. L.time \in [Object -> Time] /\ Time \subseteq Nat
    BY FieldTypes DEF Time
  <2> QED BY <1>1, <2>1
<1>3. n - 1 \in T
  <2>1. 1 \in 1..n /\ n - 1 \in 0..(n - 1) /\ n - (n - 1) = 1
    OBVIOUS
  <2>2. ~Earlier(L, s[1], t)
    BY <1>1, <2>1 DEF Earlier
  <2> QED BY <2>1, <2>2
<1>4. PICK x \in T : \A y \in T : x <= y
  <2>1. T \subseteq Nat /\ T # {}
    BY <1>3
  <2> HIDE DEF T
  <2> QED BY <2>1, Smallest
<1> DEFINE v == n - x
<1>5. v \in 1..n /\ Ends(s[v])
  <2>1. v \in 1..n /\ ~Earlier(L, s[v], t)
    BY <1>4
  <2>2. ASSUME NEW j \in L.members, L.prev[j] = s[v] PROVE Earlier(L, j, t)
    <3>1. PICK i \in 1..n : j = s[i]
      BY DEF Lists
    <3>2. i # 1 /\ s[i - 1] = s[v]
      BY <1>1, <2>1, <2>2, <3>1
    <3>3. i - 1 \in 1..n
      BY <3>2
    <3>4. i - 1 = v
      BY <1>1, <2>1, <3>2, <3>3
    <3>5. n - i \in 0..(n - 1) /\ n - i < x /\ n - (n - i) = i /\ x \in Nat
      BY <2>1, <3>4
    <3>6. n - i \notin T
      <4> HIDE DEF T
      <4>1. n - i \in Nat /\ ~(x <= n - i)
        BY <3>5
      <4> QED BY <1>4, <4>1
    <3> QED BY <3>1, <3>5, <3>6
  <2> QED BY <2>1, <2>2
<1>6. Neighbour(L, t) \in L.members /\ Ends(Neighbour(L, t))
  <2>1. Neighbour(L, t) = CHOOSE o \in L.members : Ends(o)
    BY DEF Neighbour
  <2>2. \E o \in L.members : Ends(o)
    BY <1>1, <1>5
  <2> HIDE DEF Ends
  <2> QED BY <2>1, <2>2
<1>7. PICK m \in 1..n : Neighbour(L, t) = s[m]
  BY <1>6 DEF Lists
<1>8. m = 1 \/ L.time[s[m]] <= t
  <2>1. t \in Nat
    BY DEF Time
  <2>2. m # 1 => m - 1 \in 1..n
    OBVIOUS
  <2>3. m # 1 => ~(t < L.time[s[m]])
    BY <1>1, <1>6, <1>7, <2>2 DEF Earlier
  <2> QED BY <1>2, <2>1, <2>3
<1>9. m # n => t < L.time[s[m + 1]]
  <2>1. m # n => m + 1 \in 1..n /\ m + 1 # 1 /\ (m + 1) - 1 = m
    OBVIOUS
  <2>2. m # n => L.prev[s[m + 1]] = s[m]
    BY <1>1, <2>1
  <2> QED BY <1>1, <1>6, <1>7, <2>1, <2>2 DEF Earlier
<1> QED BY <1>7, <1>8, <1>9

(* Adding an object leaves the others as they are. *)
LEMMA AddedGood ==
    ASSUME NEW L, Good(L), NEW o \in Object, o \notin L.members, NEW t \in Time
    PROVE  /\ Good(With(L, o, t))
           /\ With(L, o, t).members = L.members \cup {o}
           /\ \A j \in Object : With(L, o, t).time[j] = IF j = o THEN t ELSE L.time[j]
<1> DEFINE M == With(L, o, t)
<1>1. L \in ListType /\ L.prev[o] = NULL /\ L.next[o] = NULL
  BY DEF Good
<1>2. PICK n \in Nat : \E s \in [1..n -> Object] : Lists(L, n, s)
  BY DEF Good
<1>3. PICK s \in [1..n -> Object] : Lists(L, n, s)
  BY <1>2
<1>4. SUFFICES \E w \in 1..(n + 1) :
         /\ \A i \in 1..n : (i < w => L.time[s[i]] <= t) /\ (w <= i => t <= L.time[s[i]])
         /\ AddedBetween(L, o, t, IF w = 1 THEN NULL ELSE s[w - 1],
                                  IF w = n + 1 THEN NULL ELSE s[w], M)
  <2> HIDE DEF M
  <2>1. PICK w \in 1..(n + 1) :
         /\ \A i \in 1..n : (i < w => L.time[s[i]] <= t) /\ (w <= i => t <= L.time[s[i]])
         /\ AddedBetween(L, o, t, IF w = 1 THEN NULL ELSE s[w - 1],
                                  IF w = n + 1 THEN NULL ELSE s[w], M)
    BY <1>4
  <2>2. PICK y : y = IF w = 1 THEN NULL ELSE s[w - 1]
    OBVIOUS
  <2>3. PICK z : z = IF w = n + 1 THEN NULL ELSE s[w]
    OBVIOUS
  <2>4. AddedBetween(L, o, t, y, z, M)
    BY <2>1, <2>2, <2>3
  <2>5. Good(M)
    BY <1>3, <2>1, <2>2, <2>3, <2>4, BetweenGood
  <2>6. /\ M.members = L.members \cup {o}
        /\ \A j \in Object : M.time[j] = IF j = o THEN t ELSE L.time[j]
    BY <2>4 DEF AddedBetween
  <2> QED BY <2>5, <2>6 DEF M
<1> HIDE DEF M
<1>5. CASE n = 0
  <2>1. L.size = 0
    BY <1>3, <1>5 DEF Lists
  <2>2. AddedBetween(L, o, t, NULL, NULL, M)
    BY <1>1, <2>1, AddedFirst DEF M
  <2>3. 1 \in 1..(n + 1) /\ 1 = n + 1 /\ \A i \in 1..n : FALSE
    BY <1>5
  <2> QED BY <2>2, <2>3
<1>6. CASE n # 0
  <2>1. /\ \A i \in 1..n : s[i] \in Object /\ s[i] \in L.members /\ s[i] # o /\ s[i] # NULL
        /\ \A i, j \in 1..n : s[i] = s[j] => i = j
        /\ \A i \in 1..n : L.time[s[i]] \in Nat
        /\ t \in Nat
        /\ \A i, j \in 1..n : i < j => L.time[s[i]] <= L.time[s[j]]
        /\ L.tail = s[1] /\ L.head = s[n] /\ L.size = n /\ 1 \in 1..n /\ n \in 1..n
        /\ \A i \in 1..n : /\ L.prev[s[i]] = IF i = 1 THEN NULL ELSE s[i - 1]
                           /\ L.next[s[i]] = IF i = n THEN NULL ELSE s[i + 1]
    <3>1. \A i \in 1..n : s[i] \in Object /\ s[i] \in L.members /\ s[i] # o /\ s[i] # NULL
      BY <1>3, TimeslotAssumption DEF Lists
    <3>2. L.time \in [Object -> Time] /\ Time \subseteq Nat
      BY <1>1, FieldTypes DEF Time
    <3>3. 1 \in 1..n /\ n \in 1..n
      BY <1>6
    <3>4. \A i, j \in 1..n : s[i] = s[j] => i = j
      BY <1>3, Positions
    <3> QED BY <1>3, <1>6, <3>1, <3>2, <3>3, <3>4 DEF Lists
  <2>2. PICK m \in 1..n : /\ Neighbour(L, t) = s[m]
                          /\ m = 1 \/ L.time[s[m]] <= t
                          /\ m # n => t < L.time[s[m + 1]]
    BY <1>1, <1>3, <1>6, NeighbourFound
  <2>3. /\ m # 1 => m - 1 \in 1..n
        /\ m # n => m + 1 \in 1..n
        /\ m \in 1..(n + 1) /\ m # n + 1
        /\ m + 1 \in 1..(n + 1) /\ m + 1 # 1 /\ (m + 1) - 1 = m /\ (m + 1 = n + 1 <=> m = n)
    OBVIOUS
  <2>4. /\ L.prev[s[m]] # o /\ L.next[s[m]] # o
        /\ L.tail = s[m] <=> L.prev[s[m]] = NULL
        /\ L.head = s[m] <=> L.next[s[m]] = NULL
    BY <2>1, <2>3, TimeslotAssumption
  <2>5. CASE ~(t >= L.time[s[m]])
    <3>1. AddedBetween(L, o, t, L.prev[s[m]], s[m], M)
      BY <1>1, <1>6, <2>1, <2>2, <2>4, <2>5, AddedBefore DEF M
    <3>2. m = 1
      BY <2>1, <2>2, <2>5
    <3>3. \A i \in 1..n : ~(i < 1) /\ t <= L.time[s[i]]
      <4> SUFFICES ASSUME NEW i \in 1..n PROVE ~(i < 1) /\ t <= L.time[s[i]]
        OBVIOUS
      <4>1. i = 1 \/ 1 < i
        OBVIOUS
      <4>2. L.time[s[1]] <= L.time[s[i]]
        BY <2>1, <4>1
      <4> QED BY <2>1, <2>5, <3>2, <4>2
    <3>4. L.prev[s[1]] = NULL /\ 1 \in 1..(n + 1) /\ 1 # n + 1
      BY <1>6, <2>1
    <3> QED BY <3>1, <3>2, <3>3, <3>4
  <2>6. CASE t >= L.time[s[m]]
    <3>1. AddedBetween(L, o, t, s[m], L.next[s[m]], M)
      BY <1>1, <1>6, <2>1, <2>2, <2>4, <2>6, AddedBehind DEF M
    <3>2. \A i \in 1..n : i < m + 1 => L.time[s[i]] <= t
      <4> SUFFICES ASSUME NEW i \in 1..n, i < m + 1 PROVE L.time[s[i]] <= t
        OBVIOUS
      <4>1. i < m \/ i = m
        OBVIOUS
      <4>2. L.time[s[i]] <= L.time[s[m]]
        <5>1. CASE i < m
          BY <2>1, <5>1
        <5>2. CASE i = m
          BY <2>1, <5>2
        <5> QED BY <4>1, <5>1, <5>2
      <4>3. L.time[s[i]] \in Nat /\ L.time[s[m]] \in Nat /\ t \in Nat
        BY <2>1
      <4> QED BY <2>6, <4>2, <4>3
    <3>3. \A i \in 1..n : m + 1 <= i => t <= L.time[s[i]]
      <4> SUFFICES ASSUME NEW i \in 1..n, m + 1 <= i PROVE t <= L.time[s[i]]
        OBVIOUS
      <4>1. m # n /\ m + 1 \in 1..n /\ (m + 1 = i \/ m + 1 < i)
        OBVIOUS
      <4>2. L.time[s[m + 1]] <= L.time[s[i]]
        BY <2>1, <4>1
      <4>3. t < L.time[s[m + 1]]
        BY <2>2, <4>1
      <4>4. L.time[s[i]] \in Nat /\ L.time[s[m + 1]] \in Nat /\ t \in Nat
        BY <2>1, <4>1
      <4> QED BY <4>2, <4>3, <4>4
    <3>4. L.next[s[m]] = IF m = n THEN NULL ELSE s[m + 1]
      BY <2>1
    <3> QED BY <2>3, <3>1, <3>2, <3>3, <3>4
  <2> QED BY <2>5, <2>6
<1> QED BY <1>5, <1>6

-----------------------------------------------------------------------------
LEMMA ListFields ==
    /\ List.members = members /\ List.prev = prev /\ List.next = next
    /\ List.head = head /\ List.tail = tail /\ List.size = size
    /\ List.time = purge_time
BY DEF List

(* The tail is the earliest, and what the purge does to the head is what   *)
(* the deletion has done already.                                          *)
LEMMA TailFields ==
    ASSUME Good(List), tail # NULL
    PROVE  /\ tail \in members
           /\ \A j \in members : purge_time[tail] <= purge_time[j]
           /\ [Without(List, tail) EXCEPT !.head = IF tail = head THEN NULL ELSE head]
                 = Without(List, tail)
<1>1. PICK n \in Nat : \E s \in [1..n -> Object] : Lists(List, n, s)
  BY DEF Good
<1>2. PICK s \in [1..n -> Object] : Lists(List, n, s)
  BY <1>1
<1>3. /\ members = {s[i] : i \in 1..n}
      /\ \A i, j \in 1..n : i < j => purge_time[s[i]] <= purge_time[s[j]]
      /\ tail = IF n = 0 THEN NULL ELSE s[1]
      /\ \A i \in 1..n : prev[s[i]] = IF i = 1 THEN NULL ELSE s[i - 1]
  BY <1>2 DEF Lists, List
<1>4. purge_time \in [Object -> Time] /\ members \subseteq Object
  BY DEF Good, List, ListType
<1>5. n # 0 /\ 1 \in 1..n /\ tail = s[1]
  BY <1>3
<1>6. tail \in members /\ prev[tail] = NULL
  BY <1>3, <1>5
<1>7. ASSUME NEW j \in members PROVE purge_time[tail] <= purge_time[j]
  <2>1. PICK i \in 1..n : j = s[i]
    BY <1>3
  <2>2. i = 1 \/ 1 < i
    OBVIOUS
  <2>3. purge_time[j] \in Nat
    BY <1>4 DEF Time
  <2> QED BY <1>3, <1>5, <2>1, <2>2, <2>3
<1>8. [Without(List, tail) EXCEPT !.head = IF tail = head THEN NULL ELSE head]
         = Without(List, tail)
  <2> DEFINE h == IF tail = head THEN NULL ELSE head
             p == Link([prev EXCEPT ![tail] = NULL], next[tail], prev[tail])
             q == Link([next EXCEPT ![tail] = NULL], prev[tail], next[tail])
             t == [purge_time EXCEPT ![tail] = 0]
             M == [members |-> members \ {tail}, prev |-> p, next |-> q,
                   head |-> h, tail |-> next[tail], size |-> size - 1, time |-> t]
  <2>1. Without(List, tail) = M
    BY <1>6, ListFields DEF Without
  <2> HIDE DEF h, p, q, t
  <2>2. [M EXCEPT !.head = h] = M
    OBVIOUS
  <2> QED BY <2>1, <2>2 DEF h
<1> QED BY <1>6, <1>7, <1>8

(* A call leaves the list that it computed. *)
LEMMA Becomes ==
    ASSUME NEW L \in ListType, Become(L)
    PROVE  List' = L
BY DEF Become, List, ListType

(* What every call finds and leaves. *)
IInv == Good(List) /\ limit \in Time \cup {NULL}

LEMMA InitGood == Init => IInv
<1> SUFFICES ASSUME Init PROVE IInv
  OBVIOUS
<1>1. 0 \in Time /\ NULL \in Pointer
  BY TimeslotAssumption DEF Time, Pointer
<1>2. List \in ListType
  BY <1>1 DEF Init, List, ListType, Pointers, Pointer
<1>3. \A o \in Object : List.prev[o] = NULL /\ List.next[o] = NULL
  BY DEF Init, List
<1>4. \E s \in [1..0 -> Object] : Lists(List, 0, s)
  <2> DEFINE s == [i \in 1..0 |-> NULL]
  <2>1. \A i \in 1..0 : FALSE
    OBVIOUS
  <2>2. s \in [1..0 -> Object]
    BY <2>1
  <2>3. Lists(List, 0, s)
    BY <2>1 DEF Lists, List, Init
  <2> QED BY <2>2, <2>3
<1> QED BY <1>1, <1>2, <1>3, <1>4 DEF IInv, Good, Init

(* What a call makes of a good list. *)
LEMMA AddGood ==
    ASSUME Good(List), NEW o \in Object, NEW t \in Time,
           Become(With(Without(List, o), o, t))
    PROVE  /\ Good(List)'
           /\ members' = members \cup {o}
           /\ \A j \in Object : purge_time'[j] = IF j = o THEN t ELSE purge_time[j]
<1> DEFINE D == Without(List, o)
           M == With(D, o, t)
<1>1. /\ Good(D) /\ D.members = members \ {o}
      /\ \A j \in Object \ {o} : D.time[j] = purge_time[j]
  BY WithoutGood, ListFields
<1>2. Become(M)
  OBVIOUS
<1> HIDE DEF D
<1>3. /\ Good(M) /\ M.members = D.members \cup {o}
      /\ \A j \in Object : M.time[j] = IF j = o THEN t ELSE D.time[j]
  BY <1>1, AddedGood
<1> HIDE DEF M
<1>4. M \in ListType
  BY <1>3 DEF Good
<1>5. List' = M /\ members' = M.members /\ purge_time' = M.time
  BY <1>2, <1>4, Becomes DEF Become
<1>6. Good(List)' <=> Good(List')
  BY DEF Good, ListType, Lists
<1> QED BY <1>1, <1>3, <1>5, <1>6

LEMMA DeleteGood ==
    ASSUME Good(List), NEW o \in members, Become(Without(List, o))
    PROVE  /\ Good(List)'
           /\ members' = members \ {o}
           /\ \A j \in members \ {o} : purge_time'[j] = purge_time[j]
<1> DEFINE D == Without(List, o)
<1>1. members \subseteq Object
  BY ListFields DEF Good, ListType
<1>2. /\ Good(D) /\ D.members = members \ {o}
      /\ \A j \in Object \ {o} : D.time[j] = purge_time[j]
  BY <1>1, WithoutGood, ListFields
<1>3. Become(D)
  OBVIOUS
<1> HIDE DEF D
<1>4. D \in ListType
  BY <1>2 DEF Good
<1>5. List' = D /\ members' = D.members /\ purge_time' = D.time
  BY <1>3, <1>4, Becomes DEF Become
<1>6. Good(List)' <=> Good(List')
  BY DEF Good, ListType, Lists
<1> QED BY <1>1, <1>2, <1>5, <1>6

LEMMA PurgeIsDelete ==
    ASSUME Good(List), PurgeTail
    PROVE  /\ tail \in members
           /\ Become(Without(List, tail))
           /\ purge_time[tail] <= limit
           /\ \A j \in members : purge_time[tail] <= purge_time[j]
BY TailFields DEF PurgeTail, TailIsDue

LEMMA TimeOfAdd ==
    ASSUME NEW timestamp \in Time, NEW lifetime \in Lifetimes, timestamp + lifetime <= MaxTime
    PROVE  timestamp + lifetime \in Time
<1>1. timestamp \in Nat /\ lifetime \in Nat /\ MaxTime \in Nat
  BY TimeslotAssumption DEF Time
<1> QED BY <1>1 DEF Time

LEMMA StepGood == IInv /\ [Next]_vars => IInv'
<1> SUFFICES ASSUME IInv, [Next]_vars PROVE IInv'
  OBVIOUS
<1>0. Good(List) /\ limit \in Time \cup {NULL}
  BY DEF IInv
<1>1. ASSUME NEW o \in Object, NEW timestamp \in Time, NEW now \in Time,
             NEW lifetime \in Lifetimes, AddObject(o, timestamp, lifetime, now)
      PROVE  IInv'
  <2>1. timestamp + lifetime \in Time
    BY <1>1, TimeOfAdd DEF AddObject
  <2>2. Become(With(Without(List, o), o, timestamp + lifetime))
    BY <1>1 DEF AddObject
  <2>3. Good(List)'
    BY <1>0, <2>1, <2>2, AddGood
  <2>4. limit' \in Time \cup {NULL}
    BY <1>1 DEF AddObject
  <2> QED BY <2>3, <2>4 DEF IInv
<1>2. ASSUME NEW o \in Object, DeleteObject(o) PROVE IInv'
  BY <1>0, <1>2, DeleteGood DEF IInv, DeleteObject
<1>3. ASSUME UNCHANGED list PROVE Good(List)'
  <2>1. List' = List
    BY <1>3 DEF list, List
  <2>2. Good(List)' <=> Good(List')
    BY DEF Good, ListType, Lists
  <2> QED BY <1>0, <2>1, <2>2
<1>4. ASSUME NEW now \in Time, StartPurge(now) PROVE IInv'
  BY <1>3, <1>4 DEF IInv, StartPurge
<1>5. ASSUME PurgeTail PROVE IInv'
  <2>1. Good(List)'
    BY <1>0, <1>5, PurgeIsDelete, DeleteGood
  <2> QED BY <1>0, <1>5, <2>1 DEF IInv, PurgeTail
<1>6. ASSUME EndPurge PROVE IInv'
  BY <1>3, <1>6 DEF IInv, EndPurge
<1>7. ASSUME UNCHANGED vars PROVE IInv'
  BY <1>0, <1>3, <1>7 DEF IInv, vars, list
<1> QED BY <1>1, <1>2, <1>4, <1>5, <1>6, <1>7 DEF Next

LEMMA Invariance == Spec => []IInv
BY InitGood, StepGood, PTL DEF Spec

LEMMA GoodIsWellFormed == IInv => WellFormed
<1> SUFFICES ASSUME IInv PROVE WellFormed
  OBVIOUS
<1>1. PICK n \in Nat : \E s \in [1..n -> Object] : Lists(List, n, s)
  BY DEF IInv, Good
<1>2. PICK s \in [1..n -> Object] : Lists(List, n, s)
  BY <1>1
<1>3. members = {s[i] : i \in 1..n}
  BY <1>2, ListFields DEF Lists
<1>4. s \in [1..n -> members]
  BY <1>3
<1>5. \A i, j \in 1..n : s[i] = s[j] => i = j
  BY <1>2, Positions
<1>6. s \in Bijection(1..n, members)
  BY <1>3, <1>4, <1>5 DEF Bijection, Injection, Surjection, IsInjective
<1>7. Cardinality(members) = n
  BY <1>6, FS_CountingElements DEF ExistsBijection
<1> QED BY <1>2, <1>4, <1>7 DEF WellFormed

(* timeslot.c: after any sequence of calls, and between the rounds of a     *)
(* purge, the list holds what the hash holds, in the order of purge times,  *)
(* with the right ends and size and linked both ways.                       *)
THEOREM TimeslotIsWellFormed == Spec => []WellFormed
BY Invariance, GoodIsWellFormed, PTL

-----------------------------------------------------------------------------
(* The purge times that the hash shows. *)
Due == [o \in members |-> purge_time[o]]

(* Every call, and every round of a purge, is a step of the map of due times. *)
LEMMA StepMaps == IInv /\ [Next]_vars => [Abstract!Next]_<<Due, purged>>
<1> SUFFICES ASSUME IInv, [Next]_vars PROVE Abstract!Next \/ UNCHANGED <<Due, purged>>
  OBVIOUS
<1>0. /\ Good(List) /\ members \subseteq Object /\ Time \subseteq Nat
      /\ \A j \in members : purge_time[j] \in Time
      /\ limit # NULL => limit \in Time
  BY ListFields DEF IInv, Good, ListType, Time
<1>1. ASSUME NEW o \in Object, NEW timestamp \in Time, NEW now \in Time,
             NEW lifetime \in Lifetimes, AddObject(o, timestamp, lifetime, now)
      PROVE  Abstract!Next
  <2> DEFINE t == timestamp + lifetime
  <2>1. t \in Time /\ Become(With(Without(List, o), o, t)) /\ purged' = purged
    BY <1>1, TimeOfAdd DEF AddObject
  <2> HIDE DEF t
  <2>2. /\ members' = members \cup {o}
        /\ \A j \in Object : purge_time'[j] = IF j = o THEN t ELSE purge_time[j]
    BY <1>0, <2>1, AddGood
  <2>3. Due' = [j \in members \cup {o} |-> IF j = o THEN t ELSE Due[j]]
    BY <1>0, <2>2 DEF Due
  <2>4. Abstract!Set(o, t)
    BY <2>1, <2>3 DEF Abstract!Set, Due
  <2> QED BY <2>1, <2>4 DEF Abstract!Next
<1>2. ASSUME NEW o \in members, Become(Without(List, o))
      PROVE  Due' = [j \in members \ {o} |-> Due[j]]
  BY <1>0, <1>2, DeleteGood DEF Due
<1>3. ASSUME NEW o \in Object, DeleteObject(o) PROVE Abstract!Next
  <2>1. Abstract!Drop(o)
    BY <1>2, <1>3 DEF Abstract!Drop, Abstract!Without, DeleteObject, Due
  <2> QED BY <2>1 DEF Abstract!Next
<1>4. ASSUME PurgeTail PROVE Abstract!Next
  <2>1. /\ tail \in members
        /\ Become(Without(List, tail))
        /\ purge_time[tail] <= limit
        /\ \A j \in members : purge_time[tail] <= purge_time[j]
    BY <1>0, <1>4, PurgeIsDelete
  <2>2. PICK o \in Object : o = tail
    BY <1>0, <2>1
  <2>3. PICK t \in Time : t = limit
    BY <1>0, <1>4 DEF PurgeTail
  <2>4. /\ o \in members /\ Become(Without(List, o)) /\ purge_time[o] <= t
        /\ \A j \in members : purge_time[o] <= purge_time[j]
        /\ purged' = <<t, o>>
    BY <1>4, <2>1, <2>2, <2>3 DEF PurgeTail
  <2>5. Abstract!Take(o, t)
    BY <1>2, <2>4 DEF Abstract!Take, Abstract!IsDue, Abstract!Without, Due
  <2> QED BY <2>5 DEF Abstract!Next
<1>5. ASSUME EndPurge PROVE Abstract!Next
  <2>1. limit \in Time /\ ~TailIsDue
    BY <1>0, <1>5 DEF EndPurge
  <2>2. ASSUME NEW j \in members PROVE ~(purge_time[j] <= limit)
    <3>1. tail # NULL
      <4>1. PICK n \in Nat : \E s \in [1..n -> Object] : Lists(List, n, s)
        BY <1>0 DEF Good
      <4>2. PICK s \in [1..n -> Object] : Lists(List, n, s)
        BY <4>1
      <4>3. PICK i \in 1..n : j = s[i]
        BY <4>2, ListFields DEF Lists
      <4>4. n # 0 /\ 1 \in 1..n
        BY <4>3
      <4>5. tail = s[1]
        BY <4>2, <4>4, ListFields DEF Lists
      <4> QED BY <4>4, <4>5, TimeslotAssumption
    <3>2. tail \in members /\ purge_time[tail] <= purge_time[j]
      BY <1>0, <3>1, TailFields
    <3>3. ~(purge_time[tail] <= limit)
      BY <2>1, <3>1 DEF TailIsDue
    <3>4. purge_time[j] \in Nat /\ purge_time[tail] \in Nat /\ limit \in Nat
      BY <1>0, <2>1, <3>2
    <3> QED BY <3>2, <3>3, <3>4
  <2>3. Due' = Due
    BY <1>5 DEF EndPurge, list, Due
  <2>4. PICK t \in Time : t = limit
    BY <2>1
  <2>5. Abstract!TakeNothing(t)
    BY <1>5, <2>2, <2>3, <2>4 DEF Abstract!TakeNothing, Abstract!IsDue, EndPurge, Due
  <2> QED BY <2>5 DEF Abstract!Next
<1>6. ASSUME NEW now \in Time, StartPurge(now) PROVE UNCHANGED <<Due, purged>>
  BY <1>6 DEF StartPurge, list, Due
<1>7. ASSUME UNCHANGED vars PROVE UNCHANGED <<Due, purged>>
  BY <1>7 DEF vars, Due
<1> QED BY <1>1, <1>3, <1>4, <1>5, <1>6, <1>7 DEF Next

(* timeslot.c: to its users a timeslot is a map from objects to the times   *)
(* at which they are purged: an addition refreshes, a purge takes what is   *)
(* due, the earliest first, and ends only when nothing is.                  *)
THEOREM TimeslotIsDueMap == Spec => IsDueMap
<1>1. Init => Abstract!Init
  BY DEF Init, Abstract!Init
<1>2. IInv /\ [Next]_vars => [Abstract!Next]_<<Due, purged>>
  BY StepMaps
<1> QED BY <1>1, <1>2, Invariance, PTL DEF Spec, IsDueMap, Abstract!Spec, Due
=============================================================================

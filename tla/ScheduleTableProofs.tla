------------------------ MODULE ScheduleTableProofs ------------------------
(* The schedule table keeps its list and its hash table in agreement and    *)
(* implements the map of due times, for any keys and times.                 *)
EXTENDS ScheduleTable, FiniteSetTheorems, TLAPS

(* The values of a pointer, and of the pointers of all elements. *)
Pointer  == Key \cup {NULL}
Pointers == [Key -> Pointer]

ListType == [keys : SUBSET Key, first : Pointer,
             prev : Pointers, next : Pointers,
             ts : [Key -> Time]]

(* What every call finds and leaves: a list of some length, and no links    *)
(* from elements that are not in it.                                        *)
Good(L) ==
    /\ L \in ListType
    /\ \A k \in Key \ L.keys : L.prev[k] = NULL /\ L.next[k] = NULL
    /\ \E n \in Nat : \E s \in [1..n -> Key] : Lists(L, n, s)

LEMMA FieldTypes ==
    ASSUME NEW L \in ListType
    PROVE  /\ L.keys \in SUBSET Key /\ L.first \in Pointer
           /\ L.prev \in Pointers /\ L.next \in Pointers
           /\ L.ts \in [Key -> Time]
BY DEF ListType

(* Different positions hold different keys. *)
LEMMA Positions ==
    ASSUME NEW n \in Nat, NEW s \in [1..n -> Key], NEW L, Lists(L, n, s),
           NEW i \in 1..n, NEW j \in 1..n, s[i] = s[j]
    PROVE  i = j
<1>1. i \in Nat /\ j \in Nat /\ ~(i < j) /\ ~(j < i)
  BY DEF Lists
<1> QED BY <1>1

LEMMA LinkValue ==
    ASSUME NEW f \in Pointers, NEW k \in Pointer,
           NEW v \in Pointer
    PROVE  /\ Link(f, k, v) \in Pointers
           /\ \A j \in Key : Link(f, k, v)[j] = IF j = k THEN v ELSE f[j]
BY ScheduleTableAssumption DEF Link, Pointer, Pointers

-----------------------------------------------------------------------------
(* Dropping a schedule takes it out and leaves the others as they are. *)
LEMMA DroppedFields ==
    ASSUME NEW L \in ListType, NEW k \in L.keys, L.next[k] # k, L.prev[k] # k
    PROVE  /\ Dropped(L, k) \in ListType
           /\ Dropped(L, k).keys = L.keys \ {k}
           /\ Dropped(L, k).first = IF L.prev[k] = NULL THEN L.next[k] ELSE L.first
           /\ \A j \in Key : Dropped(L, k).prev[j] =
                 IF j = k THEN NULL ELSE IF j = L.next[k] THEN L.prev[k] ELSE L.prev[j]
           /\ \A j \in Key : Dropped(L, k).next[j] =
                 IF j = k THEN NULL ELSE IF j = L.prev[k] THEN L.next[k] ELSE L.next[j]
           /\ \A j \in Key : Dropped(L, k).ts[j] = IF j = k THEN 0 ELSE L.ts[j]
<1> DEFINE u == [L.prev EXCEPT ![k] = NULL]
           w == [L.next EXCEPT ![k] = NULL]
           p == Link(u, L.next[k], L.prev[k])
           q == Link(w, L.prev[k], L.next[k])
           t == [L.ts EXCEPT ![k] = 0]
           f == IF L.prev[k] = NULL THEN L.next[k] ELSE L.first
<1>1. /\ k \in Key /\ L.prev[k] \in Pointer /\ L.next[k] \in Pointer
      /\ L.keys \in SUBSET Key /\ f \in Pointer
      /\ u \in Pointers /\ \A j \in Key : u[j] = IF j = k THEN NULL ELSE L.prev[j]
      /\ w \in Pointers /\ \A j \in Key : w[j] = IF j = k THEN NULL ELSE L.next[j]
  BY FieldTypes DEF Pointer, Pointers
<1> HIDE DEF u, w
<1>2. /\ p \in Pointers
      /\ \A j \in Key : p[j] = IF j = L.next[k] THEN L.prev[k] ELSE u[j]
  <2>1. \A x, v \in Pointer :
           /\ Link(u, x, v) \in Pointers
           /\ \A j \in Key : Link(u, x, v)[j] = IF j = x THEN v ELSE u[j]
    BY <1>1, LinkValue
  <2> QED BY <1>1, <2>1
<1>3. /\ q \in Pointers
      /\ \A j \in Key : q[j] = IF j = L.prev[k] THEN L.next[k] ELSE w[j]
  <2>1. \A x, v \in Pointer :
           /\ Link(w, x, v) \in Pointers
           /\ \A j \in Key : Link(w, x, v)[j] = IF j = x THEN v ELSE w[j]
    BY <1>1, LinkValue
  <2> QED BY <1>1, <2>1
<1>4. 0 \in Time
  BY ScheduleTableAssumption DEF Time
<1>5. t \in [Key -> Time] /\ \A j \in Key : t[j] = IF j = k THEN 0 ELSE L.ts[j]
  BY <1>1, <1>4, FieldTypes
<1>6. \A j \in Key : p[j] = IF j = k THEN NULL ELSE IF j = L.next[k] THEN L.prev[k]
                            ELSE L.prev[j]
  BY <1>1, <1>2
<1>7. \A j \in Key : q[j] = IF j = k THEN NULL ELSE IF j = L.prev[k] THEN L.next[k]
                            ELSE L.next[j]
  BY <1>1, <1>3
<1>8. Dropped(L, k) = [keys |-> L.keys \ {k}, first |-> f, prev |-> p, next |-> q, ts |-> t]
  BY DEF Dropped, u, w
<1> HIDE DEF f, p, q, t
<1>9. Dropped(L, k) \in ListType
  BY <1>1, <1>2, <1>3, <1>5, <1>8 DEF ListType
<1>10. /\ Dropped(L, k).keys = L.keys \ {k} /\ Dropped(L, k).first = f
       /\ Dropped(L, k).prev = p /\ Dropped(L, k).next = q /\ Dropped(L, k).ts = t
  BY <1>8
<1> QED BY <1>5, <1>6, <1>7, <1>9, <1>10 DEF f

LEMMA DroppedGood ==
    ASSUME NEW L, Good(L), NEW k \in Key
    PROVE  /\ Good(Dropped(L, k))
           /\ Dropped(L, k).keys = L.keys \ {k}
           /\ \A j \in Key \ {k} : Dropped(L, k).ts[j] = L.ts[j]
<1>1. CASE k \notin L.keys
  BY <1>1 DEF Dropped
<1>2. CASE k \in L.keys
  <2>1. L \in ListType
    BY DEF Good
  <2>2. PICK n \in Nat : \E s \in [1..n -> Key] : Lists(L, n, s)
    BY DEF Good
  <2>3. PICK s \in [1..n -> Key] : Lists(L, n, s)
    BY <2>2
  <2>4. PICK p \in 1..n : s[p] = k
    BY <1>2, <2>3 DEF Lists
  <2> DEFINE M == Dropped(L, k)
             r == [i \in 1..(n - 1) |-> IF i < p THEN s[i] ELSE s[i + 1]]
             at(i) == IF i < p THEN i ELSE i + 1
  <2>5. n - 1 \in Nat /\ p \in Nat /\ n \in Nat
    BY <2>4
  <2>6. \A i \in 1..(n - 1) : at(i) \in 1..n /\ at(i) # p /\ i \in Nat
    BY <2>4, <2>5
  <2>7. r \in [1..(n - 1) -> Key] /\ \A i \in 1..(n - 1) : r[i] = s[at(i)]
    BY <2>3, <2>6
  <2>8. \A i, j \in 1..n : s[i] = s[j] => i = j
    BY <2>3, Positions
  <2>21. \A i \in 1..n : L.next[s[i]] = IF i = n THEN NULL ELSE s[i + 1]
    BY <2>3 DEF Lists
  <2>9. /\ L.prev[k] = IF p = 1 THEN NULL ELSE s[p - 1]
        /\ L.next[k] = IF p = n THEN NULL ELSE s[p + 1]
    BY <2>3, <2>4 DEF Lists
  <2>10. L.next[k] # k /\ L.prev[k] # k
    <3>1. p # 1 => p - 1 \in 1..n /\ p - 1 # p
      BY <2>4, <2>5
    <3>2. p # n => p + 1 \in 1..n /\ p + 1 # p
      BY <2>4, <2>5
    <3>3. k # NULL
      BY ScheduleTableAssumption
    <3> QED BY <2>4, <2>8, <2>9, <3>1, <3>2, <3>3
  <2>11. /\ M \in ListType /\ M.keys = L.keys \ {k}
         /\ M.first = IF L.prev[k] = NULL THEN L.next[k] ELSE L.first
         /\ \A j \in Key : M.prev[j] =
               IF j = k THEN NULL ELSE IF j = L.next[k] THEN L.prev[k] ELSE L.prev[j]
         /\ \A j \in Key : M.next[j] =
               IF j = k THEN NULL ELSE IF j = L.prev[k] THEN L.next[k] ELSE L.next[j]
         /\ \A j \in Key : M.ts[j] = IF j = k THEN 0 ELSE L.ts[j]
    BY <1>2, <2>1, <2>10, DroppedFields
  <2>22. \A j \in Key : j # k /\ j # L.prev[k] => M.next[j] = L.next[j]
    BY <2>11
  <2> HIDE DEF M
  <2>12. M.keys = {r[i] : i \in 1..(n - 1)}
    <3>1. ASSUME NEW x \in M.keys PROVE \E i \in 1..(n - 1) : r[i] = x
      <4>1. PICK i \in 1..n : x = s[i]
        BY <2>3, <2>11, <3>1 DEF Lists
      <4>2. i # p /\ i \in Nat
        BY <2>4, <2>11, <3>1, <4>1
      <4>3. CASE i < p
        <5>1. i \in 1..(n - 1) /\ at(i) = i
          BY <2>5, <4>2, <4>3, <2>4
        <5> QED BY <2>7, <4>1, <5>1
      <4>4. CASE i > p
        <5>1. i - 1 \in 1..(n - 1) /\ at(i - 1) = i
          BY <2>5, <4>2, <4>4, <2>4
        <5> QED BY <2>7, <4>1, <5>1
      <4> QED BY <2>5, <4>2, <4>3, <4>4
    <3>2. ASSUME NEW i \in 1..(n - 1) PROVE r[i] \in M.keys
      <4>1. PICK m \in 1..n : r[i] = s[m] /\ m # p
        BY <2>6, <2>7
      <4>2. s[m] # k
        BY <2>4, <2>8, <4>1
      <4>3. s[m] \in L.keys
        BY <2>3 DEF Lists
      <4>4. M.keys = L.keys \ {k}
        BY <2>11
      <4> QED BY <4>1, <4>2, <4>3, <4>4
    <3> HIDE DEF r, at
    <3> QED BY <3>1, <3>2
  <2>13. \A i \in 1..(n - 1) : r[i] \in Key /\ r[i] # k
    BY <2>4, <2>6, <2>7, <2>8
  <2>14. ASSUME NEW i \in 1..(n - 1), NEW j \in 1..(n - 1), i < j
         PROVE  r[i] # r[j] /\ M.ts[r[i]] <= M.ts[r[j]]
    <3>1. at(i) < at(j) /\ at(i) \in 1..n /\ at(j) \in 1..n
      BY <2>5, <2>6, <2>14
    <3>2. s[at(i)] # s[at(j)] /\ L.ts[s[at(i)]] <= L.ts[s[at(j)]]
      BY <2>3, <3>1 DEF Lists
    <3>3. M.ts[r[i]] = L.ts[r[i]] /\ M.ts[r[j]] = L.ts[r[j]]
      BY <2>11, <2>13
    <3> QED BY <2>7, <3>2, <3>3
  <2>15. M.first = IF n - 1 = 0 THEN NULL ELSE r[1]
    <3>1. CASE p = 1
      <4>1. M.first = IF n = 1 THEN NULL ELSE s[2]
        BY <2>5, <2>9, <2>11, <3>1
      <4>2. n # 1 => 1 \in 1..(n - 1) /\ at(1) = 2
        BY <2>4, <2>5, <3>1
      <4> QED BY <2>5, <2>7, <4>1, <4>2
    <3>2. CASE p # 1
      <4>1. p - 1 \in 1..n /\ n - 1 # 0 /\ 1 \in 1..(n - 1) /\ at(1) = 1 /\ n # 0
        BY <2>4, <2>5, <3>2
      <4>2. L.prev[k] # NULL
        BY <2>9, <3>2, <4>1, ScheduleTableAssumption
      <4>3. M.first = s[1]
        BY <2>3, <2>11, <4>1, <4>2 DEF Lists
      <4> QED BY <2>7, <4>1, <4>3
    <3> QED BY <3>1, <3>2
  <2>16. ASSUME NEW i \in 1..(n - 1)
         PROVE  M.prev[r[i]] = IF i = 1 THEN NULL ELSE r[i - 1]
    <3>0. i # 1 => i - 1 \in 1..(n - 1)
      BY <2>5
    <3>1. CASE i < p
      <4>1. r[i] = s[i] /\ i \in 1..n /\ (i # 1 => r[i - 1] = s[i - 1])
        BY <2>5, <2>6, <2>7, <3>0, <3>1
      <4>2. p # n => p + 1 \in 1..n /\ p + 1 # i
        BY <2>4, <2>5, <3>1
      <4>3. r[i] # L.next[k]
        BY <2>8, <2>9, <2>13, <4>1, <4>2, ScheduleTableAssumption
      <4>4. M.prev[r[i]] = L.prev[s[i]]
        BY <2>11, <2>13, <4>1, <4>3
      <4> QED BY <2>3, <4>1, <4>4 DEF Lists
    <3>2. CASE i = p
      <4>1. r[i] = s[p + 1] /\ p # n /\ (i # 1 => r[i - 1] = s[p - 1])
        BY <2>5, <2>6, <2>7, <3>0, <3>2
      <4>2. M.prev[r[i]] = L.prev[k]
        BY <2>9, <2>11, <2>13, <4>1
      <4> QED BY <2>9, <3>2, <4>1, <4>2
    <3>3. CASE i > p
      <4>1. r[i] = s[i + 1] /\ i # 1 /\ r[i - 1] = s[i] /\ i + 1 \in 1..n /\ i + 1 # 1
            /\ (i + 1) - 1 = i
        BY <2>4, <2>5, <2>6, <2>7, <3>0, <3>3
      <4>2. p # n => p + 1 \in 1..n /\ p + 1 # i + 1
        BY <2>4, <2>5, <3>3
      <4>3. r[i] # L.next[k]
        BY <2>8, <2>9, <2>13, <4>1, <4>2, ScheduleTableAssumption
      <4>4. M.prev[r[i]] = L.prev[s[i + 1]]
        BY <2>11, <2>13, <4>1, <4>3
      <4>5. L.prev[s[i + 1]] = s[i]
        BY <2>3, <4>1 DEF Lists
      <4> QED BY <4>1, <4>4, <4>5
    <3> QED BY <2>5, <3>1, <3>2, <3>3
  <2>17. ASSUME NEW i \in 1..(n - 1)
         PROVE  M.next[r[i]] = IF i = n - 1 THEN NULL ELSE r[i + 1]
    <3>0. i # n - 1 => i + 1 \in 1..(n - 1)
      BY <2>5
    <3>1. CASE i > p - 1
      <4>1. /\ r[i] = s[i + 1] /\ i + 1 \in 1..n /\ (i + 1 = n <=> i = n - 1)
            /\ (i # n - 1 => r[i + 1] = s[(i + 1) + 1])
        BY <2>4, <2>5, <2>6, <2>7, <3>0, <3>1
      <4>2. p # 1 => p - 1 \in 1..n /\ p - 1 # i + 1
        BY <2>4, <2>5, <3>1
      <4>3. r[i] # L.prev[k]
        BY <2>8, <2>9, <2>13, <4>1, <4>2, ScheduleTableAssumption
      <4>4. M.next[r[i]] = L.next[s[i + 1]]
        BY <2>13, <2>22, <4>1, <4>3
      <4>5. L.next[s[i + 1]] = IF i + 1 = n THEN NULL ELSE s[(i + 1) + 1]
        BY <2>21, <4>1
      <4> QED BY <4>1, <4>4, <4>5
    <3>2. CASE i = p - 1
      <4>1. /\ r[i] = s[p - 1] /\ p # 1 /\ (p = n <=> i = n - 1)
            /\ (i # n - 1 => r[i + 1] = s[p + 1])
        BY <2>4, <2>5, <2>6, <2>7, <3>0, <3>2
      <4>2. M.next[r[i]] = L.next[k]
        BY <2>9, <2>11, <2>13, <4>1
      <4> QED BY <2>9, <4>1, <4>2
    <3>3. CASE i < p - 1
      <4>1. r[i] = s[i] /\ i # n - 1 /\ i # n /\ r[i + 1] = s[i + 1] /\ i \in 1..n
        BY <2>4, <2>5, <2>6, <2>7, <3>0, <3>3
      <4>2. p # 1 => p - 1 \in 1..n /\ p - 1 # i
        BY <2>4, <2>5, <3>3
      <4>3. r[i] # L.prev[k]
        BY <2>8, <2>9, <2>13, <4>1, <4>2, ScheduleTableAssumption
      <4>4. M.next[r[i]] = L.next[s[i]]
        BY <2>11, <2>13, <4>1, <4>3
      <4> QED BY <2>3, <4>1, <4>4 DEF Lists
    <3> QED BY <2>5, <3>1, <3>2, <3>3
  <2>18. Lists(M, n - 1, r)
    BY <2>12, <2>14, <2>15, <2>16, <2>17 DEF Lists
  <2>19. ASSUME NEW j \in Key \ M.keys PROVE M.prev[j] = NULL /\ M.next[j] = NULL
    <3>1. CASE j = k
      BY <2>11, <3>1
    <3>2. CASE j # k
      <4>1. j \notin L.keys /\ L.prev[j] = NULL /\ L.next[j] = NULL
        BY <2>11, <3>2 DEF Good
      <4>2. /\ L.prev[k] \in L.keys \cup {NULL}
            /\ L.next[k] \in L.keys \cup {NULL}
        <5>1. /\ p # 1 => p - 1 \in 1..n
              /\ p # n => p + 1 \in 1..n
          BY <2>4, <2>5
        <5> QED BY <2>3, <2>9, <5>1 DEF Lists
      <4>3. j # L.prev[k] /\ j # L.next[k]
        BY <4>1, <4>2, ScheduleTableAssumption
      <4> QED BY <2>11, <3>2, <4>1, <4>3
    <3> QED BY <3>1, <3>2
  <2>20. Good(M)
    BY <2>5, <2>7, <2>11, <2>18, <2>19 DEF Good
  <2> QED BY <2>11, <2>20 DEF M
<1> QED BY <1>1, <1>2

-----------------------------------------------------------------------------
(* What an insertion writes, for the neighbours it chooses. *)
InsertedBetween(L, k, t, pred, succ, M) ==
    /\ M \in ListType
    /\ M.keys = L.keys \cup {k}
    /\ M.first = IF pred = NULL THEN k ELSE L.first
    /\ \A j \in Key : M.prev[j] =
          IF j = k THEN pred ELSE IF j = succ THEN k ELSE L.prev[j]
    /\ \A j \in Key : M.next[j] =
          IF j = k THEN succ ELSE IF j = pred THEN k ELSE L.next[j]
    /\ \A j \in Key : M.ts[j] = IF j = k THEN t ELSE L.ts[j]

LEMMA InsertedFirst ==
    ASSUME NEW L \in ListType, NEW k \in Key, NEW t \in Time, L.first = NULL,
           L.prev[k] = NULL, L.next[k] = NULL
    PROVE  InsertedBetween(L, k, t, NULL, NULL, Inserted(L, k, t))
<1> DEFINE u == [L.ts EXCEPT ![k] = t]
           M == [keys |-> L.keys \cup {k}, first |-> k,
                 prev |-> L.prev, next |-> L.next, ts |-> u]
<1>1. u \in [Key -> Time] /\ \A j \in Key : u[j] = IF j = k THEN t ELSE L.ts[j]
  BY FieldTypes
<1>2. Inserted(L, k, t) = M
  BY DEF Inserted, ListType
<1> HIDE DEF u
<1>3. M \in ListType
  BY <1>1, FieldTypes DEF ListType, Pointer
<1>4. k # NULL /\ \A j \in Key : j # NULL
  BY ScheduleTableAssumption
<1>5. InsertedBetween(L, k, t, NULL, NULL, M)
  BY <1>1, <1>3, <1>4 DEF InsertedBetween
<1> QED BY <1>2, <1>5

LEMMA InsertedBefore ==
    ASSUME NEW L \in ListType, NEW k \in Key, NEW t \in Time, L.first # NULL,
           NEW at \in Key, at = Place(L, t), L.ts[at] > t, at # k, L.prev[at] # k
    PROVE  InsertedBetween(L, k, t, L.prev[at], at, Inserted(L, k, t))
<1> DEFINE u == [L.ts EXCEPT ![k] = t]
           p == [L.prev EXCEPT ![k] = L.prev[at], ![at] = k]
           w == [L.next EXCEPT ![k] = at]
           q == Link(w, L.prev[at], k)
           f == IF L.prev[at] = NULL THEN k ELSE L.first
           M == [keys |-> L.keys \cup {k}, first |-> f, prev |-> p, next |-> q, ts |-> u]
<1>1. u \in [Key -> Time] /\ \A j \in Key : u[j] = IF j = k THEN t ELSE L.ts[j]
  BY FieldTypes
<1>9. /\ L.prev \in Pointers /\ L.next \in Pointers /\ L.first \in Pointer
      /\ k \in Pointer /\ at \in Pointer
  BY FieldTypes DEF Pointer
<1>2. /\ L.prev[at] \in Pointer /\ f \in Pointer
      /\ p \in Pointers /\ w \in Pointers
      /\ \A j \in Key : p[j] = IF j = k THEN L.prev[at] ELSE IF j = at THEN k ELSE L.prev[j]
      /\ \A j \in Key : w[j] = IF j = k THEN at ELSE L.next[j]
  BY <1>9 DEF Pointers
<1>3. Inserted(L, k, t) = M
  BY DEF Inserted, ListType
<1> HIDE DEF u, p, w, f, M
<1>4. /\ q \in Pointers
      /\ \A j \in Key : q[j] = IF j = L.prev[at] THEN k ELSE w[j]
  <2>1. \A x, v \in Pointer : /\ Link(w, x, v) \in Pointers
                              /\ \A j \in Key : Link(w, x, v)[j] = IF j = x THEN v ELSE w[j]
    BY <1>2, LinkValue
  <2> QED BY <1>2, <1>9, <2>1
<1> HIDE DEF q
<1>5. M \in ListType
  BY <1>1, <1>2, <1>4, FieldTypes DEF ListType, M
<1>6. \A j \in Key : q[j] = IF j = k THEN at ELSE IF j = L.prev[at] THEN k ELSE L.next[j]
  BY <1>2, <1>4
<1>7. InsertedBetween(L, k, t, L.prev[at], at, M)
  BY <1>1, <1>2, <1>5, <1>6 DEF InsertedBetween, f, M
<1> QED BY <1>3, <1>7 DEF M

LEMMA InsertedBehind ==
    ASSUME NEW L \in ListType, NEW k \in Key, NEW t \in Time, L.first # NULL,
           NEW at \in Key, at = Place(L, t), ~(L.ts[at] > t), at # k, L.next[at] # k
    PROVE  InsertedBetween(L, k, t, at, L.next[at], Inserted(L, k, t))
<1> DEFINE u == [L.ts EXCEPT ![k] = t]
           q == [L.next EXCEPT ![k] = L.next[at], ![at] = k]
           w == [L.prev EXCEPT ![k] = at]
           p == Link(w, L.next[at], k)
           M == [keys |-> L.keys \cup {k}, first |-> L.first, prev |-> p, next |-> q, ts |-> u]
<1>1. u \in [Key -> Time] /\ \A j \in Key : u[j] = IF j = k THEN t ELSE L.ts[j]
  BY FieldTypes
<1>9. L.prev \in Pointers /\ L.next \in Pointers /\ k \in Pointer /\ at \in Pointer
  BY FieldTypes DEF Pointer
<1>2. /\ L.next[at] \in Pointer
      /\ q \in Pointers /\ w \in Pointers
      /\ \A j \in Key : q[j] = IF j = k THEN L.next[at] ELSE IF j = at THEN k ELSE L.next[j]
      /\ \A j \in Key : w[j] = IF j = k THEN at ELSE L.prev[j]
  BY <1>9 DEF Pointers
<1>3. Inserted(L, k, t) = M
  BY DEF Inserted, ListType
<1> HIDE DEF u, q, w, M
<1>4. /\ p \in Pointers
      /\ \A j \in Key : p[j] = IF j = L.next[at] THEN k ELSE w[j]
  <2>1. \A x, v \in Pointer : /\ Link(w, x, v) \in Pointers
                              /\ \A j \in Key : Link(w, x, v)[j] = IF j = x THEN v ELSE w[j]
    BY <1>2, LinkValue
  <2> QED BY <1>2, <1>9, <2>1
<1> HIDE DEF p
<1>5. M \in ListType
  BY <1>1, <1>2, <1>4, FieldTypes DEF ListType, M
<1>6. \A j \in Key : p[j] = IF j = k THEN at ELSE IF j = L.next[at] THEN k ELSE L.prev[j]
  BY <1>2, <1>4
<1>7. at # NULL
  BY ScheduleTableAssumption
<1>8. InsertedBetween(L, k, t, at, L.next[at], M)
  BY <1>1, <1>2, <1>5, <1>6, <1>7 DEF InsertedBetween, M
<1> QED BY <1>3, <1>8 DEF M

(* An element put between two neighbours of a list, in order, makes a list. *)
LEMMA BetweenGood ==
    ASSUME NEW L, Good(L), NEW n \in Nat, NEW s \in [1..n -> Key], Lists(L, n, s),
           NEW k \in Key, k \notin L.keys, NEW t \in Time, NEW w \in 1..(n + 1),
           NEW pred, pred = IF w = 1 THEN NULL ELSE s[w - 1],
           NEW succ, succ = IF w = n + 1 THEN NULL ELSE s[w],
           \A i \in 1..n : /\ i < w => L.ts[s[i]] <= t
                           /\ w <= i => t <= L.ts[s[i]],
           NEW M, InsertedBetween(L, k, t, pred, succ, M)
    PROVE  Good(M)
<1> DEFINE r == [i \in 1..(n + 1) |-> IF i < w THEN s[i] ELSE IF i = w THEN k ELSE s[i - 1]]
<1>0. /\ M \in ListType /\ M.keys = L.keys \cup {k}
      /\ M.first = IF w = 1 THEN k ELSE L.first
      /\ \A j \in Key : M.prev[j] =
            IF j = k THEN pred ELSE IF j = succ THEN k ELSE L.prev[j]
      /\ \A j \in Key : M.next[j] =
            IF j = k THEN succ ELSE IF j = pred THEN k ELSE L.next[j]
      /\ \A j \in Key : M.ts[j] = IF j = k THEN t ELSE L.ts[j]
  <2>1. w # 1 => w - 1 \in 1..n
    OBVIOUS
  <2>2. pred = NULL <=> w = 1
    BY <2>1, ScheduleTableAssumption
  <2> QED BY <2>2 DEF InsertedBetween
<1> USE <1>0
<1>1. n \in Nat /\ w \in Nat /\ 1 <= w /\ w <= n + 1 /\ n + 1 \in Nat /\ k # NULL
  BY ScheduleTableAssumption
<1>2. /\ \A i \in 1..n : s[i] \in Key /\ s[i] \in L.keys /\ s[i] # k /\ s[i] # NULL
      /\ \A i, j \in 1..n : s[i] = s[j] => i = j
  <2>1. \A i \in 1..n : s[i] \in Key /\ s[i] \in L.keys
    BY DEF Lists
  <2> QED BY <2>1, Positions, ScheduleTableAssumption
<1>3. /\ r \in [1..(n + 1) -> Key]
      /\ \A i \in 1..(n + 1) : /\ i < w => i \in 1..n /\ r[i] = s[i]
                               /\ i = w => r[i] = k
                               /\ w < i => i - 1 \in 1..n /\ r[i] = s[i - 1]
  <2>1. \A i \in 1..(n + 1) : (i < w => i \in 1..n) /\ (w < i => i - 1 \in 1..n)
    BY <1>1
  <2> QED BY <1>1, <1>2, <2>1
<1>4. /\ \A i \in 1..n : i < w => i \in 1..(n + 1) /\ r[i] = s[i]
      /\ w \in 1..(n + 1) /\ r[w] = k
      /\ \A i \in 1..n : w <= i => i + 1 \in 1..(n + 1) /\ r[i + 1] = s[i]
  <2>1. \A i \in 1..n : /\ i \in 1..(n + 1) /\ i + 1 \in 1..(n + 1)
                        /\ (i + 1) - 1 = i /\ (w <= i => w < i + 1)
    BY <1>1
  <2> QED BY <1>1, <1>3, <2>1
<1> HIDE DEF r
<1>5. M.keys = {r[i] : i \in 1..(n + 1)}
  <2>1. ASSUME NEW x \in M.keys PROVE \E i \in 1..(n + 1) : x = r[i]
    <3>1. CASE x = k
      BY <1>4, <3>1
    <3>2. CASE x # k
      <4>1. PICK i \in 1..n : x = s[i]
        BY <2>1, <3>2 DEF Lists
      <4>2. i < w \/ w <= i
        BY <1>1
      <4> QED BY <1>4, <4>1, <4>2
    <3> QED BY <3>1, <3>2
  <2>2. ASSUME NEW i \in 1..(n + 1) PROVE r[i] \in M.keys
    <3>1. i < w \/ i = w \/ w < i
      BY <1>1
    <3> QED BY <1>2, <1>3, <3>1
  <2> QED BY <2>1, <2>2
<1>6. ASSUME NEW i \in 1..(n + 1), NEW j \in 1..(n + 1), i < j
      PROVE  r[i] # r[j] /\ M.ts[r[i]] <= M.ts[r[j]]
  <2>1. /\ \A x \in 1..n : M.ts[s[x]] = L.ts[s[x]]
        /\ M.ts[k] = t
        /\ \A x, y \in 1..n : x < y => s[x] # s[y] /\ L.ts[s[x]] <= L.ts[s[y]]
    BY <1>2 DEF Lists
  <2>2. CASE j < w
    <3>1. i < w
      BY <1>1, <1>6, <2>2
    <3> QED BY <1>3, <1>6, <2>1, <2>2, <3>1
  <2>3. CASE j = w
    <3>1. i < w
      BY <1>1, <1>6, <2>3
    <3>2. i \in 1..n /\ r[i] = s[i] /\ r[j] = k /\ L.ts[s[i]] <= t
      BY <1>3, <2>3, <3>1
    <3> QED BY <1>2, <2>1, <3>2
  <2>4. CASE w < j /\ i < w
    <3>2. i \in 1..n /\ j - 1 \in 1..n /\ i < j - 1
      BY <1>1, <1>3, <2>4
    <3>3. r[i] = s[i] /\ r[j] = s[j - 1]
      BY <1>3, <2>4
    <3> QED BY <2>1, <3>2, <3>3
  <2>5. CASE w < j /\ i = w
    <3>1. j - 1 \in 1..n /\ w <= j - 1
      BY <1>1, <1>3, <2>5
    <3>2. r[i] = k /\ r[j] = s[j - 1] /\ t <= L.ts[s[j - 1]]
      BY <1>3, <2>5, <3>1
    <3> QED BY <1>2, <2>1, <3>1, <3>2
  <2>6. CASE w < j /\ w < i
    <3>1. i - 1 \in 1..n /\ j - 1 \in 1..n /\ i - 1 < j - 1
      BY <1>1, <1>3, <1>6, <2>6
    <3>2. r[i] = s[i - 1] /\ r[j] = s[j - 1]
      BY <1>3, <2>6
    <3> QED BY <2>1, <3>1, <3>2
  <2> QED BY <1>1, <2>2, <2>3, <2>4, <2>5, <2>6
<1>7. M.first = IF n + 1 = 0 THEN NULL ELSE r[1]
  <2>1. CASE w = 1
    BY <1>1, <1>4, <2>1
  <2>2. CASE w # 1
    <3>1. 1 \in 1..n /\ 1 < w /\ n # 0
      BY <1>1, <2>2
    <3> QED BY <1>1, <1>4, <2>2, <3>1 DEF Lists
  <2> QED BY <2>1, <2>2
<1>8. /\ w # 1 => w - 1 \in 1..n /\ pred = s[w - 1] /\ pred # k
      /\ w = 1 => pred = NULL
      /\ w # n + 1 => w \in 1..n /\ succ = s[w] /\ succ # k
      /\ w = n + 1 => succ = NULL
  <2>1. (w # 1 => w - 1 \in 1..n) /\ (w # n + 1 => w \in 1..n)
    BY <1>1
  <2> QED BY <1>2, <2>1
<1>9. ASSUME NEW i \in 1..(n + 1)
      PROVE  M.prev[r[i]] = IF i = 1 THEN NULL ELSE r[i - 1]
  <2>1. CASE i < w
    <3>1. i \in 1..n /\ r[i] = s[i] /\ (i # 1 => i - 1 \in 1..n /\ i - 1 < w)
      BY <1>1, <1>3, <2>1
    <3>2. r[i] # succ
      BY <1>1, <1>2, <1>8, <2>1, <3>1
    <3>3. M.prev[r[i]] = L.prev[s[i]]
      BY <1>2, <3>1, <3>2
    <3>4. i # 1 => r[i - 1] = s[i - 1]
      BY <1>4, <3>1
    <3> QED BY <3>1, <3>3, <3>4 DEF Lists
  <2>2. CASE i = w
    <3>1. M.prev[r[i]] = pred
      BY <1>3, <2>2
    <3>2. w # 1 => r[w - 1] = s[w - 1]
      <4>1. w - 1 < w
        BY <1>1
      <4> QED BY <1>4, <1>8, <4>1
    <3> QED BY <1>8, <2>2, <3>1, <3>2
  <2>3. CASE i = w + 1
    <3>1. i - 1 = w /\ w < i /\ i # 1
      BY <1>1, <2>3
    <3>2. r[i] = s[w] /\ w \in 1..n
      BY <1>3, <3>1
    <3>3. w # n + 1
      BY <1>1, <3>2
    <3>4. r[i] = succ /\ r[i] \in Key /\ r[i] # k
      BY <1>2, <1>8, <3>2, <3>3
    <3> QED BY <1>4, <3>1, <3>4
  <2>4. CASE w + 1 < i
    <3>1. /\ w < i /\ i # 1 /\ i - 1 \in 1..n /\ (i - 1) - 1 \in 1..n /\ w < i - 1
          /\ i - 1 \in 1..(n + 1) /\ i - 1 # 1 /\ w # i - 1
      BY <1>1, <2>4
    <3>2. r[i] = s[i - 1] /\ r[i - 1] = s[(i - 1) - 1]
      BY <1>3, <3>1
    <3>3. r[i] # succ
      BY <1>2, <1>8, <3>1, <3>2
    <3>4. M.prev[r[i]] = L.prev[s[i - 1]]
      BY <1>2, <3>1, <3>2, <3>3
    <3>5. L.prev[s[i - 1]] = s[(i - 1) - 1]
      BY <3>1 DEF Lists
    <3> QED BY <3>1, <3>2, <3>4, <3>5
  <2> QED BY <1>1, <2>1, <2>2, <2>3, <2>4
<1>10. ASSUME NEW i \in 1..(n + 1)
       PROVE  M.next[r[i]] = IF i = n + 1 THEN NULL ELSE r[i + 1]
  <2>1. CASE i < w - 1
    <3>1. i \in 1..n /\ i + 1 \in 1..n /\ i < w /\ i + 1 < w /\ i # n + 1 /\ i # w - 1 /\ i # n
      BY <1>1, <2>1
    <3>2. r[i] = s[i] /\ r[i + 1] = s[i + 1]
      BY <1>4, <3>1
    <3>3. r[i] # pred
      BY <1>2, <1>8, <3>1, <3>2
    <3>4. M.next[r[i]] = L.next[s[i]]
      BY <1>2, <3>1, <3>2, <3>3
    <3>5. L.next[s[i]] = s[i + 1]
      BY <3>1 DEF Lists
    <3> QED BY <3>1, <3>2, <3>4, <3>5
  <2>2. CASE i = w - 1
    <3>1. i \in 1..n /\ i < w /\ w # 1 /\ i + 1 = w /\ i # n + 1
      BY <1>1, <2>2
    <3>2. r[i] = pred /\ r[i] \in Key /\ r[i] # k
      BY <1>2, <1>4, <1>8, <2>2, <3>1
    <3> QED BY <1>4, <3>1, <3>2
  <2>3. CASE i = w
    <3>1. M.next[r[i]] = succ
      BY <1>3, <2>3
    <3>2. w # n + 1 => r[w + 1] = s[w]
      BY <1>1, <1>4, <1>8
    <3> QED BY <1>8, <2>3, <3>1, <3>2
  <2>4. CASE w < i
    <3>1. /\ i - 1 \in 1..n /\ (i - 1) + 1 = i /\ (i - 1 = n <=> i = n + 1)
          /\ (w # 1 => w - 1 # i - 1)
      BY <1>1, <2>4
    <3>2. r[i] = s[i - 1]
      BY <1>3, <2>4
    <3>3. r[i] # pred
      BY <1>2, <1>8, <3>1, <3>2
    <3>4. M.next[r[i]] = L.next[s[i - 1]]
      BY <1>2, <3>1, <3>2, <3>3
    <3>5. L.next[s[i - 1]] = IF i - 1 = n THEN NULL ELSE s[(i - 1) + 1]
      BY <3>1 DEF Lists
    <3>6. i # n + 1 => i \in 1..n /\ w <= i /\ r[i + 1] = s[i]
      BY <1>1, <1>4, <2>4
    <3> QED BY <3>1, <3>4, <3>5, <3>6
  <2> QED BY <1>1, <2>1, <2>2, <2>3, <2>4
<1>11. Lists(M, n + 1, r)
  BY <1>5, <1>6, <1>7, <1>9, <1>10 DEF Lists
<1>12. ASSUME NEW j \in Key \ M.keys PROVE M.prev[j] = NULL /\ M.next[j] = NULL
  <2>1. j # k /\ j \notin L.keys /\ L.prev[j] = NULL /\ L.next[j] = NULL
    BY DEF Good
  <2>2. j # pred /\ j # succ
    BY <1>2, <1>8, <2>1, ScheduleTableAssumption
  <2> QED BY <2>1, <2>2
<1> QED BY <1>1, <1>3, <1>11, <1>12 DEF Good

-----------------------------------------------------------------------------
(* A set of numbers that is not empty has a smallest one. *)
LEMMA Smallest ==
    ASSUME NEW T, T \subseteq Nat, T # {}
    PROVE  \E x \in T : \A y \in T : x <= y
<1> DEFINE F == {1..x : x \in T}
           R == StrictSubsetOrdering(Nat)
<1>1. F \subseteq FiniteSubsetsOf(Nat)
  <2> SUFFICES ASSUME NEW x \in T PROVE 1..x \in FiniteSubsetsOf(Nat)
    OBVIOUS
  <2>1. IsFiniteSet(1..x)
    BY FS_Interval
  <2> QED BY <2>1 DEF FiniteSubsetsOf
<1>2. \E s \in F : \A u \in F : <<u, s>> \notin R
  <2>1. F # {}
    OBVIOUS
  <2>2. IsWellFoundedOn(R, FiniteSubsetsOf(Nat))
    BY FS_StrictSubsetOrderingWellFounded
  <2> HIDE DEF F, R
  <2> QED BY <1>1, <2>1, <2>2, WFMin
<1>3. PICK x \in T : \A y \in T : <<1..y, 1..x>> \notin R
  BY <1>2
<1>4. ASSUME NEW y \in T, y < x PROVE FALSE
  <2>1. x \in Nat /\ y \in Nat /\ x \in 1..x /\ x \notin 1..y
    BY <1>4
  <2>2. 1..y \subseteq 1..x /\ 1..x # 1..y /\ 1..x \subseteq Nat
    BY <1>4, <2>1
  <2>3. <<1..y, 1..x>> \in R
    BY <2>2 DEF StrictSubsetOrdering
  <2> QED BY <1>3, <2>3
<1> QED BY <1>3, <1>4

(* The search for a place ends behind all that are due before t. *)
LEMMA PlaceFound ==
    ASSUME NEW L \in ListType, NEW n \in Nat, n # 0, NEW s \in [1..n -> Key], Lists(L, n, s),
           NEW t \in Time
    PROVE  \E m \in 1..n : /\ Place(L, t) = s[m]
                           /\ m = n \/ t <= L.ts[s[m]]
                           /\ m # 1 => L.ts[s[m - 1]] < t
<1> DEFINE T == {i \in 1..n : ~Passes(L, s[i], t)}
           Ends(k) == /\ ~Passes(L, k, t)
                      /\ \A j \in L.keys : L.next[j] = k => Passes(L, j, t)
<1>1. /\ \A i \in 1..n : s[i] \in Key /\ s[i] \in L.keys /\ s[i] # NULL
      /\ \A i, j \in 1..n : s[i] = s[j] => i = j
      /\ \A i \in 1..n : L.next[s[i]] = IF i = n THEN NULL ELSE s[i + 1]
  <2>1. /\ \A i \in 1..n : s[i] \in Key /\ s[i] \in L.keys
        /\ \A i \in 1..n : L.next[s[i]] = IF i = n THEN NULL ELSE s[i + 1]
    BY DEF Lists
  <2> QED BY <2>1, Positions, ScheduleTableAssumption
<1>2. \A i \in 1..n : L.ts[s[i]] \in Nat
  <2>1. L.ts \in [Key -> Time] /\ Time \subseteq Nat
    BY FieldTypes DEF Time
  <2> QED BY <1>1, <2>1
<1>3. n \in T
  <2>1. n \in 1..n
    OBVIOUS
  <2> QED BY <1>1, <2>1 DEF Passes
<1>4. PICK x \in T : \A y \in T : x <= y
  <2>1. T \subseteq Nat /\ T # {}
    BY <1>3
  <2> HIDE DEF T
  <2> QED BY <2>1, Smallest
<1>5. Ends(s[x])
  <2>1. ASSUME NEW j \in L.keys, L.next[j] = s[x] PROVE Passes(L, j, t)
    <3>1. PICK i \in 1..n : j = s[i]
      BY DEF Lists
    <3>2. i # n /\ s[i + 1] = s[x]
      BY <1>1, <2>1, <3>1
    <3>3. i + 1 \in 1..n
      BY <3>2
    <3>4. i + 1 = x
      BY <1>1, <3>2, <3>3
    <3>5. i \notin T
      BY <1>4, <3>4
    <3> QED BY <3>1, <3>5
  <2> QED BY <2>1
<1>6. Place(L, t) \in L.keys /\ Ends(Place(L, t))
  <2>1. Place(L, t) = CHOOSE k \in L.keys : Ends(k)
    BY DEF Place
  <2>2. \E k \in L.keys : Ends(k)
    BY <1>1, <1>5
  <2> HIDE DEF Ends
  <2> QED BY <2>1, <2>2
<1>7. PICK m \in 1..n : Place(L, t) = s[m]
  BY <1>6 DEF Lists
<1>8. m = n \/ t <= L.ts[s[m]]
  <2>1. t \in Nat
    BY DEF Time
  <2>2. m # n => m + 1 \in 1..n
    OBVIOUS
  <2>3. m # n => ~(t > L.ts[s[m]])
    BY <1>1, <1>6, <1>7, <2>2 DEF Passes
  <2> QED BY <1>2, <2>1, <2>3
<1>9. m # 1 => L.ts[s[m - 1]] < t
  <2>1. t \in Nat
    BY DEF Time
  <2>2. m # 1 => m - 1 \in 1..n /\ m - 1 # n /\ (m - 1) + 1 = m
    OBVIOUS
  <2>3. m # 1 => L.next[s[m - 1]] = s[m]
    BY <1>1, <2>2
  <2>4. m # 1 => t > L.ts[s[m - 1]]
    BY <1>1, <1>6, <1>7, <2>2, <2>3 DEF Passes
  <2> QED BY <1>2, <2>1, <2>2, <2>4
<1> QED BY <1>7, <1>8, <1>9

(* Inserting adds a schedule and leaves the others as they are. *)
LEMMA InsertedGood ==
    ASSUME NEW L, Good(L), NEW k \in Key, k \notin L.keys, NEW t \in Time
    PROVE  /\ Good(Inserted(L, k, t))
           /\ Inserted(L, k, t).keys = L.keys \cup {k}
           /\ \A j \in Key : Inserted(L, k, t).ts[j] = IF j = k THEN t ELSE L.ts[j]
<1> DEFINE M == Inserted(L, k, t)
<1>1. L \in ListType /\ L.prev[k] = NULL /\ L.next[k] = NULL
  BY DEF Good
<1>2. PICK n \in Nat : \E s \in [1..n -> Key] : Lists(L, n, s)
  BY DEF Good
<1>3. PICK s \in [1..n -> Key] : Lists(L, n, s)
  BY <1>2
<1>4. SUFFICES \E w \in 1..(n + 1) :
         /\ \A i \in 1..n : (i < w => L.ts[s[i]] <= t) /\ (w <= i => t <= L.ts[s[i]])
         /\ InsertedBetween(L, k, t, IF w = 1 THEN NULL ELSE s[w - 1],
                                     IF w = n + 1 THEN NULL ELSE s[w], M)
  <2> HIDE DEF M
  <2>1. PICK w \in 1..(n + 1) :
         /\ \A i \in 1..n : (i < w => L.ts[s[i]] <= t) /\ (w <= i => t <= L.ts[s[i]])
         /\ InsertedBetween(L, k, t, IF w = 1 THEN NULL ELSE s[w - 1],
                                     IF w = n + 1 THEN NULL ELSE s[w], M)
    BY <1>4
  <2>2. PICK y : y = IF w = 1 THEN NULL ELSE s[w - 1]
    OBVIOUS
  <2>3. PICK z : z = IF w = n + 1 THEN NULL ELSE s[w]
    OBVIOUS
  <2>4. InsertedBetween(L, k, t, y, z, M)
    BY <2>1, <2>2, <2>3
  <2>5. Good(M)
    BY <1>3, <2>1, <2>2, <2>3, <2>4, BetweenGood
  <2>6. /\ M.keys = L.keys \cup {k}
        /\ \A j \in Key : M.ts[j] = IF j = k THEN t ELSE L.ts[j]
    BY <2>4 DEF InsertedBetween
  <2> QED BY <2>5, <2>6 DEF M
<1> HIDE DEF M
<1>5. CASE n = 0
  <2>1. L.first = NULL
    BY <1>3, <1>5 DEF Lists
  <2>2. InsertedBetween(L, k, t, NULL, NULL, M)
    BY <1>1, <2>1, InsertedFirst DEF M
  <2>3. 1 \in 1..(n + 1) /\ 1 = n + 1 /\ \A i \in 1..n : FALSE
    BY <1>5
  <2> QED BY <2>2, <2>3
<1>6. CASE n # 0
  <2>1. /\ \A i \in 1..n : s[i] \in Key /\ s[i] \in L.keys /\ s[i] # k /\ s[i] # NULL
        /\ \A i \in 1..n : L.ts[s[i]] \in Nat
        /\ t \in Nat
        /\ \A i, j \in 1..n : i < j => L.ts[s[i]] <= L.ts[s[j]]
        /\ L.first = s[1] /\ 1 \in 1..n
        /\ \A i \in 1..n : /\ L.prev[s[i]] = IF i = 1 THEN NULL ELSE s[i - 1]
                           /\ L.next[s[i]] = IF i = n THEN NULL ELSE s[i + 1]
    <3>1. \A i \in 1..n : s[i] \in Key /\ s[i] \in L.keys /\ s[i] # k /\ s[i] # NULL
      BY <1>3, ScheduleTableAssumption DEF Lists
    <3>2. L.ts \in [Key -> Time] /\ Time \subseteq Nat
      BY <1>1, FieldTypes DEF Time
    <3>3. 1 \in 1..n
      BY <1>6
    <3> QED BY <1>3, <1>6, <3>1, <3>2, <3>3 DEF Lists
  <2>2. PICK m \in 1..n : /\ Place(L, t) = s[m]
                          /\ m = n \/ t <= L.ts[s[m]]
                          /\ m # 1 => L.ts[s[m - 1]] < t
    BY <1>1, <1>3, <1>6, PlaceFound
  <2>3. /\ m # 1 => m - 1 \in 1..n
        /\ m # n => m + 1 \in 1..n
        /\ m \in 1..(n + 1) /\ m # n + 1
        /\ m + 1 \in 1..(n + 1) /\ m + 1 # 1 /\ (m + 1) - 1 = m /\ (m + 1 = n + 1 <=> m = n)
    OBVIOUS
  <2>4. \A i \in 1..n : i < m => L.ts[s[i]] <= t
    <3> SUFFICES ASSUME NEW i \in 1..n, i < m PROVE L.ts[s[i]] <= t
      OBVIOUS
    <3>1. m # 1 /\ m - 1 \in 1..n /\ (i = m - 1 \/ i < m - 1)
      OBVIOUS
    <3>2. L.ts[s[i]] <= L.ts[s[m - 1]]
      <4>1. CASE i = m - 1
        BY <2>1, <3>1, <4>1
      <4>2. CASE i < m - 1
        BY <2>1, <3>1, <4>2
      <4> QED BY <3>1, <4>1, <4>2
    <3>3. L.ts[s[m - 1]] < t
      BY <2>2, <3>1
    <3>4. L.ts[s[i]] \in Nat /\ L.ts[s[m - 1]] \in Nat /\ t \in Nat
      BY <2>1, <3>1
    <3> QED BY <3>2, <3>3, <3>4
  <2>5. \A i \in 1..n : m <= i => L.ts[s[m]] <= L.ts[s[i]]
    <3> SUFFICES ASSUME NEW i \in 1..n, m <= i PROVE L.ts[s[m]] <= L.ts[s[i]]
      OBVIOUS
    <3>1. m = i \/ m < i
      OBVIOUS
    <3> QED BY <2>1, <3>1
  <2>6. CASE L.ts[s[m]] > t
    <3>1. InsertedBetween(L, k, t, L.prev[s[m]], s[m], M)
      <4>1. L.prev[s[m]] # k /\ L.first # NULL
        BY <1>1, <2>1, <2>3, ScheduleTableAssumption
      <4> QED BY <1>1, <2>1, <2>2, <2>6, <4>1, InsertedBefore DEF M
    <3>2. \A i \in 1..n : m <= i => t <= L.ts[s[i]]
      <4> SUFFICES ASSUME NEW i \in 1..n, m <= i PROVE t <= L.ts[s[i]]
        OBVIOUS
      <4>1. L.ts[s[m]] <= L.ts[s[i]]
        BY <2>5
      <4> QED BY <2>1, <2>6, <4>1
    <3>3. L.prev[s[m]] = IF m = 1 THEN NULL ELSE s[m - 1]
      BY <2>1
    <3> QED BY <2>3, <2>4, <3>1, <3>2, <3>3
  <2>7. CASE ~(L.ts[s[m]] > t)
    <3>1. InsertedBetween(L, k, t, s[m], L.next[s[m]], M)
      <4>1. L.next[s[m]] # k /\ L.first # NULL
        BY <1>1, <2>1, <2>3, ScheduleTableAssumption
      <4> QED BY <1>1, <2>1, <2>2, <2>7, <4>1, InsertedBehind DEF M
    <3>2. L.ts[s[m]] <= t
      BY <2>1, <2>7
    <3>3. \A i \in 1..n : i < m + 1 => L.ts[s[i]] <= t
      <4> SUFFICES ASSUME NEW i \in 1..n, i < m + 1 PROVE L.ts[s[i]] <= t
        OBVIOUS
      <4>1. i < m \/ i = m
        OBVIOUS
      <4> QED BY <2>4, <3>2, <4>1
    <3>4. \A i \in 1..n : m + 1 <= i => t <= L.ts[s[i]]
      <4> SUFFICES ASSUME NEW i \in 1..n, m + 1 <= i PROVE t <= L.ts[s[i]]
        OBVIOUS
      <4>1. m # n /\ m <= i
        OBVIOUS
      <4>2. L.ts[s[m]] <= L.ts[s[i]]
        BY <2>5, <4>1
      <4> QED BY <2>1, <2>2, <4>1, <4>2
    <3>5. L.next[s[m]] = IF m = n THEN NULL ELSE s[m + 1]
      BY <2>1
    <3> QED BY <2>3, <3>1, <3>3, <3>4, <3>5
  <2> QED BY <2>6, <2>7
<1> QED BY <1>5, <1>6

-----------------------------------------------------------------------------
(* Removing the first schedule is dropping it. *)
LEMMA PoppedFields ==
    ASSUME Good(List), first_schedule # NULL
    PROVE  /\ first_schedule \in hash_table
           /\ \A j \in hash_table : execute_ts[first_schedule] <= execute_ts[j]
           /\ Dropped(List, first_schedule) =
                 [keys  |-> hash_table \ {first_schedule},
                  first |-> next[first_schedule],
                  prev  |-> Link(prev, next[first_schedule], NULL),
                  next  |-> [next EXCEPT ![first_schedule] = NULL],
                  ts    |-> [execute_ts EXCEPT ![first_schedule] = 0]]
<1>1. PICK n \in Nat : \E s \in [1..n -> Key] : Lists(List, n, s)
  BY DEF Good
<1>2. PICK s \in [1..n -> Key] : Lists(List, n, s)
  BY <1>1
<1>3. /\ hash_table = {s[i] : i \in 1..n}
      /\ \A i, j \in 1..n : i < j => execute_ts[s[i]] <= execute_ts[s[j]]
      /\ first_schedule = IF n = 0 THEN NULL ELSE s[1]
      /\ \A i \in 1..n : prev[s[i]] = IF i = 1 THEN NULL ELSE s[i - 1]
  BY <1>2 DEF Lists, List
<1>4. /\ prev \in Pointers /\ next \in Pointers /\ execute_ts \in [Key -> Time]
      /\ hash_table \subseteq Key
  BY DEF Good, List, ListType
<1>5. n # 0 /\ 1 \in 1..n /\ first_schedule = s[1]
  BY <1>3
<1>6. first_schedule \in hash_table /\ prev[first_schedule] = NULL
  BY <1>3, <1>5
<1>7. ASSUME NEW j \in hash_table PROVE execute_ts[first_schedule] <= execute_ts[j]
  <2>1. PICK i \in 1..n : j = s[i]
    BY <1>3
  <2>2. i = 1 \/ 1 < i
    OBVIOUS
  <2>3. execute_ts[j] \in Nat
    BY <1>4 DEF Time
  <2> QED BY <1>3, <1>5, <2>1, <2>2, <2>3
<1>8. [prev EXCEPT ![first_schedule] = NULL] = prev
  BY <1>4, <1>6 DEF Pointers
<1>9. /\ List.keys = hash_table /\ List.first = first_schedule /\ List.prev = prev
      /\ List.next = next /\ List.ts = execute_ts
  BY DEF List
<1>10. \A f : Link(f, NULL, next[first_schedule]) = f
  BY DEF Link
<1> QED BY <1>6, <1>7, <1>8, <1>9, <1>10 DEF Dropped

(* A call leaves the list that it computed. *)
LEMMA Becomes ==
    ASSUME NEW L \in ListType, Become(L)
    PROVE  List' = L
BY DEF Become, List, ListType

LEMMA ListFields ==
    /\ List.keys = hash_table /\ List.first = first_schedule
    /\ List.prev = prev /\ List.next = next /\ List.ts = execute_ts
BY DEF List

(* The list is well formed, and a pop answers with an element or nothing. *)
IInv == Good(List) /\ popped \in Time \X Pointer

LEMMA InitGood == Init => IInv
<1> SUFFICES ASSUME Init PROVE IInv
  OBVIOUS
<1>1. 0 \in Time /\ NULL \in Pointer
  BY ScheduleTableAssumption DEF Time, Pointer
<1>2. List \in ListType
  BY <1>1 DEF Init, List, ListType, Pointers, Pointer
<1>3. \A k \in Key : List.prev[k] = NULL /\ List.next[k] = NULL
  BY DEF Init, List
<1>4. \E s \in [1..0 -> Key] : Lists(List, 0, s)
  <2> DEFINE s == [i \in 1..0 |-> NULL]
  <2>1. \A i \in 1..0 : FALSE
    OBVIOUS
  <2>2. s \in [1..0 -> Key]
    BY <2>1
  <2>3. Lists(List, 0, s)
    BY <2>1 DEF Lists, List, Init
  <2> QED BY <2>2, <2>3
<1> QED BY <1>1, <1>2, <1>3, <1>4 DEF IInv, Good, Init

(* What a call makes of a good list. *)
LEMMA AddGood ==
    ASSUME Good(List), NEW k \in Key, NEW t \in Time, AddSchedule(k, t)
    PROVE  /\ Good(List)'
           /\ hash_table' = hash_table \cup {k}
           /\ \A j \in Key : execute_ts'[j] = IF j = k THEN t ELSE execute_ts[j]
<1> DEFINE D == Dropped(List, k)
           M == Inserted(D, k, t)
<1>1. /\ Good(D) /\ D.keys = hash_table \ {k}
      /\ \A j \in Key \ {k} : D.ts[j] = execute_ts[j]
  BY DroppedGood, ListFields
<1> HIDE DEF D
<1>2. /\ Good(M) /\ M.keys = D.keys \cup {k}
      /\ \A j \in Key : M.ts[j] = IF j = k THEN t ELSE D.ts[j]
  BY <1>1, InsertedGood
<1>3. Become(M)
  BY DEF AddSchedule, D
<1> HIDE DEF M
<1>4. M \in ListType
  BY <1>2 DEF Good
<1>5. List' = M /\ hash_table' = M.keys /\ execute_ts' = M.ts
  BY <1>3, <1>4, Becomes DEF Become
<1>6. Good(List)' <=> Good(List')
  BY DEF Good, ListType, Lists
<1> QED BY <1>1, <1>2, <1>5, <1>6

LEMMA DropGood ==
    ASSUME Good(List), NEW k \in hash_table, Become(Dropped(List, k))
    PROVE  /\ Good(List)'
           /\ hash_table' = hash_table \ {k}
           /\ \A j \in hash_table \ {k} : execute_ts'[j] = execute_ts[j]
<1> DEFINE D == Dropped(List, k)
<1>1. hash_table \subseteq Key
  BY ListFields DEF Good, ListType
<1>2. /\ Good(D) /\ D.keys = hash_table \ {k}
      /\ \A j \in Key \ {k} : D.ts[j] = execute_ts[j]
  BY <1>1, DroppedGood, ListFields
<1>3. Become(D)
  OBVIOUS
<1> HIDE DEF D
<1>4. D \in ListType
  BY <1>2 DEF Good
<1>5. List' = D /\ hash_table' = D.keys /\ execute_ts' = D.ts
  BY <1>3, <1>4, Becomes DEF Become
<1>6. Good(List)' <=> Good(List')
  BY DEF Good, ListType, Lists
<1> QED BY <1>1, <1>2, <1>5, <1>6

(* A pop is a drop of the first schedule, which is the earliest. *)
LEMMA PopIsDrop ==
    ASSUME Good(List), NEW now \in Time, PopSchedule(now)
    PROVE  /\ first_schedule \in hash_table
           /\ Become(Dropped(List, first_schedule))
           /\ execute_ts[first_schedule] <= now
           /\ \A j \in hash_table : execute_ts[first_schedule] <= execute_ts[j]
BY PoppedFields DEF PopSchedule, FirstIsDue

LEMMA StepGood == IInv /\ [Next]_vars => IInv'
<1> SUFFICES ASSUME IInv, [Next]_vars PROVE IInv'
  OBVIOUS
<1>0. Good(List) /\ popped \in Time \X Pointer
  BY DEF IInv
<1>1. ASSUME NEW k \in Key, NEW t \in Time, AddSchedule(k, t) PROVE IInv'
  BY <1>0, <1>1, AddGood DEF IInv, AddSchedule
<1>2. ASSUME NEW k \in Key, DropSchedule(k) PROVE IInv'
  BY <1>0, <1>2, DropGood DEF IInv, DropSchedule
<1>3. ASSUME NEW now \in Time, PopSchedule(now) PROVE IInv'
  <2>1. Good(List)'
    BY <1>0, <1>3, PopIsDrop, DropGood
  <2>2. first_schedule \in Pointer
    BY <1>0, ListFields DEF Good, ListType
  <2> QED BY <1>3, <2>1, <2>2 DEF IInv, PopSchedule
<1>4. ASSUME UNCHANGED list PROVE Good(List)'
  <2>1. List' = List
    BY <1>4 DEF list, List
  <2>2. Good(List)' <=> Good(List')
    BY DEF Good, ListType, Lists
  <2> QED BY <1>0, <2>1, <2>2
<1>5. ASSUME NEW now \in Time, PopNothing(now) PROVE IInv'
  BY <1>4, <1>5 DEF IInv, PopNothing, Pointer
<1>6. ASSUME UNCHANGED vars PROVE IInv'
  BY <1>0, <1>4, <1>6 DEF IInv, vars, list
<1> QED BY <1>1, <1>2, <1>3, <1>5, <1>6 DEF Next

LEMMA Invariance == Spec => []IInv
BY InitGood, StepGood, PTL DEF Spec

LEMMA GoodIsHash == IInv => ListIsHash
<1> SUFFICES ASSUME IInv PROVE ListIsHash
  OBVIOUS
<1>1. PICK n \in Nat : \E s \in [1..n -> Key] : Lists(List, n, s)
  BY DEF IInv, Good
<1>2. PICK s \in [1..n -> Key] : Lists(List, n, s)
  BY <1>1
<1>3. hash_table = {s[i] : i \in 1..n}
  BY <1>2, ListFields DEF Lists
<1>4. s \in [1..n -> hash_table]
  BY <1>3
<1>5. \A i, j \in 1..n : s[i] = s[j] => i = j
  BY <1>2, Positions
<1>6. s \in Bijection(1..n, hash_table)
  BY <1>3, <1>4, <1>5 DEF Bijection, Injection, Surjection, IsInjective
<1>7. Cardinality(hash_table) = n
  BY <1>6, FS_CountingElements DEF ExistsBijection
<1> QED BY <1>2, <1>4, <1>7 DEF ListIsHash

(* aodv_st.c: after any sequence of calls the list and the hash table hold  *)
(* the same schedules, in the order of execution and linked both ways.      *)
THEOREM ListAndHashAgree == Spec => []ListIsHash
BY Invariance, GoodIsHash, PTL

-----------------------------------------------------------------------------
(* The due times that the hash table shows. *)
Due == [k \in hash_table |-> execute_ts[k]]

(* Every call is a step of the map of due times. *)
LEMMA StepMaps == IInv /\ [Next]_vars => [Abstract!Next]_<<Due, popped>>
<1> SUFFICES ASSUME IInv, [Next]_vars PROVE Abstract!Next \/ UNCHANGED <<Due, popped>>
  OBVIOUS
<1>0. Good(List) /\ hash_table \subseteq Key /\ Time \subseteq Nat
      /\ \A j \in hash_table : execute_ts[j] \in Time
  BY ListFields DEF IInv, Good, ListType, Time
<1>1. ASSUME NEW k \in Key, NEW t \in Time, AddSchedule(k, t) PROVE Abstract!Next
  <2>1. /\ hash_table' = hash_table \cup {k}
        /\ \A j \in Key : execute_ts'[j] = IF j = k THEN t ELSE execute_ts[j]
    BY <1>0, <1>1, AddGood
  <2>2. Due' = [j \in hash_table \cup {k} |-> IF j = k THEN t ELSE Due[j]]
    BY <1>0, <2>1 DEF Due
  <2>3. Abstract!Set(k, t)
    BY <1>1, <2>2 DEF Abstract!Set, Due, AddSchedule
  <2> QED BY <2>3 DEF Abstract!Next
<1>2. ASSUME NEW k \in hash_table, Become(Dropped(List, k))
      PROVE  Due' = [j \in hash_table \ {k} |-> Due[j]]
  BY <1>0, <1>2, DropGood DEF Due
<1>3. ASSUME NEW k \in Key, DropSchedule(k) PROVE Abstract!Next
  <2>1. Abstract!Drop(k)
    BY <1>2, <1>3 DEF Abstract!Drop, Abstract!Without, DropSchedule, Due
  <2> QED BY <2>1 DEF Abstract!Next
<1>4. ASSUME NEW now \in Time, PopSchedule(now) PROVE Abstract!Next
  <2>1. /\ first_schedule \in hash_table
        /\ Become(Dropped(List, first_schedule))
        /\ execute_ts[first_schedule] <= now
        /\ \A j \in hash_table : execute_ts[first_schedule] <= execute_ts[j]
    BY <1>0, <1>4, PopIsDrop
  <2>2. Abstract!Take(first_schedule, now)
    BY <1>2, <1>4, <2>1 DEF Abstract!Take, Abstract!IsDue, Abstract!Without, PopSchedule, Due
  <2> QED BY <1>0, <2>1, <2>2 DEF Abstract!Next
<1>5. ASSUME NEW now \in Time, PopNothing(now) PROVE Abstract!Next
  <2>1. ASSUME NEW j \in hash_table PROVE ~(execute_ts[j] <= now)
    <3>1. first_schedule # NULL
      <4>1. PICK n \in Nat : \E s \in [1..n -> Key] : Lists(List, n, s)
        BY <1>0 DEF Good
      <4>2. PICK s \in [1..n -> Key] : Lists(List, n, s)
        BY <4>1
      <4>3. PICK i \in 1..n : j = s[i]
        BY <4>2, ListFields DEF Lists
      <4>4. n # 0 /\ 1 \in 1..n
        BY <4>3
      <4>5. first_schedule = s[1]
        BY <4>2, <4>4, ListFields DEF Lists
      <4> QED BY <4>4, <4>5, ScheduleTableAssumption
    <3>2. first_schedule \in hash_table /\ execute_ts[first_schedule] <= execute_ts[j]
      BY <1>0, <3>1, PoppedFields
    <3>3. ~(execute_ts[first_schedule] <= now)
      BY <1>5, <3>1 DEF PopNothing, FirstIsDue
    <3>4. execute_ts[j] \in Nat /\ execute_ts[first_schedule] \in Nat /\ now \in Nat
      BY <1>0, <3>2
    <3> QED BY <3>2, <3>3, <3>4
  <2>2. Due' = Due
    BY <1>5 DEF PopNothing, list, Due
  <2>3. Abstract!TakeNothing(now)
    BY <1>5, <2>1, <2>2 DEF Abstract!TakeNothing, Abstract!IsDue, PopNothing, Due
  <2> QED BY <2>3 DEF Abstract!Next
<1>6. ASSUME UNCHANGED vars PROVE UNCHANGED <<Due, popped>>
  BY <1>6 DEF vars, Due
<1> QED BY <1>1, <1>3, <1>4, <1>5, <1>6 DEF Next

(* aodv_st.c: to its users the table is a map from keys to due times: an    *)
(* addition replaces, and a pop takes the earliest that is due, if any is.  *)
THEOREM TableIsDueMap == Spec => IsDueMap
<1>1. Init => Abstract!Init
  BY DEF Init, Abstract!Init
<1>2. IInv /\ [Next]_vars => [Abstract!Next]_<<Due, popped>>
  BY StepMaps
<1> QED BY <1>1, <1>2, Invariance, PTL DEF Spec, IsDueMap, Abstract!Spec, Due
=============================================================================

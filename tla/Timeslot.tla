------------------------------ MODULE Timeslot ------------------------------
(***************************************************************************)
(* A timeslot (timeslot.c): a doubly linked list of objects sorted by the  *)
(* time to purge them, from which the database purges routes, neighbours,  *)
(* buffered packets and log entries.  All calls run under the database     *)
(* lock, so that a purge, once begun, is not interrupted.                  *)
(*                                                                         *)
(* An object stands for its list element.  Callers pass timestamps that    *)
(* they took before they got the lock: they come in any order.             *)
(***************************************************************************)
EXTENDS Naturals, FiniteSets

CONSTANTS
    Object,    \* what the purger is called with
    NULL,
    MaxTime,   \* bound: the latest timestamp
    Lifetimes  \* purge_timeout and the lifetimes of addobject_varpurge

ASSUME TimeslotAssumption ==
    /\ NULL \notin Object
    /\ MaxTime \in Nat
    /\ Lifetimes \subseteq Nat
    /\ \A l \in Lifetimes : l <= MaxTime

Time == 0..MaxTime

VARIABLES
    members,          \* the objects in elements_hash
    prev, next,       \* links; tail is the end that is purged first
    head, tail, size,
    purge_time,
    limit,            \* the time a purge in progress purges up to, or NULL
    purged            \* that time and the object it purged last, or NULL

list == <<members, prev, next, head, tail, size, purge_time>>
vars == <<members, prev, next, head, tail, size, purge_time, limit, purged>>

Init ==
    /\ members = {}
    /\ prev = [o \in Object |-> NULL]
    /\ next = [o \in Object |-> NULL]
    /\ head = NULL /\ tail = NULL /\ size = 0
    /\ purge_time = [o \in Object |-> 0]
    /\ limit = NULL
    /\ purged = <<0, NULL>>

-----------------------------------------------------------------------------
(* The list as a value, for the operations that are built of several. *)
List == [members |-> members, prev |-> prev, next |-> next,
         head |-> head, tail |-> tail, size |-> size, time |-> purge_time]

Become(L) ==
    /\ members' = L.members
    /\ prev' = L.prev /\ next' = L.next
    /\ head' = L.head /\ tail' = L.tail /\ size' = L.size
    /\ purge_time' = L.time

(* f[o] := v, when o is an object. *)
Link(f, o, v) == IF o = NULL THEN f ELSE [f EXCEPT ![o] = v]

(* timeslot_deleteobject *)
Without(L, o) ==
    IF o \notin L.members THEN L
    ELSE [members |-> L.members \ {o},
          prev |-> Link([L.prev EXCEPT ![o] = NULL], L.next[o], L.prev[o]),
          next |-> Link([L.next EXCEPT ![o] = NULL], L.prev[o], L.next[o]),
          head |-> IF L.head = o THEN L.prev[o] ELSE L.head,
          tail |-> IF L.tail = o THEN L.next[o] ELSE L.tail,
          size |-> L.size - 1,
          time |-> [L.time EXCEPT ![o] = 0]]

(* Mutants of Earlier and FixHead below. *)
Later(L, o, t)       == L.prev[o] # NULL /\ t > L.time[o]
NeverFixed(L, at, o) == L.head

(* The search goes on from o towards the tail. *)
Earlier(L, o, t) == L.prev[o] # NULL /\ t < L.time[o]

FixHead(L, at, o) == IF L.head = at THEN o ELSE L.head

(* The element that o is put next to: where the search ends, which began  *)
(* with the head and went on from one to the one before it.                *)
Neighbour(L, t) ==
    CHOOSE o \in L.members : /\ ~Earlier(L, o, t)
                             /\ \A j \in L.members : L.prev[j] = o => Earlier(L, j, t)

(* The insertion of timeslot_addobject: o is not in the list. *)
With(L, o, t) ==
    LET at == Neighbour(L, t)
        M  == L.members \cup {o}
        T  == [L.time EXCEPT ![o] = t]
    IN  IF L.size = 0
          THEN [members |-> M, prev |-> L.prev, next |-> L.next,
                head |-> o, tail |-> o, size |-> 1, time |-> T]
        ELSE IF t >= L.time[at]   \* after at
          THEN [members |-> M,
                prev |-> Link([L.prev EXCEPT ![o] = at], L.next[at], o),
                next |-> [L.next EXCEPT ![o] = L.next[at], ![at] = o],
                head |-> FixHead(L, at, o), tail |-> L.tail,
                size |-> L.size + 1, time |-> T]
        ELSE [members |-> M,      \* before at
              prev |-> [L.prev EXCEPT ![o] = L.prev[at], ![at] = o],
              next |-> Link([L.next EXCEPT ![o] = at], L.prev[at], o),
              head |-> L.head, tail |-> IF L.tail = at THEN o ELSE L.tail,
              size |-> L.size + 1, time |-> T]

-----------------------------------------------------------------------------
(* timeslot_addobject and timeslot_addobject_varpurge.  A purge of what is *)
(* due now follows, unless o is the only object.                           *)
AddObject(o, timestamp, lifetime, now) ==
    LET rest == Without(List, o)
    IN  /\ limit = NULL
        /\ timestamp + lifetime <= MaxTime   \* bound
        /\ Become(With(rest, o, timestamp + lifetime))
        /\ limit' = IF rest.size = 0 THEN NULL ELSE now
        /\ UNCHANGED purged

(* timeslot_deleteobject *)
DeleteObject(o) ==
    /\ limit = NULL
    /\ o \in members
    /\ Become(Without(List, o))
    /\ UNCHANGED <<limit, purged>>

(* A call of timeslot_purgeobjects begins. *)
StartPurge(now) ==
    /\ limit = NULL
    /\ limit' = now
    /\ UNCHANGED <<list, purged>>

TailIsDue == tail # NULL /\ purge_time[tail] <= limit

(* One round of its loop: the tail is due and the purger gets it. *)
PurgeTail ==
    /\ limit # NULL
    /\ TailIsDue
    /\ Become([Without(List, tail) EXCEPT
                 !.head = IF tail = head THEN NULL ELSE head])
    /\ purged' = <<limit, tail>>
    /\ UNCHANGED limit

(* The loop ends. *)
EndPurge ==
    /\ limit # NULL
    /\ ~TailIsDue
    /\ purged' = <<limit, NULL>>
    /\ limit' = NULL
    /\ UNCHANGED list

Next ==
    \/ \E o \in Object, timestamp, now \in Time, lifetime \in Lifetimes :
          AddObject(o, timestamp, lifetime, now)
    \/ \E o \in Object : DeleteObject(o)
    \/ \E now \in Time : StartPurge(now)
    \/ PurgeTail
    \/ EndPurge

Spec == Init /\ [][Next]_vars

-----------------------------------------------------------------------------
(* The list L holds its members as s[1], ..., s[n], in the order in which  *)
(* they are purged; it can be walked from both ends, and size says n.      *)
Lists(L, n, s) ==
    /\ L.members = {s[i] : i \in 1..n} /\ L.size = n
    /\ \A i, j \in 1..n : i < j => s[i] # s[j] /\ L.time[s[i]] <= L.time[s[j]]
    /\ L.tail = IF n = 0 THEN NULL ELSE s[1]
    /\ L.head = IF n = 0 THEN NULL ELSE s[n]
    /\ \A i \in 1..n : /\ L.prev[s[i]] = IF i = 1 THEN NULL ELSE s[i - 1]
                       /\ L.next[s[i]] = IF i = n THEN NULL ELSE s[i + 1]

(* The list and the hash hold the same objects, the list each of them      *)
(* once, in the order of their purge times and linked from both ends.      *)
WellFormed ==
    LET n == Cardinality(members)
    IN  \E s \in [1..n -> members] : Lists(List, n, s)

(* A purge takes what is due and nothing else, the earliest first, and     *)
(* ends only when nothing is due any more.                                 *)
Abstract == INSTANCE DueMap
    WITH Key <- Object, NoKey <- NULL, answer <- purged,
         due <- [o \in members |-> purge_time[o]]

IsDueMap == Abstract!Spec
=============================================================================

--------------------------- MODULE ScheduleTable ---------------------------
(***************************************************************************)
(* The schedule table (aodv_st.c): a doubly linked list of schedules       *)
(* sorted by execution time, with a pointer to its first element only, and *)
(* a hash table over it keyed by address and kind of schedule.  There is   *)
(* one element per key, which stands for it here.  Every call is made      *)
(* under the database lock.                                                *)
(***************************************************************************)
EXTENDS Naturals, FiniteSets

CONSTANTS
    Key,      \* pairs of an ether_addr and a schedule_id
    NULL,
    MaxTime   \* bound: the latest execution time

ASSUME ScheduleTableAssumption == NULL \notin Key /\ MaxTime \in Nat

Time == 0..MaxTime

VARIABLES
    hash_table,       \* the keys that have a schedule
    first_schedule,
    prev, next,
    execute_ts,
    popped            \* the last popschedule: its timestamp, what it returned

list == <<hash_table, first_schedule, prev, next, execute_ts>>
vars == <<hash_table, first_schedule, prev, next, execute_ts, popped>>

Init ==
    /\ hash_table = {}
    /\ first_schedule = NULL
    /\ prev = [k \in Key |-> NULL] /\ next = [k \in Key |-> NULL]
    /\ execute_ts = [k \in Key |-> 0]
    /\ popped = <<0, NULL>>

-----------------------------------------------------------------------------
List == [keys |-> hash_table, first |-> first_schedule,
         prev |-> prev, next |-> next, ts |-> execute_ts]

Become(L) ==
    /\ hash_table' = L.keys /\ first_schedule' = L.first
    /\ prev' = L.prev /\ next' = L.next
    /\ execute_ts' = L.ts

Link(f, k, v) == IF k = NULL THEN f ELSE [f EXCEPT ![k] = v]

(* A mutant of Dropped: the successor keeps its pointer to the dropped one. *)
DroppedHalf(L, k) ==
    IF k \notin L.keys THEN L
    ELSE [keys  |-> L.keys \ {k},
          first |-> IF L.prev[k] = NULL THEN L.next[k] ELSE L.first,
          prev  |-> L.prev,
          next  |-> Link(L.next, L.prev[k], L.next[k]),
          ts    |-> L.ts]

(* aodv_db_sc_dropschedule.  The fields of a freed element are reset. *)
Dropped(L, k) ==
    IF k \notin L.keys THEN L
    ELSE [keys  |-> L.keys \ {k},
          first |-> IF L.prev[k] = NULL THEN L.next[k] ELSE L.first,
          prev  |-> Link([L.prev EXCEPT ![k] = NULL], L.next[k], L.prev[k]),
          next  |-> Link([L.next EXCEPT ![k] = NULL], L.prev[k], L.next[k]),
          ts    |-> [L.ts EXCEPT ![k] = 0]]

(* A mutant of Passes: the comparison turned round. *)
PassesLater(L, k, t) == L.next[k] # NULL /\ t < L.ts[k]

(* The search for a place goes on behind k. *)
Passes(L, k, t) == L.next[k] # NULL /\ t > L.ts[k]

(* The element next to which one to be executed at t is inserted: where    *)
(* the search ends, which began with the first and went on from one to the *)
(* next.                                                                   *)
Place(L, t) ==
    CHOOSE k \in L.keys : /\ ~Passes(L, k, t)
                          /\ \A j \in L.keys : L.next[j] = k => Passes(L, j, t)

(* The rest of aodv_db_sc_addschedule, once k has no schedule. *)
Inserted(L, k, t) ==
    LET at == Place(L, t)
        M  == [L EXCEPT !.keys = @ \cup {k}, !.ts[k] = t]
    IN  IF L.first = NULL
          THEN [M EXCEPT !.first = k]
        ELSE IF L.ts[at] > t   \* before at
          THEN [M EXCEPT !.first = IF L.prev[at] = NULL THEN k ELSE @,
                         !.prev = [@ EXCEPT ![k] = L.prev[at], ![at] = k],
                         !.next = Link([@ EXCEPT ![k] = at], L.prev[at], k)]
        ELSE [M EXCEPT          \* after at
                !.prev = Link([@ EXCEPT ![k] = at], L.next[at], k),
                !.next = [@ EXCEPT ![k] = L.next[at], ![at] = k]]

-----------------------------------------------------------------------------
(* aodv_db_sc_addschedule: a schedule that k already has is replaced. *)
AddSchedule(k, t) ==
    /\ Become(Inserted(Dropped(List, k), k, t))
    /\ UNCHANGED popped

(* aodv_db_sc_dropschedule *)
DropSchedule(k) ==
    /\ k \in hash_table
    /\ Become(Dropped(List, k))
    /\ UNCHANGED popped

FirstIsDue(now) == first_schedule # NULL /\ execute_ts[first_schedule] <= now

(* aodv_db_sc_popschedule *)
PopSchedule(now) ==
    /\ FirstIsDue(now)
    /\ popped' = <<now, first_schedule>>
    /\ Become([keys  |-> hash_table \ {first_schedule},
               first |-> next[first_schedule],
               prev  |-> Link(prev, next[first_schedule], NULL),
               next  |-> [next EXCEPT ![first_schedule] = NULL],
               ts    |-> [execute_ts EXCEPT ![first_schedule] = 0]])

(* aodv_db_sc_popschedule finds nothing to execute. *)
PopNothing(now) ==
    /\ ~FirstIsDue(now)
    /\ popped' = <<now, NULL>>
    /\ UNCHANGED list

Next ==
    \/ \E k \in Key, t \in Time : AddSchedule(k, t)
    \/ \E k \in Key : DropSchedule(k)
    \/ \E now \in Time : PopSchedule(now) \/ PopNothing(now)

Spec == Init /\ [][Next]_vars

-----------------------------------------------------------------------------
(* The list L holds its keys as s[1], ..., s[n], in the order of execution, *)
(* and it can be walked in both directions.                                *)
Lists(L, n, s) ==
    /\ L.keys = {s[i] : i \in 1..n}
    /\ \A i, j \in 1..n : i < j => s[i] # s[j] /\ L.ts[s[i]] <= L.ts[s[j]]
    /\ L.first = IF n = 0 THEN NULL ELSE s[1]
    /\ \A i \in 1..n : /\ L.prev[s[i]] = IF i = 1 THEN NULL ELSE s[i - 1]
                       /\ L.next[s[i]] = IF i = n THEN NULL ELSE s[i + 1]

(* The list and the hash table hold the same schedules, the list each of   *)
(* them once, in the order of execution, and it can be walked backwards.   *)
ListIsHash ==
    LET n == Cardinality(hash_table)
    IN  \E s \in [1..n -> hash_table] : Lists(List, n, s)

(* The table is a map from keys to times: adding replaces, and popping     *)
(* takes the earliest schedule that is due, whenever there is one.         *)
Abstract == INSTANCE DueMap
    WITH NoKey <- NULL, answer <- popped,
         due <- [k \in hash_table |-> execute_ts[k]]

IsDueMap == Abstract!Spec
=============================================================================

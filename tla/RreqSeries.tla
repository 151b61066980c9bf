----------------------------- MODULE RreqSeries -----------------------------
(***************************************************************************)
(* The life of a series of route requests (aodv_pipeline.c).  A series is  *)
(* a heap object that repeats the RREQ for one destination until a route   *)
(* is found or the retries are used up.  The TUN, command line and         *)
(* periodic threads start one, the receive threads cancel them, and the    *)
(* periodic thread repeats those it pops from the schedule table.          *)
(*                                                                         *)
(* One step is one critical section (of series_list_lock, or of the        *)
(* database lock inside an aodv_db_ call) or one call outside any lock.    *)
(* The message of a series is created, used and destroyed with it, so it   *)
(* is not modelled on its own.  Time is abstract: a schedule may come due  *)
(* and a log entry may age at any moment.                                  *)
(***************************************************************************)
EXTENDS Naturals, FiniteSets

CONSTANTS
    Thread,          \* every thread of the daemon
    RxThread,        \* the mesh receive threads, which learn routes
    PeriodicThread,  \* the one thread that runs aodv_periodic_scexecute
    Key,             \* destination addresses
    Address,         \* heap addresses a series can get; reused after free()
    RREQ_RETRIES,    \* config.h
    RREQ_RATELIMIT,  \* config.h
    MaxStarts        \* bound: series started in one behaviour

ASSUME ThreadAssumption ==
    /\ IsFiniteSet(Thread)
    /\ RxThread \subseteq Thread
    /\ PeriodicThread \in Thread \ RxThread
ASSUME LimitAssumption ==
    /\ RREQ_RETRIES \in Nat
    /\ RREQ_RATELIMIT \in Nat
    /\ MaxStarts \in Nat

NoSeries == "no series"
NoThread == "no thread"
ASSUME NullAssumption == NoSeries \notin Address /\ NoThread \notin Thread

VARIABLES
    live,         \* the addresses of allocated series
    key,          \* Address -> destination of the series there
    retries,      \* Address -> its retry counter
    stop,         \* Address -> its deletion mark
    series_list,  \* the addresses linked in series_list
    lock,         \* holder of series_list_lock when a section spans two steps
    schedule,     \* Key -> parameter of the AODV_SC_REPEAT_RREQ schedule
    rreq_log,     \* RREQs logged in the last second
    pc,           \* Thread -> the next thing it does
    cur,          \* Thread -> the series it is processing
    starts        \* series started so far (for the bound only)

series == <<live, key, retries, stop>>

vars == <<live, key, retries, stop, series_list, lock, schedule, rreq_log, pc, cur, starts>>

PcStates == {"idle", "count", "send", "log", "decide", "reschedule",
             "delete", "drop"}

Listed(k) == {a \in series_list : key[a] = k}

Init ==
    /\ live = {}
    /\ key \in [Address -> Key]   \* malloc() leaves what it finds
    /\ retries = [a \in Address |-> 0]
    /\ stop = [a \in Address |-> TRUE]
    /\ series_list = {}
    /\ lock = NoThread
    /\ schedule = [k \in Key |-> NoSeries]
    /\ rreq_log = 0
    /\ pc = [t \in Thread |-> "idle"]
    /\ cur = [t \in Thread |-> NoSeries]
    /\ starts = 0

(* Mutants of the definitions below, one for each property. *)
StartAnyway(k)   == TRUE
NeverLimited     == FALSE
TryOnceMore(a)   == retries[a] > RREQ_RETRIES
ForgetTry(a)     == retries
NeverMarked(a)   == FALSE
AlwaysDropped(a) == TRUE
NeverDropped(a)  == FALSE
StillThere(k)    == schedule

MayStart(k)      == Listed(k) = {}
RateLimited      == rreq_log > RREQ_RATELIMIT
LastTry(a)       == retries[a] >= RREQ_RETRIES
CountTry(a)      == [retries EXCEPT ![a] = @ + 1]
Marked(a)        == stop[a]
IsScheduled(a)   == schedule[key[a]] # NoSeries
Unscheduled(k)   == [schedule EXCEPT ![k] = NoSeries]
Unlinked(a)      == series_list \ {a}

Goto(t, next) == pc' = [pc EXCEPT ![t] = next]

(* The thread returns from the outermost call and drops its pointer. *)
Return(t) ==
    /\ Goto(t, "idle")
    /\ cur' = [cur EXCEPT ![t] = NoSeries]

-----------------------------------------------------------------------------
(* aodv_send_rreq and aodv_pipeline_new_series: nothing is started when a  *)
(* series to the destination is running already.  No receive thread calls  *)
(* aodv_send_rreq.                                                         *)
StartSeries(t, k) ==
    /\ t \notin RxThread
    /\ pc[t] = "idle"
    /\ lock = NoThread
    /\ MayStart(k)
    /\ starts < MaxStarts
    /\ \E a \in Address :
         /\ a \notin live
         /\ live' = live \cup {a}
         /\ key' = [key EXCEPT ![a] = k]
         /\ retries' = [retries EXCEPT ![a] = 0]
         /\ stop' = [stop EXCEPT ![a] = FALSE]
         /\ series_list' = series_list \cup {a}
         /\ cur' = [cur EXCEPT ![t] = a]
    /\ Goto(t, "count")
    /\ starts' = starts + 1
    /\ UNCHANGED <<lock, schedule, rreq_log>>

(* aodv_periodic_scexecute pops a due schedule and calls                   *)
(* aodv_send_rreq_repeat: the table's ownership passes to the thread.      *)
PopSchedule(k) ==
    LET t == PeriodicThread IN
    /\ pc[t] = "idle"
    /\ schedule[k] # NoSeries
    /\ schedule' = Unscheduled(k)
    /\ cur' = [cur EXCEPT ![t] = schedule[k]]
    /\ Goto(t, "count")
    /\ UNCHANGED <<series, series_list, lock, rreq_log, starts>>

(* The rate limit test of aodv_send_rreq_real. *)
ReadCount(t) ==
    /\ pc[t] = "count"
    /\ Goto(t, IF RateLimited THEN "reschedule" ELSE "send")
    /\ UNCHANGED <<series, series_list, lock, schedule, rreq_log, cur, starts>>

(* dessert_meshsend, outside every lock. *)
SendRreq(t) ==
    /\ pc[t] = "send"
    /\ Goto(t, "log")
    /\ UNCHANGED <<series, series_list, lock, schedule, rreq_log, cur, starts>>

(* aodv_db_putrreq. *)
LogRreq(t) ==
    /\ pc[t] = "log"
    /\ rreq_log' = rreq_log + 1
    /\ Goto(t, "decide")
    /\ UNCHANGED <<series, series_list, lock, schedule, cur, starts>>

(* Give up, or count the retry and plan the next one. *)
CountRetry(t) ==
    /\ pc[t] = "decide"
    /\ IF LastTry(cur[t])
         THEN Goto(t, "delete") /\ UNCHANGED retries
         ELSE Goto(t, "reschedule") /\ retries' = CountTry(cur[t])
    /\ UNCHANGED <<live, key, stop, series_list, lock, schedule, rreq_log, cur, starts>>

(* aodv_pipeline_reschedule_series: hand the series to the schedule table, *)
(* or free it when another thread has marked it.  The section spans two    *)
(* locks, but the only access to shared state under the inner one is the   *)
(* insertion, its last effect.                                             *)
Reschedule(t) ==
    /\ pc[t] = "reschedule"
    /\ lock = NoThread
    /\ IF Marked(cur[t])
         THEN /\ live' = live \ {cur[t]}
              /\ UNCHANGED schedule
         ELSE /\ schedule' = [schedule EXCEPT ![key[cur[t]]] = cur[t]]
              /\ UNCHANGED live
    /\ Return(t)
    /\ UNCHANGED <<key, retries, stop, series_list, lock, rreq_log, starts>>

(* The first half of aodv_pipeline_delete_series_unlocked(a), under the    *)
(* lock t takes: unlink and mark.  A series marked before is left alone.   *)
Unlink(t, a) ==
    /\ ~stop[a]
    /\ series_list' = Unlinked(a)
    /\ stop' = [stop EXCEPT ![a] = TRUE]
    /\ lock' = t
    /\ cur' = [cur EXCEPT ![t] = a]
    /\ Goto(t, "drop")

(* aodv_pipeline_delete_series_ether: a receive thread that learnt a route *)
(* cancels the series to that destination (aodv_send_packets_from_buffer). *)
DeleteEther(t, k) ==
    /\ t \in RxThread
    /\ pc[t] = "idle"
    /\ lock = NoThread
    /\ \/ \E a \in Listed(k) : Unlink(t, a)
       \/ /\ Listed(k) = {}
          /\ UNCHANGED <<stop, series_list, lock, pc, cur>>
    /\ UNCHANGED <<live, key, retries, schedule, rreq_log, starts>>

(* aodv_pipeline_delete_series: the owner gives up its own series. *)
GiveUp(t) ==
    /\ pc[t] = "delete"
    /\ lock = NoThread
    /\ \/ Unlink(t, cur[t])
       \/ /\ stop[cur[t]]
          /\ Return(t)
          /\ UNCHANGED <<stop, series_list, lock>>
    /\ UNCHANGED <<live, key, retries, schedule, rreq_log, starts>>

(* The second half of aodv_pipeline_delete_series_unlocked: drop the       *)
(* schedule of the destination.  Only if there was one is the series freed *)
(* here; otherwise whoever processes it is to see the mark.                *)
DropSchedule(t) ==
    /\ pc[t] = "drop"
    /\ schedule' = Unscheduled(key[cur[t]])
    /\ live' = IF IsScheduled(cur[t]) THEN live \ {cur[t]} ELSE live
    /\ lock' = NoThread
    /\ Return(t)
    /\ UNCHANGED <<key, retries, stop, series_list, rreq_log, starts>>

(* An entry of the RREQ log becomes older than a second. *)
AgeLog ==
    /\ rreq_log > 0
    /\ rreq_log' = rreq_log - 1
    /\ UNCHANGED <<series, series_list, lock, schedule, pc, cur, starts>>

-----------------------------------------------------------------------------
(* What a thread does once it is inside aodv_send_rreq_real or a delete.   *)
Continue(t) ==
    \/ ReadCount(t)
    \/ SendRreq(t)
    \/ LogRreq(t)
    \/ CountRetry(t)
    \/ Reschedule(t)
    \/ GiveUp(t)
    \/ DropSchedule(t)

Next ==
    \/ \E t \in Thread : Continue(t)
    \/ \E t \in Thread, k \in Key : StartSeries(t, k)
    \/ \E t \in Thread, k \in Key : DeleteEther(t, k)
    \/ \E k \in Key : PopSchedule(k)
    \/ AgeLog

Spec == Init /\ [][Next]_vars

(* A thread inside a call returns from it, a schedule comes due and the    *)
(* periodic thread pops it, and log entries get older.                     *)
Fairness ==
    /\ \A t \in Thread : WF_vars(Continue(t))
    /\ \A k \in Key : WF_vars(PopSchedule(k))
    /\ WF_vars(AgeLog)

FairSpec == Spec /\ Fairness

-----------------------------------------------------------------------------
TypeOK ==
    /\ live \subseteq Address
    /\ key \in [Address -> Key]
    /\ retries \in [Address -> 0..RREQ_RETRIES]
    /\ stop \in [Address -> BOOLEAN]
    /\ series_list \subseteq Address
    /\ lock \in Thread \cup {NoThread}
    /\ schedule \in [Key -> Address \cup {NoSeries}]
    /\ rreq_log \in Nat
    /\ pc \in [Thread -> PcStates]
    /\ cur \in [Thread -> Address \cup {NoSeries}]
    /\ starts \in 0..MaxStarts

(* The thread is in an invocation of aodv_send_rreq_real that still owns   *)
(* its series, up to the reschedule or the delete that ends it.            *)
Owns(t, a) ==
    /\ cur[t] = a
    /\ pc[t] \in {"count", "send", "log", "decide", "reschedule", "delete"}

Owned(a) == (\E t \in Thread : Owns(t, a)) \/ (\E k \in Key : schedule[k] = a)

(* No pointer that the program will still follow, in the list, in the      *)
(* schedule table or in a thread, points at freed memory.                  *)
NoUseAfterFree ==
    /\ series_list \subseteq live
    /\ \A k \in Key : schedule[k] # NoSeries => schedule[k] \in live
    /\ \A t \in Thread : pc[t] # "idle" => cur[t] \in live

(* At most one owner: two invocations never process the same series, and   *)
(* none processes one that the schedule table holds (line 38).             *)
SingleOwner ==
    /\ \A t, u \in Thread, a \in Address : Owns(t, a) /\ Owns(u, a) => t = u
    /\ \A j, k \in Key : schedule[j] = schedule[k] /\ schedule[j] # NoSeries => j = k
    /\ \A t \in Thread, k \in Key : ~Owns(t, schedule[k])

(* Two series to the same destination are never in the list together, so   *)
(* that a search finds the only one.                                       *)
OneSeriesPerKey ==
    \A a, b \in series_list : key[a] = key[b] => a = b

(* A schedule belongs to a series of its own destination that is in the    *)
(* list, or that a delete in progress is about to drop (line 39).          *)
ScheduledIsRunning ==
    \A k \in Key : schedule[k] # NoSeries =>
        /\ key[schedule[k]] = k
        /\ \/ schedule[k] \in series_list
           \/ \E t \in Thread : pc[t] = "drop" /\ cur[t] = schedule[k]

(* A listed series always has an owner that will move it on.  One without  *)
(* an owner would block every later discovery of its destination.          *)
ListedIsOwned == \A a \in series_list : Owned(a)

(* A series that nobody owns any more is one that has been taken off the   *)
(* list after its last try: whoever cancels a series before that, and      *)
(* whatever comes in between, somebody is left to free it (line 38, with   *)
(* the exception that EverySeriesIsOwned shows).                           *)
OnlyGivenUpIsLost ==
    \A a \in live : Owned(a) \/ (a \notin series_list /\ stop[a] /\ retries[a] = RREQ_RETRIES)

(* The limit is read and charged in separate sections, and the test is >:  *)
(* this is how far the log can exceed RREQ_RATELIMIT.                      *)
LogBound == rreq_log <= RREQ_RATELIMIT + Cardinality(Thread \ RxThread)

(* The listed series are the discoveries that run: one at a time for a     *)
(* destination, and every one ends, by a route or by giving up (line 36).  *)
Abstract == INSTANCE Discovery
    WITH Id <- Address, discoveries <- {<<key[a], a>> : a \in series_list}

IsDiscovery == Abstract!Spec

DiscoveriesEnd == Abstract!FairSpec

(* A series marked by another thread before its last try is freed: its     *)
(* owner checks the mark at least once more (line 37).                     *)
MarkedIsFreed ==
    \A a \in Address :
        (a \in live /\ stop[a] /\ retries[a] < RREQ_RETRIES) ~> a \notin live

(* Line 38 read as it stands: an allocated series is owned by an           *)
(* invocation, a delete or the schedule table.                             *)
EverySeriesIsOwned ==
    \A a \in live : Owned(a) \/ \E t \in Thread : pc[t] = "drop" /\ cur[t] = a
=============================================================================

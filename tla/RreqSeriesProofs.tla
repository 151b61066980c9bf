-------------------------- MODULE RreqSeriesProofs --------------------------
(* Proofs that the ownership discipline of the RREQ series holds for any   *)
(* number of threads, destinations, heap addresses and retries.            *)
EXTENDS RreqSeries, FiniteSetTheorems, TLAPS

(* A delete that is between its two steps holds the lock. *)
LockInv == \A t \in Thread : pc[t] = "drop" <=> lock = t

(* The mark says exactly that the series is not linked. *)
ListInv == \A a \in Address : a \in live => (stop[a] <=> a \notin series_list)

(* While a delete is between its two steps, its series is marked and no    *)
(* other series has taken over the destination.                            *)
DropInv == \A t \in Thread : pc[t] = "drop" =>
    /\ stop[cur[t]]
    /\ \A a \in series_list : key[a] # key[cur[t]]

(* The inductive invariant: what the runs check, and what connects it. *)
SafetyInv ==
    /\ NoUseAfterFree
    /\ SingleOwner
    /\ OneSeriesPerKey
    /\ ScheduledIsRunning
    /\ ListedIsOwned
    /\ LockInv
    /\ ListInv
    /\ DropInv

IInv == TypeOK /\ SafetyInv

(* The assumptions on the constants, as one fact to cite. *)
LEMMA ConstantFacts ==
    /\ RxThread \subseteq Thread
    /\ PeriodicThread \in Thread \ RxThread
    /\ RREQ_RETRIES \in Nat
    /\ RREQ_RATELIMIT \in Nat
    /\ MaxStarts \in Nat
    /\ NoSeries \notin Address
    /\ NoThread \notin Thread
BY ThreadAssumption, LimitAssumption, NullAssumption

-----------------------------------------------------------------------------
(* Every variable keeps its type. *)
LEMMA TypeInit == Init => TypeOK
BY ConstantFacts DEF Init, TypeOK, PcStates

(* Every step keeps the types; the retry counter stays within RREQ_RETRIES *)
(* because only a series below the limit is counted up.                    *)
LEMMA TypeStep == TypeOK /\ [Next]_vars => TypeOK'
<1> SUFFICES ASSUME TypeOK, [Next]_vars PROVE TypeOK'
  OBVIOUS
<1> USE ConstantFacts DEF TypeOK, PcStates, Goto, Return
<1>1. ASSUME NEW t \in Thread, NEW k \in Key, StartSeries(t, k) PROVE TypeOK'
  BY <1>1 DEF StartSeries, series
<1>2. ASSUME NEW t \in Thread, NEW k \in Key, DeleteEther(t, k) PROVE TypeOK'
  <2>1. CASE UNCHANGED vars
    BY <2>1 DEF vars, series
  <2>2. ASSUME NEW a \in Listed(k), Unlink(t, a) PROVE TypeOK'
    BY <1>2, <2>2 DEF DeleteEther, Unlink, Unlinked, Listed
  <2> QED
    BY <1>2, <2>1, <2>2 DEF DeleteEther, vars
<1>3. ASSUME NEW k \in Key, PopSchedule(k) PROVE TypeOK'
  BY <1>3 DEF PopSchedule, Unscheduled, series
<1>4. ASSUME NEW t \in Thread, Continue(t) PROVE TypeOK'
  <2>1. CASE ReadCount(t)
    BY <2>1 DEF ReadCount, series
  <2>2. CASE SendRreq(t)
    BY <2>2 DEF SendRreq, series
  <2>3. CASE LogRreq(t)
    BY <2>3 DEF LogRreq, series
  <2>4. CASE CountRetry(t)
    BY <2>4 DEF CountRetry, LastTry, CountTry
  <2>5. CASE Reschedule(t)
    BY <2>5 DEF Reschedule
  <2>6. CASE GiveUp(t)
    BY <2>6 DEF GiveUp, Unlink, Unlinked
  <2>7. CASE DropSchedule(t)
    BY <2>7 DEF DropSchedule, Unscheduled
  <2> QED
    BY <1>4, <2>1, <2>2, <2>3, <2>4, <2>5, <2>6, <2>7 DEF Continue
<1>5. CASE AgeLog
  BY <1>5 DEF AgeLog, series
<1>6. CASE UNCHANGED vars
  BY <1>6 DEF vars, series
<1> QED
  BY <1>1, <1>2, <1>3, <1>4, <1>5, <1>6 DEF Next

(* Every variable always has its type; in particular no series is retried  *)
(* more than RREQ_RETRIES times.                                           *)
THEOREM TypeCorrect == Spec => []TypeOK
BY TypeInit, TypeStep, PTL DEF Spec

-----------------------------------------------------------------------------
(* A new series has a fresh address, which nothing points at, and a        *)
(* destination that no listed series has.                                  *)
LEMMA StartSeriesSafe ==
  ASSUME IInv, TypeOK', NEW t \in Thread, NEW k \in Key, StartSeries(t, k)
  PROVE  SafetyInv'
<1> USE ConstantFacts
        DEF IInv, SafetyInv, TypeOK, StartSeries, MayStart, Listed, Goto
<1>1. NoUseAfterFree'
  BY DEF NoUseAfterFree
<1>2. SingleOwner'
  BY DEF SingleOwner, Owns, NoUseAfterFree
<1>3. OneSeriesPerKey'
  BY DEF OneSeriesPerKey, NoUseAfterFree
<1>4. ScheduledIsRunning'
  BY DEF ScheduledIsRunning, NoUseAfterFree
<1>5. ListedIsOwned'
  BY DEF ListedIsOwned, Owned, Owns
<1>6. LockInv' /\ ListInv' /\ DropInv'
  BY DEF LockInv, ListInv, DropInv, NoUseAfterFree
<1> QED
  BY <1>1, <1>2, <1>3, <1>4, <1>5, <1>6

(* The periodic thread takes over the ownership of the schedule table. *)
LEMMA PopScheduleSafe ==
  ASSUME IInv, TypeOK', NEW k \in Key, PopSchedule(k)
  PROVE  SafetyInv'
<1> USE ConstantFacts
        DEF IInv, SafetyInv, TypeOK, PopSchedule, Unscheduled, Goto, series
<1>1. NoUseAfterFree' /\ OneSeriesPerKey'
  BY DEF NoUseAfterFree, OneSeriesPerKey
<1>2. SingleOwner'
  BY DEF SingleOwner, Owns, NoUseAfterFree
<1>3. ScheduledIsRunning'
  BY DEF ScheduledIsRunning
<1>4. ListedIsOwned'
  <2> SUFFICES ASSUME NEW b \in series_list PROVE Owned(b)'
    BY DEF ListedIsOwned
  <2>1. CASE b = schedule[k]
    BY <2>1 DEF Owned, Owns
  <2>2. CASE b # schedule[k]
    BY <2>2 DEF ListedIsOwned, Owned, Owns
  <2> QED
    BY <2>1, <2>2
<1>5. LockInv' /\ ListInv' /\ DropInv'
  BY DEF LockInv, ListInv, DropInv
<1> QED
  BY <1>1, <1>2, <1>3, <1>4, <1>5

(* Unmarked, the series passes to the table, where its destination had no  *)
(* schedule.  Marked, it is not listed and has no other owner: it may go.  *)
LEMMA RescheduleSafe ==
  ASSUME IInv, TypeOK', NEW t \in Thread, Reschedule(t)
  PROVE  SafetyInv'
<1> USE ConstantFacts
        DEF IInv, SafetyInv, TypeOK, Reschedule, Marked, Return, Goto
<1>1. Owns(t, cur[t]) /\ cur[t] \in live
  BY DEF Owns, NoUseAfterFree
<1>2. ASSUME NEW u \in Thread PROVE pc[u] # "drop"
  BY DEF LockInv
<1>3. ASSUME NEW j \in Key PROVE schedule[j] # cur[t]
  BY <1>1 DEF SingleOwner
<1>4. CASE ~stop[cur[t]]
  <2>1. cur[t] \in series_list
    BY <1>1, <1>4 DEF ListInv
  <2>2. schedule[key[cur[t]]] = NoSeries
    BY <1>2, <1>3, <2>1 DEF ScheduledIsRunning, OneSeriesPerKey, NoUseAfterFree
  <2>3. NoUseAfterFree' /\ OneSeriesPerKey'
    BY <1>1, <1>4 DEF NoUseAfterFree, OneSeriesPerKey
  <2>4. SingleOwner'
    BY <1>1, <1>3, <1>4 DEF SingleOwner, Owns
  <2>5. ScheduledIsRunning'
    BY <1>2, <1>4, <2>1 DEF ScheduledIsRunning
  <2>6. ListedIsOwned'
    BY <1>1, <1>4, <2>2 DEF ListedIsOwned, Owned, Owns
  <2>7. LockInv' /\ ListInv' /\ DropInv'
    BY <1>2, <1>4 DEF LockInv, ListInv, DropInv
  <2> QED
    BY <2>3, <2>4, <2>5, <2>6, <2>7
<1>5. CASE stop[cur[t]]
  <2>1. cur[t] \notin series_list
    BY <1>1, <1>5 DEF ListInv
  <2>2. \A u \in Thread : pc[u] # "idle" /\ u # t => cur[u] # cur[t]
    BY <1>1, <1>2 DEF SingleOwner, Owns, PcStates, NoUseAfterFree
  <2>3. NoUseAfterFree' /\ OneSeriesPerKey'
    BY <1>3, <1>5, <2>1, <2>2 DEF NoUseAfterFree, OneSeriesPerKey
  <2>4. SingleOwner' /\ ScheduledIsRunning'
    BY <1>2, <1>5 DEF SingleOwner, Owns, ScheduledIsRunning
  <2>5. ListedIsOwned'
    BY <1>5, <2>1 DEF ListedIsOwned, Owned, Owns
  <2>6. LockInv' /\ ListInv' /\ DropInv'
    BY <1>2, <1>5 DEF LockInv, ListInv, DropInv
  <2> QED
    BY <2>3, <2>4, <2>5, <2>6
<1> QED
  BY <1>4, <1>5

(* A delete takes the lock, unlinks and marks: no owner changes but that   *)
(* of the series the thread itself gives up.                               *)
LEMMA UnlinkSafe ==
  ASSUME IInv, TypeOK', NEW t \in Thread, NEW a \in live, Unlink(t, a),
         lock = NoThread,
         pc[t] = "idle" \/ (pc[t] = "delete" /\ cur[t] = a),
         UNCHANGED <<live, key, retries, schedule>>
  PROVE  SafetyInv'
<1> USE ConstantFacts DEF IInv, SafetyInv, TypeOK, Unlink, Unlinked, Goto
<1>1. a \in series_list
  BY DEF ListInv
<1>2. ASSUME NEW u \in Thread PROVE pc[u] # "drop"
  BY DEF LockInv
<1>3. NoUseAfterFree' /\ OneSeriesPerKey'
  BY DEF NoUseAfterFree, OneSeriesPerKey
<1>4. SingleOwner'
  BY DEF SingleOwner, Owns
<1>5. ScheduledIsRunning'
  BY <1>2 DEF ScheduledIsRunning
<1>6. ListedIsOwned'
  <2> SUFFICES ASSUME NEW b \in series_list, b # a PROVE Owned(b)'
    BY DEF ListedIsOwned
  <2>1. Owned(b)
    BY DEF ListedIsOwned
  <2> QED
    BY <2>1 DEF Owned, Owns
<1>7. LockInv' /\ ListInv'
  BY <1>2 DEF LockInv, ListInv
<1>8. DropInv'
  BY <1>1, <1>2 DEF DropInv, OneSeriesPerKey, NoUseAfterFree
<1> QED
  BY <1>3, <1>4, <1>5, <1>6, <1>7, <1>8

(* The schedule a delete finds is that of its own series, which therefore  *)
(* no thread is processing: freeing it leaves no pointer behind.           *)
LEMMA DropScheduleSafe ==
  ASSUME IInv, TypeOK', NEW t \in Thread, DropSchedule(t)
  PROVE  SafetyInv'
<1> USE ConstantFacts
        DEF IInv, SafetyInv, TypeOK, DropSchedule, IsScheduled, Unscheduled, Return, Goto
<1> DEFINE a == cur[t]
<1>1. /\ a \in live /\ stop[a] /\ a \notin series_list
      /\ \A b \in series_list : key[b] # key[a]
  BY DEF NoUseAfterFree, DropInv, ListInv
<1>2. \A u \in Thread : pc[u] = "drop" => u = t
  BY DEF LockInv
<1>3. schedule[key[a]] \in {NoSeries, a}
  BY <1>1, <1>2 DEF ScheduledIsRunning
<1>4. \A j \in Key : schedule[j] = a => j = key[a]
  BY <1>1 DEF ScheduledIsRunning
<1>5. NoUseAfterFree'
  <2>1. CASE schedule[key[a]] = NoSeries
    BY <2>1 DEF NoUseAfterFree
  <2>2. CASE schedule[key[a]] = a
    <3>1. \A u \in Thread : pc[u] # "idle" /\ u # t => cur[u] # a
      BY <1>1, <1>2, <2>2 DEF SingleOwner, Owns, PcStates, NoUseAfterFree
    <3> QED
      BY <1>1, <1>4, <2>2, <3>1 DEF NoUseAfterFree
  <2> QED
    BY <1>3, <2>1, <2>2
<1>6. SingleOwner' /\ OneSeriesPerKey'
  BY DEF SingleOwner, Owns, OneSeriesPerKey, NoUseAfterFree
<1>7. ScheduledIsRunning'
  BY <1>1, <1>2, <1>4 DEF ScheduledIsRunning
<1>8. ListedIsOwned'
  BY <1>1, <1>3 DEF ListedIsOwned, Owned, Owns
<1>9. LockInv' /\ ListInv' /\ DropInv'
  BY <1>1, <1>2 DEF LockInv, ListInv, DropInv
<1> QED
  BY <1>5, <1>6, <1>7, <1>8, <1>9

(* The steps outside the lock change neither an owner nor a pointer. *)
LEMMA OwnerStepSafe ==
  ASSUME IInv, TypeOK', NEW t \in Thread,
         ReadCount(t) \/ SendRreq(t) \/ LogRreq(t) \/ CountRetry(t)
  PROVE  SafetyInv'
<1>1. /\ UNCHANGED <<live, key, stop, series_list, lock, schedule, cur>>
      /\ pc[t] \in {"count", "send", "log", "decide"}
      /\ \E next \in {"send", "log", "decide", "reschedule", "delete"} :
            pc' = [pc EXCEPT ![t] = next]
  BY DEF ReadCount, SendRreq, LogRreq, CountRetry, Goto, series
<1> USE <1>1, ConstantFacts DEF IInv, SafetyInv, TypeOK
<1>2. \A u \in Thread : /\ pc'[u] = "idle" <=> pc[u] = "idle"
                        /\ pc'[u] = "drop" <=> pc[u] = "drop"
  OBVIOUS
<1>3. \A u \in Thread : \A a : Owns(u, a)' <=> Owns(u, a)
  BY DEF Owns
<1>4. NoUseAfterFree' /\ OneSeriesPerKey' /\ ScheduledIsRunning'
  BY <1>2 DEF NoUseAfterFree, OneSeriesPerKey, ScheduledIsRunning
<1>5. SingleOwner' /\ ListedIsOwned'
  BY <1>3 DEF SingleOwner, ListedIsOwned, Owned
<1>6. LockInv' /\ ListInv' /\ DropInv'
  BY <1>2 DEF LockInv, ListInv, DropInv
<1> QED
  BY <1>4, <1>5, <1>6

(* The owner finds its series marked when it gives up: it just leaves. *)
LEMMA LeaveSafe ==
  ASSUME IInv, TypeOK', NEW t \in Thread, pc[t] = "delete", stop[cur[t]], Return(t),
         UNCHANGED <<live, key, retries, stop, series_list, lock, schedule>>
  PROVE  SafetyInv'
<1> USE ConstantFacts DEF IInv, SafetyInv, TypeOK, Return, Goto
<1>1. cur[t] \notin series_list
  BY DEF NoUseAfterFree, ListInv
<1>2. NoUseAfterFree' /\ OneSeriesPerKey' /\ ScheduledIsRunning'
  BY DEF NoUseAfterFree, OneSeriesPerKey, ScheduledIsRunning
<1>3. SingleOwner'
  BY DEF SingleOwner, Owns
<1>4. ListedIsOwned'
  BY <1>1 DEF ListedIsOwned, Owned, Owns
<1>5. LockInv' /\ ListInv' /\ DropInv'
  BY DEF LockInv, ListInv, DropInv
<1> QED
  BY <1>2, <1>3, <1>4, <1>5

-----------------------------------------------------------------------------
(* No series exists at the start, hence the invariant holds. *)
LEMMA SafetyInit == Init => SafetyInv
BY ConstantFacts
   DEF Init, SafetyInv, NoUseAfterFree, SingleOwner, Owns, OneSeriesPerKey,
       ScheduledIsRunning, ListedIsOwned, LockInv, ListInv, DropInv

(* Every critical section keeps the ownership invariant. *)
LEMMA SafetyStep == IInv /\ [Next]_vars => IInv'
<1> SUFFICES ASSUME IInv, [Next]_vars PROVE SafetyInv'
  BY TypeStep DEF IInv
<1>t. TypeOK'
  BY TypeStep DEF IInv
<1>1. ASSUME NEW t \in Thread, NEW k \in Key, StartSeries(t, k) PROVE SafetyInv'
  BY <1>t, <1>1, StartSeriesSafe
<1>2. ASSUME NEW t \in Thread, NEW k \in Key, DeleteEther(t, k) PROVE SafetyInv'
  <2>1. ASSUME NEW a \in Listed(k), Unlink(t, a) PROVE SafetyInv'
    <3>1. a \in live
      BY DEF Listed, IInv, SafetyInv, NoUseAfterFree
    <3>2. UNCHANGED <<live, key, retries, schedule>> /\ lock = NoThread /\ pc[t] = "idle"
      BY <1>2 DEF DeleteEther
    <3> QED
      BY <1>t, <2>1, <3>1, <3>2, UnlinkSafe
  <2>2. CASE UNCHANGED vars
    BY <2>2 DEF IInv, vars, SafetyInv, NoUseAfterFree, SingleOwner, Owns,
                OneSeriesPerKey, ScheduledIsRunning, ListedIsOwned, Owned,
                LockInv, ListInv, DropInv
  <2> QED
    BY <1>2, <2>1, <2>2 DEF DeleteEther, vars
<1>3. ASSUME NEW k \in Key, PopSchedule(k) PROVE SafetyInv'
  BY <1>t, <1>3, PopScheduleSafe
<1>4. ASSUME NEW t \in Thread, Continue(t) PROVE SafetyInv'
  <2>1. CASE ReadCount(t) \/ SendRreq(t) \/ LogRreq(t) \/ CountRetry(t)
    BY <1>t, <2>1, OwnerStepSafe
  <2>2. CASE Reschedule(t)
    BY <1>t, <2>2, RescheduleSafe
  <2>3. CASE GiveUp(t)
    <3>1. /\ pc[t] = "delete" /\ lock = NoThread /\ cur[t] \in live
          /\ UNCHANGED <<live, key, retries, schedule>>
      BY <2>3 DEF GiveUp, IInv, SafetyInv, NoUseAfterFree
    <3>2. CASE Unlink(t, cur[t])
      BY <1>t, <3>1, <3>2, UnlinkSafe
    <3>3. CASE stop[cur[t]] /\ Return(t) /\ UNCHANGED <<stop, series_list, lock>>
      BY <1>t, <3>1, <3>3, LeaveSafe
    <3> QED
      BY <2>3, <3>2, <3>3 DEF GiveUp
  <2>4. CASE DropSchedule(t)
    BY <1>t, <2>4, DropScheduleSafe
  <2> QED
    BY <1>4, <2>1, <2>2, <2>3, <2>4 DEF Continue
<1>5. CASE AgeLog \/ UNCHANGED vars
  BY <1>5 DEF IInv, AgeLog, vars, series, SafetyInv, NoUseAfterFree, SingleOwner,
              Owns, OneSeriesPerKey, ScheduledIsRunning, ListedIsOwned, Owned,
              LockInv, ListInv, DropInv
<1> QED
  BY <1>1, <1>2, <1>3, <1>4, <1>5 DEF Next

(* The ownership invariant holds in every reachable state. *)
LEMMA Invariance == Spec => []IInv
<1>1. Init => IInv
  BY TypeInit, SafetyInit DEF IInv
<1> QED
  BY <1>1, SafetyStep, PTL DEF Spec

(* No thread, list or schedule ever points at a freed series. *)
THEOREM PointersStayLive == Spec => []NoUseAfterFree
<1>1. IInv => NoUseAfterFree
  BY DEF IInv, SafetyInv
<1> QED
  BY <1>1, Invariance, PTL

(* A series has at most one owner: it is never processed twice at a time.  *)
THEOREM OwnersAreUnique == Spec => []SingleOwner
<1>1. IInv => SingleOwner
  BY DEF IInv, SafetyInv
<1> QED
  BY <1>1, Invariance, PTL

(* At most one series to a destination is listed.                          *)
THEOREM OneDiscoveryPerKey == Spec => []OneSeriesPerKey
<1>1. IInv => OneSeriesPerKey
  BY DEF IInv, SafetyInv
<1> QED
  BY <1>1, Invariance, PTL

(* A schedule belongs to a series of its destination that still runs, so   *)
(* that the periodic thread never repeats one that was cancelled.          *)
THEOREM SchedulesBelongToListed == Spec => []ScheduledIsRunning
<1>1. IInv => ScheduledIsRunning
  BY DEF IInv, SafetyInv
<1> QED
  BY <1>1, Invariance, PTL

(* A listed series is never abandoned, which would block its destination.  *)
THEOREM ListedSeriesMovesOn == Spec => []ListedIsOwned
<1>1. IInv => ListedIsOwned
  BY DEF IInv, SafetyInv
<1> QED
  BY <1>1, Invariance, PTL

-----------------------------------------------------------------------------
(* The discoveries that run, in the terms of Discovery. *)
Running == {<<key[a], a>> : a \in series_list}

(* A step that leaves the list and the destinations alone is a stutter. *)
LEMMA QuietStep ==
  ASSUME series_list' = series_list, key' = key
  PROVE  UNCHANGED Running
BY DEF Running

(* Starting a series starts a discovery: its address is not in the list    *)
(* yet, and no listed series has its destination.                          *)
LEMMA StartMaps ==
  ASSUME IInv, NEW t \in Thread, NEW k \in Key, StartSeries(t, k)
  PROVE  Abstract!Next
<1>1. PICK a \in Address : /\ a \notin live
                           /\ key' = [key EXCEPT ![a] = k]
                           /\ series_list' = series_list \cup {a}
  BY DEF StartSeries
<1>2. /\ key \in [Address -> Key] /\ series_list \subseteq Address /\ a \notin series_list
      /\ \A b \in series_list : key[b] # k
  BY <1>1 DEF IInv, TypeOK, SafetyInv, NoUseAfterFree, StartSeries, MayStart, Listed
<1>3. key'[a] = k /\ \A b \in series_list : key'[b] = key[b]
  BY <1>1, <1>2
<1>4. Running' = Running \cup {<<k, a>>}
  BY <1>1, <1>3 DEF Running
<1>5. ~ \E i \in Address : <<k, i>> \in Running
  BY <1>2 DEF Running
<1>6. Abstract!Start(k, a)
  BY <1>4, <1>5 DEF Abstract!Start, Abstract!Running, Running
<1> QED
  BY <1>6 DEF Abstract!Next

(* Unlinking a series ends its discovery. *)
LEMMA UnlinkMaps ==
  ASSUME IInv, NEW t \in Thread, NEW a \in live, key' = key, Unlink(t, a)
  PROVE  Abstract!Next
<1>1. /\ a \in Address /\ a \in series_list /\ key[a] \in Key
      /\ series_list' = series_list \ {a}
  BY DEF IInv, TypeOK, SafetyInv, ListInv, Unlink, Unlinked
<1>2. Running' = Running \ {<<key[a], a>>} /\ <<key[a], a>> \in Running
  BY <1>1 DEF Running
<1>3. Abstract!End(key[a], a)
  BY <1>2 DEF Abstract!End, Running
<1> QED
  BY <1>1, <1>3 DEF Abstract!Next

(* Every step starts one discovery, ends one, or changes none. *)
LEMMA StepMaps == IInv /\ [Next]_vars => [Abstract!Next]_Running
<1> SUFFICES ASSUME IInv, [Next]_vars PROVE Abstract!Next \/ UNCHANGED Running
  OBVIOUS
<1>1. ASSUME NEW t \in Thread, NEW k \in Key, StartSeries(t, k) PROVE Abstract!Next
  BY <1>1, StartMaps
<1>2. ASSUME NEW t \in Thread, NEW k \in Key, DeleteEther(t, k)
      PROVE  Abstract!Next \/ UNCHANGED Running
  <2>1. key' = key
    BY <1>2 DEF DeleteEther
  <2>2. ASSUME NEW a \in Listed(k), Unlink(t, a) PROVE Abstract!Next
    <3>1. a \in live
      BY DEF Listed, IInv, SafetyInv, NoUseAfterFree
    <3> QED
      BY <2>1, <2>2, <3>1, UnlinkMaps
  <2> QED
    BY <1>2, <2>1, <2>2, QuietStep DEF DeleteEther
<1>3. ASSUME NEW t \in Thread, Continue(t) PROVE Abstract!Next \/ UNCHANGED Running
  <2>1. CASE GiveUp(t)
    <3>1. key' = key /\ cur[t] \in live
      BY <2>1 DEF GiveUp, IInv, SafetyInv, NoUseAfterFree
    <3> QED
      BY <2>1, <3>1, UnlinkMaps, QuietStep DEF GiveUp
  <2>2. CASE ~GiveUp(t)
    <3>1. series_list' = series_list /\ key' = key
      BY <1>3, <2>2 DEF Continue, ReadCount, SendRreq, LogRreq, CountRetry, Reschedule,
                        DropSchedule, series
    <3> QED
      BY <3>1, QuietStep
  <2> QED
    BY <2>1, <2>2
<1>4. CASE AgeLog \/ (\E k \in Key : PopSchedule(k)) \/ UNCHANGED vars
  <2>1. series_list' = series_list /\ key' = key
    BY <1>4 DEF AgeLog, PopSchedule, vars, series
  <2> QED
    BY <2>1, QuietStep
<1> QED
  BY <1>1, <1>2, <1>3, <1>4 DEF Next

(* The RREQ series implement route discovery as the rest of the daemon     *)
(* sees it: one at a time for a destination.                               *)
THEOREM SeriesAreDiscoveries == Spec => IsDiscovery
<1>1. Init => Abstract!Init
  BY DEF Init, Abstract!Init
<1>2. IInv /\ [Next]_vars => [Abstract!Next]_Running
  BY StepMaps
<1> QED
  BY <1>1, <1>2, Invariance, PTL DEF Spec, IsDiscovery, Abstract!Spec, Running

-----------------------------------------------------------------------------
(* The threads between the rate limit test and the entry in the log. *)
InFlight == {t \in Thread : pc[t] \in {"send", "log"}}

(* Receive threads send no RREQ; the log and the RREQs in flight together  *)
(* stay within the limit plus one per sending thread.                      *)
LogInv ==
    /\ \A t \in RxThread : pc[t] \in {"idle", "drop"}
    /\ rreq_log + Cardinality(InFlight) <= RREQ_RATELIMIT + Cardinality(Thread \ RxThread)

(* At most all the threads that send are past the test and not yet logged. *)
LEMMA InFlightBound ==
  ASSUME \A t \in RxThread : pc[t] \in {"idle", "drop"}
  PROVE  /\ IsFiniteSet(InFlight) /\ IsFiniteSet(Thread \ RxThread)
         /\ Cardinality(InFlight) \in Nat /\ Cardinality(Thread \ RxThread) \in Nat
         /\ Cardinality(InFlight) <= Cardinality(Thread \ RxThread)
<1>1. IsFiniteSet(Thread \ RxThread)
  BY ThreadAssumption, FS_Subset
<1>2. InFlight \subseteq Thread \ RxThread
  BY DEF InFlight
<1> QED
  BY <1>1, <1>2, FS_Subset, FS_CardinalityType

(* Nothing is logged or in flight at the start. *)
LEMMA LogInit == Init => LogInv
<1> SUFFICES ASSUME Init PROVE LogInv
  OBVIOUS
<1>1. InFlight = {} /\ \A t \in RxThread : pc[t] \in {"idle", "drop"}
  BY ConstantFacts DEF Init, InFlight
<1> QED
  BY <1>1, InFlightBound, FS_EmptySet, ConstantFacts DEF Init, LogInv

(* Passing the test and logging keep the bound on log and RREQs in flight. *)
LEMMA LogStep == TypeOK /\ LogInv /\ [Next]_vars => LogInv'
<1> SUFFICES ASSUME TypeOK, LogInv, [Next]_vars PROVE LogInv'
  OBVIOUS
<1> DEFINE Quiet == \A t \in RxThread : pc[t] \in {"idle", "drop"}
<1>b. /\ IsFiniteSet(InFlight)
      /\ Cardinality(InFlight) \in Nat /\ Cardinality(Thread \ RxThread) \in Nat
  BY InFlightBound DEF LogInv
<1>q. Quiet' => /\ Cardinality(InFlight') \in Nat
                /\ Cardinality(InFlight') <= Cardinality(Thread \ RxThread)
  <2>1. Quiet' => InFlight' \subseteq Thread \ RxThread
    BY DEF InFlight
  <2>2. IsFiniteSet(Thread \ RxThread)
    BY ThreadAssumption, FS_Subset
  <2> QED
    BY <2>1, <2>2, FS_Subset, FS_CardinalityType
<1> USE ConstantFacts DEF TypeOK, LogInv
<1>1. ASSUME Quiet', InFlight' = InFlight, rreq_log' \in Nat, rreq_log' <= rreq_log
      PROVE  LogInv'
  BY <1>1, <1>b
<1> HIDE DEF LogInv
<1>2. ASSUME NEW t \in Thread, NEW k \in Key, StartSeries(t, k) PROVE LogInv'
  BY <1>1, <1>2 DEF LogInv, StartSeries, Goto, InFlight
<1>3. ASSUME NEW t \in Thread, NEW k \in Key, DeleteEther(t, k) PROVE LogInv'
  BY <1>1, <1>3 DEF LogInv, DeleteEther, Unlink, Goto, InFlight
<1>4. ASSUME NEW k \in Key, PopSchedule(k) PROVE LogInv'
  BY <1>1, <1>4 DEF LogInv, PopSchedule, Goto, InFlight
<1>5. ASSUME NEW t \in Thread, Continue(t) PROVE LogInv'
  <2>1. CASE ReadCount(t) /\ RateLimited
    BY <1>1, <2>1 DEF LogInv, ReadCount, Goto, InFlight
  <2>2. CASE ReadCount(t) /\ ~RateLimited
    <3>1. Quiet' /\ rreq_log' = rreq_log /\ rreq_log <= RREQ_RATELIMIT
      BY <2>2 DEF LogInv, ReadCount, RateLimited, Goto
    <3> QED
      BY <1>b, <1>q, <3>1 DEF LogInv
  <2>3. CASE LogRreq(t)
    <3>1. Quiet' /\ rreq_log' = rreq_log + 1
      BY <2>3 DEF LogInv, LogRreq, Goto
    <3>2. t \in InFlight /\ InFlight' = InFlight \ {t}
      BY <2>3 DEF LogRreq, Goto, InFlight
    <3>3. Cardinality(InFlight') = Cardinality(InFlight) - 1
      BY <1>b, <3>2, FS_RemoveElement
    <3> QED
      BY <1>b, <3>1, <3>3 DEF LogInv
  <2>4. CASE SendRreq(t)
    BY <1>1, <2>4 DEF LogInv, SendRreq, Goto, InFlight
  <2>5. CASE CountRetry(t)
    BY <1>1, <2>5 DEF LogInv, CountRetry, Goto, InFlight
  <2>6. CASE Reschedule(t)
    BY <1>1, <2>6 DEF LogInv, Reschedule, Return, Goto, InFlight
  <2>7. CASE GiveUp(t)
    BY <1>1, <2>7 DEF LogInv, GiveUp, Unlink, Return, Goto, InFlight
  <2>8. CASE DropSchedule(t)
    BY <1>1, <2>8 DEF LogInv, DropSchedule, Return, Goto, InFlight
  <2> QED
    BY <1>5, <2>1, <2>2, <2>3, <2>4, <2>5, <2>6, <2>7, <2>8 DEF Continue
<1>6. CASE AgeLog \/ UNCHANGED vars
  BY <1>1, <1>6 DEF LogInv, AgeLog, vars, InFlight
<1> QED
  BY <1>2, <1>3, <1>4, <1>5, <1>6 DEF Next

(* Testing and charging the limit in separate sections costs at most one   *)
(* RREQ for every thread that sends.                                       *)
THEOREM LogStaysBounded == Spec => []LogBound
<1>1. TypeOK /\ LogInv => LogBound
  BY InFlightBound, ConstantFacts DEF LogInv, LogBound, TypeOK
<1>2. Spec => []LogInv
  BY LogInit, LogStep, TypeCorrect, PTL DEF Spec
<1> QED
  BY <1>1, <1>2, TypeCorrect, PTL

-----------------------------------------------------------------------------
(* Discoveries of one destination are the same. *)
Unique == /\ Running \subseteq Key \X Address
          /\ \A p, q \in Running : p[1] = q[1] => p = q

(* What the abstract discoveries promise of the series that implement      *)
(* them, whatever these do: no two listed series have the same             *)
(* destination.  OneDiscoveryPerKey says so of the code; this says that    *)
(* the abstraction is strong enough to tell it to whoever builds on it.    *)
THEOREM DiscoveriesAreUnique == IsDiscovery => []OneSeriesPerKey
<1>1. Abstract!Init => Unique
  BY DEF Abstract!Init, Running, Unique
<1>2. Unique /\ [Abstract!Next]_Running => Unique'
  <2> SUFFICES ASSUME Unique, [Abstract!Next]_Running PROVE Unique'
    OBVIOUS
  <2> USE DEF Unique
  <2>1. ASSUME NEW k \in Key, NEW a \in Address, Abstract!Start(k, a)
        PROVE  Unique'
    <3>1. Running' = Running \cup {<<k, a>>}
      BY <2>1 DEF Abstract!Start, Running
    <3>2. \A b \in Address : <<k, b>> \notin Running
      BY <2>1 DEF Abstract!Start, Abstract!Running, Running
    <3>3. \A p \in Running : p[1] # k
      BY <3>2
    <3> QED
      BY <3>1, <3>3
  <2>2. ASSUME NEW k \in Key, NEW a \in Address, Abstract!End(k, a)
        PROVE  Unique'
    <3>1. Running' \subseteq Running
      BY <2>2 DEF Abstract!End, Running
    <3> QED
      BY <3>1
  <2>3. CASE Running' = Running
    BY <2>3
  <2> QED
    BY <2>1, <2>2, <2>3 DEF Abstract!Next
<1>3. Unique => OneSeriesPerKey
  <2> SUFFICES ASSUME Unique, NEW a \in series_list, NEW b \in series_list,
                      key[a] = key[b]
               PROVE  a = b
    BY DEF OneSeriesPerKey
  <2>1. <<key[a], a>> \in Running /\ <<key[b], b>> \in Running
    BY DEF Running
  <2>2. <<key[a], a>> = <<key[b], b>>
    BY <2>1 DEF Unique
  <2> QED
    BY <2>2
<1> QED
  BY <1>1, <1>2, <1>3, PTL DEF IsDiscovery, Abstract!Spec, Running

-----------------------------------------------------------------------------
(* The leak that EverySeriesIsOwned shows is the only one.                 *)

(* Who is about to give up has used up the retries. *)
LastInv == \A t \in Thread : pc[t] = "delete" => retries[cur[t]] = RREQ_RETRIES

LostInv == LastInv /\ OnlyGivenUpIsLost

(* A series that is allocated, unless it has been given up. *)
GivenUp(a) == a \notin series_list /\ stop[a] /\ retries[a] = RREQ_RETRIES

LEMMA LostInit == Init => LostInv
BY DEF Init, LostInv, LastInv, OnlyGivenUpIsLost

(* A thread that owns its series does not share it. *)
LEMMA OwnsAlone ==
  ASSUME IInv, NEW t \in Thread, NEW u \in Thread, Owns(t, cur[t]), Owns(u, cur[t])
  PROVE  u = t
<1>1. cur[t] \in live /\ live \subseteq Address
  BY DEF IInv, SafetyInv, NoUseAfterFree, TypeOK, Owns
<1> QED
  BY <1>1 DEF IInv, SafetyInv, SingleOwner

(* A new series is owned by the thread that starts it. *)
LEMMA StartSeriesLost ==
  ASSUME IInv, LostInv, NEW t \in Thread, NEW k \in Key, StartSeries(t, k)
  PROVE  LostInv'
<1>1. PICK a \in Address :
        /\ a \notin live /\ live' = live \cup {a}
        /\ retries' = [retries EXCEPT ![a] = 0]
        /\ stop' = [stop EXCEPT ![a] = FALSE]
        /\ series_list' = series_list \cup {a}
        /\ cur' = [cur EXCEPT ![t] = a]
  BY DEF StartSeries
<1>2. pc[t] = "idle" /\ pc' = [pc EXCEPT ![t] = "count"] /\ schedule' = schedule
  BY DEF StartSeries, Goto
<1> USE <1>1, <1>2 DEF IInv, SafetyInv, TypeOK, NoUseAfterFree
<1>3. LastInv'
  BY DEF LostInv, LastInv
<1>4. ASSUME NEW b \in live' PROVE Owned(b)' \/ GivenUp(b)'
  <2>1. CASE b = a
    BY <2>1 DEF Owned, Owns
  <2>2. CASE b # a
    <3>1. Owned(b) \/ GivenUp(b)
      BY <1>4, <2>2 DEF LostInv, OnlyGivenUpIsLost, GivenUp
    <3>2. Owned(b) => Owned(b)'
      BY DEF Owned, Owns
    <3>3. GivenUp(b) => GivenUp(b)'
      BY <1>4, <2>2 DEF GivenUp
    <3> QED
      BY <3>1, <3>2, <3>3
  <2> QED
    BY <2>1, <2>2
<1> QED
  BY <1>3, <1>4 DEF LostInv, OnlyGivenUpIsLost, GivenUp

(* Popping a schedule passes the series on. *)
LEMMA PopScheduleLost ==
  ASSUME IInv, LostInv, NEW k \in Key, PopSchedule(k)
  PROVE  LostInv'
<1> DEFINE t == PeriodicThread
<1>1. /\ pc[t] = "idle" /\ pc' = [pc EXCEPT ![t] = "count"] /\ t \in Thread
      /\ cur' = [cur EXCEPT ![t] = schedule[k]]
      /\ schedule' = [schedule EXCEPT ![k] = NoSeries]
      /\ UNCHANGED <<live, retries, stop, series_list>>
  BY ConstantFacts DEF PopSchedule, Unscheduled, Goto, series
<1> USE <1>1 DEF IInv, TypeOK
<1>2. LastInv'
  BY DEF LostInv, LastInv
<1>3. ASSUME NEW b \in live' PROVE Owned(b)' \/ GivenUp(b)'
  <2>1. Owned(b) \/ GivenUp(b)
    BY <1>3 DEF LostInv, OnlyGivenUpIsLost, GivenUp
  <2>2. Owned(b) => Owned(b)'
    <3>1. CASE b = schedule[k]
      BY <3>1 DEF Owned, Owns
    <3>2. CASE b # schedule[k]
      BY <3>2 DEF Owned, Owns
    <3> QED
      BY <3>1, <3>2
  <2>3. GivenUp(b) => GivenUp(b)'
    BY DEF GivenUp
  <2> QED
    BY <2>1, <2>2, <2>3
<1> QED
  BY <1>2, <1>3 DEF LostInv, OnlyGivenUpIsLost, GivenUp

(* A thread that goes on keeps its series, and nobody else counts its      *)
(* retries.                                                                *)
LEMMA OwnerStepLost ==
  ASSUME IInv, LostInv, NEW t \in Thread,
         ReadCount(t) \/ SendRreq(t) \/ LogRreq(t) \/ CountRetry(t)
  PROVE  LostInv'
<1>1. /\ UNCHANGED <<live, stop, series_list, schedule, cur>>
      /\ pc[t] \in {"count", "send", "log", "decide"}
      /\ \E next \in {"send", "log", "decide", "reschedule", "delete"} :
            /\ pc' = [pc EXCEPT ![t] = next]
            /\ next = "delete" => retries[cur[t]] >= RREQ_RETRIES /\ retries' = retries
      /\ \/ retries' = retries
         \/ retries[cur[t]] < RREQ_RETRIES
            /\ retries' = [retries EXCEPT ![cur[t]] = @ + 1]
  <2>1. CASE ReadCount(t) \/ SendRreq(t) \/ LogRreq(t)
    BY <2>1 DEF ReadCount, SendRreq, LogRreq, Goto, series
  <2>2. CASE CountRetry(t)
    <3>1. cur[t] \in Address
      BY <2>2, ConstantFacts DEF CountRetry, IInv, SafetyInv, NoUseAfterFree, TypeOK
    <3>2. retries[cur[t]] \in Nat
      BY <3>1 DEF IInv, TypeOK
    <3> QED
      BY <2>2, <3>2, ConstantFacts DEF CountRetry, LastTry, CountTry, Goto
  <2> QED
    BY <2>1, <2>2
<1>2. Owns(t, cur[t]) /\ cur[t] \in live /\ cur[t] \in Address
  BY <1>1 DEF Owns, IInv, SafetyInv, NoUseAfterFree, TypeOK
<1>3. retries \in [Address -> 0..RREQ_RETRIES] /\ pc \in [Thread -> PcStates]
  BY DEF IInv, TypeOK
<1>4. LastInv'
  <2> SUFFICES ASSUME NEW u \in Thread, pc'[u] = "delete"
               PROVE  retries'[cur[u]] = RREQ_RETRIES
    BY <1>1 DEF LastInv
  <2>1. CASE u = t
    <3>1. retries[cur[t]] >= RREQ_RETRIES /\ retries' = retries
      BY <1>1, <1>3, <2>1
    <3> QED
      BY <1>2, <1>3, <2>1, <3>1, ConstantFacts
  <2>2. CASE u # t
    <3>1. pc[u] = "delete" /\ retries[cur[u]] = RREQ_RETRIES
      BY <1>1, <1>3, <2>2 DEF LostInv, LastInv
    <3>2. cur[u] # cur[t] /\ cur[u] \in Address
      BY <1>2, <2>2, <3>1, OwnsAlone DEF Owns, IInv, SafetyInv, NoUseAfterFree, TypeOK
    <3> QED
      BY <1>1, <1>3, <3>1, <3>2
  <2> QED
    BY <2>1, <2>2
<1>5. ASSUME NEW b \in live PROVE Owned(b)' \/ GivenUp(b)'
  <2>1. Owned(b) \/ GivenUp(b)
    BY <1>5 DEF LostInv, OnlyGivenUpIsLost, GivenUp
  <2>2. Owned(b) => Owned(b)'
    BY <1>1, <1>3 DEF Owned, Owns
  <2>3. GivenUp(b) /\ b # cur[t] => GivenUp(b)'
    <3>1. b \in Address
      BY DEF IInv, TypeOK
    <3> QED
      BY <1>1, <1>3, <3>1 DEF GivenUp
  <2> QED
    BY <1>2, <2>1, <2>2, <2>3 DEF Owned
<1> QED
  BY <1>1, <1>4, <1>5 DEF LostInv, OnlyGivenUpIsLost, GivenUp

(* The owner passes the series to the schedule table, or frees it. *)
LEMMA RescheduleLost ==
  ASSUME IInv, LostInv, NEW t \in Thread, Reschedule(t)
  PROVE  LostInv'
<1>1. /\ pc[t] = "reschedule" /\ pc' = [pc EXCEPT ![t] = "idle"]
      /\ cur' = [cur EXCEPT ![t] = NoSeries]
      /\ UNCHANGED <<retries, stop, series_list>>
      /\ \/ live' = live \ {cur[t]} /\ schedule' = schedule
         \/ /\ live' = live
            /\ schedule' = [schedule EXCEPT ![key[cur[t]]] = cur[t]]
            /\ ~stop[cur[t]]
  BY DEF Reschedule, Marked, Return, Goto
<1>2. Owns(t, cur[t]) /\ cur[t] \in live /\ cur[t] \in Address
  BY <1>1 DEF Owns, IInv, SafetyInv, NoUseAfterFree, TypeOK
<1> USE DEF IInv, TypeOK
<1>3. LastInv'
  BY <1>1 DEF LostInv, LastInv
<1>4. ASSUME NEW b \in live' PROVE Owned(b)' \/ GivenUp(b)'
  <2>1. Owned(b) \/ GivenUp(b)
    BY <1>1, <1>4 DEF LostInv, OnlyGivenUpIsLost, GivenUp
  <2>2. GivenUp(b) => GivenUp(b)'
    BY <1>1 DEF GivenUp
  <2>3. CASE b = cur[t]
    BY <1>1, <1>2, <1>4, <2>3 DEF Owned
  <2>4. CASE b # cur[t] /\ \E u \in Thread : Owns(u, b)
    BY <1>1, <2>4 DEF Owned, Owns
  <2>5. CASE b # cur[t] /\ \E j \in Key : schedule[j] = b
    <3>1. PICK j \in Key : schedule[j] = b
      BY <2>5
    <3>2. CASE schedule' = schedule
      BY <3>1, <3>2 DEF Owned
    <3>3. CASE schedule' # schedule
      <4>1. ~stop[cur[t]] /\ cur[t] \in series_list
        BY <1>1, <1>2, <3>3 DEF SafetyInv, ListInv
      <4>2. key[b] = j /\ b \in series_list
        <5>1. lock = NoThread
          BY DEF Reschedule
        <5>2. \A u \in Thread : pc[u] # "drop"
          BY <5>1, ConstantFacts DEF SafetyInv, LockInv
        <5> QED
          BY <1>1, <1>4, <3>1, <5>2, ConstantFacts DEF SafetyInv, ScheduledIsRunning
      <4>3. j # key[cur[t]]
        BY <2>5, <4>1, <4>2 DEF SafetyInv, OneSeriesPerKey
      <4> QED
        BY <1>1, <3>1, <3>3, <4>3 DEF Owned
    <3> QED
      BY <3>2, <3>3
  <2> QED
    BY <2>1, <2>2, <2>3, <2>4, <2>5 DEF Owned
<1> QED
  BY <1>3, <1>4 DEF LostInv, OnlyGivenUpIsLost, GivenUp

(* Unlinking ends nobody's ownership, but that of the thread which gives   *)
(* up its own series after the last try.                                   *)
LEMMA UnlinkLost ==
  ASSUME IInv, LostInv, NEW t \in Thread, NEW a \in live, Unlink(t, a),
         pc[t] = "idle" \/ (pc[t] = "delete" /\ cur[t] = a),
         UNCHANGED <<live, key, retries, schedule>>
  PROVE  LostInv'
<1>1. /\ pc' = [pc EXCEPT ![t] = "drop"] /\ cur' = [cur EXCEPT ![t] = a]
      /\ stop' = [stop EXCEPT ![a] = TRUE] /\ series_list' = series_list \ {a}
  BY DEF Unlink, Unlinked, Goto
<1> USE DEF IInv, TypeOK
<1>2. LastInv'
  BY <1>1 DEF LostInv, LastInv
<1>3. ASSUME NEW b \in live PROVE Owned(b)' \/ GivenUp(b)'
  <2>1. Owned(b) \/ GivenUp(b)
    BY <1>3 DEF LostInv, OnlyGivenUpIsLost, GivenUp
  <2>2. GivenUp(b) => GivenUp(b)'
    BY <1>1, <1>3 DEF GivenUp
  <2>3. CASE pc[t] = "idle"
    <3>1. Owned(b) => Owned(b)'
      BY <1>1, <2>3 DEF Owned, Owns
    <3> QED
      BY <2>1, <2>2, <3>1
  <2>4. CASE pc[t] = "delete" /\ cur[t] = a
    <3>1. CASE b = a
      <4>1. retries[a] = RREQ_RETRIES
        BY <2>4 DEF LostInv, LastInv
      <4> QED
        BY <1>1, <3>1, <4>1 DEF GivenUp
    <3>2. CASE b # a
      <4>1. Owned(b) => Owned(b)'
        BY <1>1, <2>4, <3>2 DEF Owned, Owns
      <4> QED
        BY <2>1, <2>2, <4>1
    <3> QED
      BY <3>1, <3>2
  <2> QED
    BY <2>3, <2>4
<1> QED
  BY <1>2, <1>3 DEF LostInv, OnlyGivenUpIsLost, GivenUp

(* A delete that drops the schedule of its series frees the series. *)
LEMMA DropScheduleLost ==
  ASSUME IInv, LostInv, NEW t \in Thread, DropSchedule(t)
  PROVE  LostInv'
<1> DEFINE a == cur[t]
<1>1. /\ pc[t] = "drop" /\ pc' = [pc EXCEPT ![t] = "idle"]
      /\ cur' = [cur EXCEPT ![t] = NoSeries]
      /\ schedule' = [schedule EXCEPT ![key[a]] = NoSeries]
      /\ live' = IF schedule[key[a]] # NoSeries THEN live \ {a} ELSE live
      /\ UNCHANGED <<retries, stop, series_list>>
  BY DEF DropSchedule, IsScheduled, Unscheduled, Return, Goto
<1>2. schedule[key[a]] \in {NoSeries, a} /\ a \in live /\ a \in Address
  <2>1. a \in live /\ a \in Address /\ \A b \in series_list : key[b] # key[a]
    BY <1>1 DEF IInv, SafetyInv, DropInv, NoUseAfterFree, TypeOK
  <2>2. \A u \in Thread : pc[u] = "drop" => u = t
    BY <1>1 DEF IInv, SafetyInv, LockInv
  <2>3. key[a] \in Key
    BY <2>1 DEF IInv, TypeOK
  <2> QED
    BY <2>1, <2>2, <2>3 DEF IInv, SafetyInv, ScheduledIsRunning
<1> USE DEF IInv, TypeOK
<1>3. LastInv'
  BY <1>1 DEF LostInv, LastInv
<1>4. ASSUME NEW b \in live' PROVE Owned(b)' \/ GivenUp(b)'
  <2>1. Owned(b) \/ GivenUp(b)
    BY <1>1, <1>4 DEF LostInv, OnlyGivenUpIsLost, GivenUp
  <2>2. GivenUp(b) => GivenUp(b)'
    BY <1>1 DEF GivenUp
  <2>3. ASSUME NEW u \in Thread, Owns(u, b) PROVE Owned(b)'
    BY <1>1, <2>3 DEF Owned, Owns
  <2>4. ASSUME NEW j \in Key, schedule[j] = b PROVE Owned(b)'
    <3>1. b # NoSeries
      BY <1>1, <1>4, ConstantFacts
    <3>2. j # key[a]
      BY <1>1, <1>2, <1>4, <2>4, <3>1
    <3> QED
      BY <1>1, <2>4, <3>2 DEF Owned
  <2> QED
    BY <2>1, <2>2, <2>3, <2>4 DEF Owned
<1> QED
  BY <1>3, <1>4 DEF LostInv, OnlyGivenUpIsLost, GivenUp

(* Who finds its series marked when it gives up leaves it, given up. *)
LEMMA LeaveLost ==
  ASSUME IInv, LostInv, NEW t \in Thread, pc[t] = "delete", stop[cur[t]], Return(t),
         UNCHANGED <<live, key, retries, stop, series_list, lock, schedule>>
  PROVE  LostInv'
<1>1. pc' = [pc EXCEPT ![t] = "idle"] /\ cur' = [cur EXCEPT ![t] = NoSeries]
  BY DEF Return, Goto
<1> USE DEF IInv, TypeOK
<1>2. LastInv'
  BY <1>1 DEF LostInv, LastInv
<1>3. ASSUME NEW b \in live PROVE Owned(b)' \/ GivenUp(b)'
  <2>1. Owned(b) \/ GivenUp(b)
    BY <1>3 DEF LostInv, OnlyGivenUpIsLost, GivenUp
  <2>2. GivenUp(b) => GivenUp(b)'
    BY DEF GivenUp
  <2>3. CASE b = cur[t]
    <3>1. retries[b] = RREQ_RETRIES /\ b \notin series_list
      BY <2>3, <1>3 DEF LostInv, LastInv, SafetyInv, ListInv
    <3> QED
      BY <2>3, <3>1 DEF GivenUp
  <2>4. CASE b # cur[t]
    BY <1>1, <2>1, <2>2, <2>4 DEF Owned, Owns
  <2> QED
    BY <2>3, <2>4
<1> QED
  BY <1>2, <1>3 DEF LostInv, OnlyGivenUpIsLost, GivenUp

LEMMA LostStep == IInv /\ LostInv /\ [Next]_vars => LostInv'
<1> SUFFICES ASSUME IInv, LostInv, [Next]_vars PROVE LostInv'
  OBVIOUS
<1>1. ASSUME UNCHANGED <<live, retries, stop, series_list, schedule, pc, cur>> PROVE LostInv'
  BY <1>1 DEF LostInv, LastInv, OnlyGivenUpIsLost, Owned, Owns
<1>2. ASSUME NEW t \in Thread, NEW k \in Key, StartSeries(t, k) PROVE LostInv'
  BY <1>2, StartSeriesLost
<1>3. ASSUME NEW t \in Thread, NEW k \in Key, DeleteEther(t, k) PROVE LostInv'
  <2>1. ASSUME NEW a \in Listed(k), Unlink(t, a) PROVE LostInv'
    <3>1. a \in live
      BY DEF Listed, IInv, SafetyInv, NoUseAfterFree
    <3>2. UNCHANGED <<live, key, retries, schedule>> /\ pc[t] = "idle"
      BY <1>3 DEF DeleteEther
    <3> QED
      BY <2>1, <3>1, <3>2, UnlinkLost
  <2>2. CASE UNCHANGED <<stop, series_list, lock, pc, cur>>
    BY <1>1, <1>3, <2>2 DEF DeleteEther
  <2> QED
    BY <1>3, <2>1, <2>2 DEF DeleteEther
<1>4. ASSUME NEW k \in Key, PopSchedule(k) PROVE LostInv'
  BY <1>4, PopScheduleLost
<1>5. ASSUME NEW t \in Thread, GiveUp(t) PROVE LostInv'
  <2>1. /\ pc[t] = "delete" /\ cur[t] \in live
        /\ UNCHANGED <<live, key, retries, schedule>>
    BY <1>5 DEF GiveUp, IInv, SafetyInv, NoUseAfterFree
  <2>2. CASE Unlink(t, cur[t])
    BY <2>1, <2>2, UnlinkLost
  <2>3. CASE stop[cur[t]] /\ Return(t) /\ UNCHANGED <<stop, series_list, lock>>
    BY <2>1, <2>3, LeaveLost
  <2> QED
    BY <1>5, <2>2, <2>3 DEF GiveUp
<1>6. ASSUME NEW t \in Thread, Continue(t) PROVE LostInv'
  BY <1>5, <1>6, OwnerStepLost, RescheduleLost, DropScheduleLost DEF Continue
<1>7. CASE AgeLog \/ UNCHANGED vars
  BY <1>1, <1>7 DEF AgeLog, vars, series
<1> QED
  BY <1>2, <1>3, <1>4, <1>6, <1>7 DEF Next

(* A series is lost only when it has been given up after its last try:     *)
(* however starting, repeating and cancelling interleave, every other      *)
(* series that is allocated has an owner who will free it or pass it on.   *)
THEOREM LeaksAreGivenUp == Spec => []OnlyGivenUpIsLost
<1>1. LostInv => OnlyGivenUpIsLost
  BY DEF LostInv
<1> QED
  BY <1>1, LostInit, LostStep, Invariance, PTL DEF Spec
=============================================================================

# des-aodv in TLA+

des-aodv is a routing daemon for wireless meshes: an implementation of AODV on
top of the libdessert framework. This directory holds a formal model of its
core: specifications that TLC checks on small instances and theorems that TLAPS
checks for every value of their constants. Paths below are relative to the
repository's `src/` directory.

## 1. The system

### Threads and locks

One receive thread per mesh interface runs the callbacks registered in `aodv.c`
(170-182). One thread reads the TUN interface and runs `aodv_sys2rp`. One
periodic thread sends hellos, executes schedules every 20 ms, and cleans the
database every 640 ms. The command line has a thread of its own.

Every `aodv_db_*` function holds `db_rwlock` while it runs, so that one database
call is atomic and a sequence of calls is not. `series_list_lock` guards the list
of RREQ series, and is taken before `db_rwlock`. `seq_num_lock` and
`data_seq_lock` guard a counter each and are never held during another call.

### Inventory

| Component | State | Operations | What is hard | What makes it correct |
|---|---|---|---|---|
| RREQ series (`pipeline/aodv_pipeline.c` 35-265) | list of running series, retries, deletion mark, schedule per destination | start, send, count, reschedule, cancel, give up | three kinds of threads, ownership passes through the schedule table, rate limit | a series is freed once and never used after, one per destination, each ends |
| Pipeline handlers (`pipeline/aodv_pipeline.c` 269-561) | own sequence number | drop errors, RREQ, RREP, RERR, hello | frames lost, reordered and repeated; reads and writes in several database calls | numbers never fall behind, a RREQ is processed once, answers only with a route |
| Routing table (`database/routing_table/aodv_rt.c`) | entries with flags, next hop table with pointers to entries | capture RREQ/RREP, look up, invalidate, warn, purge | two tables that must agree, handlers that need several calls, expiry at any moment | newest information wins, the tables mirror each other, a RERR reports what is lost |
| Neighbour table (`database/neighbor_table/nt.c`) | neighbours with lifetimes | capture answer, time out, reset, check | one-way links, losses, an answer racing with the timeout | bidirectional neighbours only, loss is reported |
| Periodic tasks (`pipeline/aodv_periodic.c`) | - | hello, execute schedule, clean up, RERR from a list | schedules interleave with handlers | every schedule is executed once |
| Schedule table (`database/schedule_table/aodv_st.c`) | sorted doubly linked list plus hash | add, pop, drop | pointer surgery at the ends | list and hash agree, earliest due first |
| Timeslot (`database/timeslot.c`) | doubly linked list sorted by purge time, plus hash | add/refresh, delete, purge | timestamps out of order, removal during a purge | nothing is purged early, earliest first |
| Data forwarding (`pipeline/aodv_forward.c`) | number of the last data packet | host to mesh, mesh to host, forward, flush the buffer | check, push and request are separate steps, and so are capture and delivery | no packet forgotten or sent twice, taken once and in order |
| Packet buffer (`database/packet_buffer/packet_buffer.c`) | a FIFO per destination, with a timeout (and a limit of UINT32_MAX) | push, pop, purge | several readers | every packet once |
| Data sequence table (`database/data_seq/ds.c`) | last number per source, for 6 s | capture, time out | wrap-around, reordering, copies later than the timeout | no packet taken twice while the source is known |
| Rate logs (`database/rreq_log`, `database/rerr_log`) | count of the last second | put, get | read and charge are separate | the limit holds up to one per thread |
| Metrics (`pipeline/aodv_metric.c`), comparisons (`helper.c`) | - | add a hop, compare | overflow, circular order | a consistent preference |
| PDR tracker (`database/pdr_tracker/pdr.c`) | list and count of hellos per neighbour | capture, count, rate, ETX, change of interval or factor | a hello heard twice, 8-bit counters, two timeouts, division | count and list agree, rates within range, a silent neighbour is forgotten |
| Gossip (`pipeline/aodv_gossip.c`) | hold queue | decide, hold, release | a queue nobody runs | a held RREQ is sent or superseded (not modelled, see 5) |
| Command line (`cli/`), start (`aodv.c`), facade (`database/aodv_database.c`) | parameters, the lock | set, show; one wrapper per call | - | the wrappers take the right lock |

Components talk through direct calls; the links that matter to the models are:

* handlers and TUN thread start and cancel **series**; a series waits in the
  **schedule table**, from which the periodic thread takes it back;
* a timeout in the **neighbour table** adds a SEND_OUT_RERR schedule, whose
  execution invalidates routes in the **routing table** and sends RERRs;
* a RREP that is used cancels the **series** and empties the **packet buffer**;
* handlers and the SEND_OUT_RERR schedule read and change the **routing table** in
  several calls, between which the other threads run;
* every hello is captured by the **PDR tracker** before it is answered, and the
  **metrics** ask the tracker for the rate of the link a RREQ or RREP came over;
* all tables expire their objects through a **timeslot**, and not only in the clean-up of the
  periodic thread: every addition to a timeslot ends in a purge of it, on whatever thread.

The hazards of this code, each at its line with the properties that would catch
it, are listed in `PROJECT.json`.

## 2. The modules

| Module | Models | One step is |
|---|---|---|
| `Discovery` | abstract: what route discovery promises | start or end of a discovery |
| `RreqSeries` | `aodv_pipeline.c` 35-265, the pop in `aodv_periodic.c`, `rreq_log.c` | one critical section, or one call outside any lock |
| `SeqNum`, `RoutingOps` | `helper.c` 29-54; `aodv_rt.c` | operators on the values of one node's tables |
| `Aodv` | a network of nodes: handlers, senders, timeouts, faults | one callback or periodic task of one node |
| `NodeRoutes` | the tables of one node under all its threads: `aodv_rt.c`, the handlers, the RERR and warning tasks | one database call |
| `DueMap` | abstract: keys with due times | set, drop, take the earliest that is due |
| `Timeslot`, `ScheduleTable` | `timeslot.c`, `aodv_st.c`, pointer by pointer | one call; a purge is one step per object |
| `OrderedDelivery` | abstract: what the hosts may expect of the data path | a packet gets its number, or reaches a host |
| `DataPath` | `aodv_forward.c`, `packet_buffer.c`, `ds.c` | one call that takes a lock, or one call outside any |
| `Hello` | hello handling, `nt.c` | one callback; time passes in hello intervals |
| `PdrTracker` | `pdr.c` and the metrics made of it, for one neighbour | one database call; time passes in ticks |
| `*Proofs` | the theorems about the module of that name | |
| `MC*` | instances for TLC | |

`RreqSeries` implements `Discovery` (`IsDiscovery`), and `DataPath` uses that
abstraction for the discovery of its destination instead of the series
themselves. `DataPath` in turn implements `OrderedDelivery` (`IsOrderedDelivery`): a
packet enters when it draws its number. `Timeslot` and `ScheduleTable` implement `DueMap` (`IsDueMap`), which
is what the other modules assume of timeouts and schedules. `Aodv` takes its
neighbours as given; `Hello` models how they are found. `Aodv` and `NodeRoutes`
share the operators of `RoutingOps`: the first has many nodes and takes a handler
as one step, the second has one node and takes each database call as one.

### RreqSeries

Series are heap cells: `live`, `key`, `retries`, `stop` are the fields of
`struct aodv_rreq_series` by address, and `free` makes an address available to the
next `malloc`. `series_list` is the list of the code, `schedule` the
AODV_SC_REPEAT_RREQ entries of the schedule table, and `cur[t]` the pointer that a
thread holds. `pc[t]` follows a thread through `aodv_send_rreq_real`: "count"
(read the rate), "send", "log", "decide" (retry or give up), "reschedule"; and
through a delete: "drop" is between taking the series off the list and dropping
its schedule, with `series_list_lock` held. `Owned` gives the three
places that may own a series. Two simplifications: the message is part of the
series (so the message that is lost when a series runs already is not seen), and time is abstract (a schedule may be due, and a log entry age, at any
moment).

### Aodv, RoutingOps and SeqNum

`rt[n]` is the routing table of node n (hop count, interfaces, precursors and the
WARN and LOCAL_USED flags left out), `nht[n]` the next hop table as pairs, and
`dangling[n]` the pairs whose pointer outlived its entry: a RERR that follows one
may invalidate any entries of the node and report any addresses and numbers
(`junk`). `RerrLists` is how `aodv_create_rerr` spreads a list of lost destinations over
RERRs: it counts one destination more than an extension holds (`aodv_periodic.c` 135), and
what libdessert makes of that is open, so that a longer list is split in any way or
refused, which sends RERRs that list nothing. Frames are a set of records, one for each receiver; a loss is
a frame that is never received. `Receive` applies `aodv_drop_errors` and then the
handler, as one step of the node (`NodeRoutes` has the calls one by one). A RREQ
is also captured as a RREP for its originator with number 0, exactly as line 369
does. The counter of retries is abstracted: a series may give up at any moment.
Neighbours are those of the links that work; a link that broke does not come back.
Sequence numbers are compared on the circle `SeqMod` with the comparison of
`hf_comp_u32`; `SEQ_MAX` is UINT32_MAX. The metric wraps at `MaxMetric`.

### NodeRoutes

`rx[t]` says which call of its handler a receive thread makes next, and keeps the
locals it carries from one call to the next: the frame, and `num`, the sequence
number that a local repair has read. `per` does the same for the periodic thread in
its RERR task ("inv": invalidate the routes over the lost neighbour; "list": list
them for the RERR). Frames are arbitrary members of `Rreqs`, `Rreps` and `Rerrs`, so
that the other nodes need not be modelled. `Expire` may come between any two calls,
also within the RERR task: besides the clean-up, `rt_entry_create` (`aodv_rt.c` 92) and
`aodv_db_rt_getroute2dest` (301) end in `timeslot_purgeobjects`, on the receive and TUN
threads. (Within such a call the purge neither hits nor changes the entry it is about,
so that it can be a step of its own.) Freed memory may have become an entry again: a
write through a dangling pointer hits any set of entries (`Junk`), and a RERR may list
the address of any (`Reported`).

Histories state the properties: `moved` (destinations of which a RREQ has ever
replaced a known next hop, which `aodv_db_rt_capt_rreq` does without telling the next
hop table), `strayed` (those whose next hop is still the one of that RREQ), `fresh`
(destinations whose RREP was used during the RERR task) and `gone` (the entry a local
repair read from has been freed since). A route that a RREQ of `strayed` has put over
the lost neighbour is missed by the break; that is what line 183 does, and
`OnlyRreqsUnmirror` says that it is the only cause. `BreakIsComplete` and `ReportIsLost` are
about everything else.

### Timeslot and ScheduleTable

The state is the pointer structure: `prev`, `next`, head and tail, and the hash as
a set. `WellFormed` and `ListIsHash` say that both directions of the list agree
and that it lists exactly what the hash holds, in order. `limit` marks a purge in
progress; the callback is called with the element already unlinked. `Place` and
`Neighbour` name the element at which the search of an insertion ends (`aodv_st.c`
73-78, `timeslot.c` 138-144) by what the loop has found out then: it cannot pass this
element, and passed the one before.

### DataPath

One source host, its daemon and the destinations. The TUN thread goes through
"push" and "rreq" or through "draw" and "send"; a receive thread that gets a RREP
goes through "cancel" and the loop of "pop", "draw", "send". The network hands
out any message of `air`, any number of times and in any order. At a destination a receive
thread x first takes the packet (`Capture`, under `db_rwlock`) and, as a step of its own,
hands it to the host (`SysSend`, after the unlock); in between it is in `holds[r][x]`, and
another thread may be first with a later one. `DsTimeout` frees the entry of the source at
any moment, after which any old copy is taken as new. `got` and `again` record what the
host got, `taken` and `forgot` what the destination took while it had the entry, and
before it lost it.

The limit of the buffer is UINT32_MAX on a `uint32_t` (`config.h` 53), and no list gets
there: `Pushed` has the code's branch for it, the runs have a limit above the number of
packets, and no property is about it.

### Hello

A hello has ttl 2, its answer ttl 1; a node hears all frames sent over a link to
it, also those for others. Links have a direction, any subset of `Link` is there
at the start, and links break. A round ends when all hellos are sent, all frames
are heard or lost, and no entry is overdue (the clean-up runs more often than the
hello interval).

### PdrTracker

`entry` is the tracker's entry of one neighbour: `listed` are the keys of `msg_list`,
`left` the time until each is due in the timeslot of the entry, whose length `watch`
is fixed when the entry is created; `expected`, `purge` and `interv` follow the
interval that the neighbour tells. `peer` is the neighbour, which numbers its hellos
and may stop, restart at number 0 and change its interval. `air` holds the threads
that hear the current hello and have not handled it, `answering` those between the
capture and the count they answer with. `repeats` counts hellos captured while they
were listed, `streak` the hellos in a row that were heard, and `steady` says that the
neighbour has kept its interval since the entry exists; they are histories.

The rates are operators on an entry (`Pdr`, `EtxMul`, `EtxAdd`), and `LongerPdr` and
`LongerEtxAdd` what `aodv_metric_do` makes of them. Where the code goes on to divide
by zero (line 324 lacks a return, and the daemon ends at 333), `EtxAdd` is any metric.

`timeslot_addobject` purges what is due, so that the capture of a hello ends in `Purged`, as
the reading of the count and of the rates begins with it.

## 3. What is checked

| Run | Bounds | Properties |
|---|---|---|
| `series` | 3 threads (one of each kind), 2 destinations, 2 addresses, 1 retry, limit 1, 3 starts | `TypeOK`, `NoUseAfterFree`, `SingleOwner`, `ScheduledIsRunning`, `OnlyGivenUpIsLost`, `LogBound`, refinement `IsDiscovery`, liveness `DiscoveriesEnd`, `MarkedIsFreed` |
| `network` | triangle, hop count metric, flow a to c, 2 numbers per node, 1 destination per RERR extension, 1 fault | `TypeOK`, `SeqNotAhead`, `NoRouteToSelf`, `NextHopKnowsDest`, `SeqNeverOlder`, `HitReplyIsNewest` |
| `timeslot` | 4 objects, times 0..4, lifetimes 1 and 2 | `WellFormed`, refinement `IsDueMap` |
| `schedule` | 4 keys, times 0..3 | `ListIsHash`, refinement `IsDueMap` |
| `data` | 1 destination, TUN and 2 receive threads on each side, 2 packets, numbers modulo 4, 2 routes | `TypeOK`, `BufferedIsAwaited`, `PacketsAreOnce`, refinement `IsOrderedDelivery`, liveness `PacketsMoveOn` |
| `hello` | 3 nodes, 3 directed links, 1 tolerated loss, 1 fault | `TypeOK`, `NeighboursAreBidirectional`, `DroppedOnlyAfterLosses`, liveness `BrokenIsReported` |
| `routes` | 4 addresses, 2 of them neighbours, 2 receive threads (symmetric), numbers 1 and 2, RREQs of two originators over a neighbour each, RREPs and RERRs for one destination over both | `TypeOK`, `OnlyRreqsUnmirror`, `BreakIsComplete`, `ReportIsLost`, `RepairIsNotOutdated`, `SeqNeverOlder` |
| `pdr` | 2 receive threads, intervals 1 and 2, factors 1 and 2, counters modulo 4, hello numbers modulo 5, 1 stop or change | `TypeOK`, `CountIsListed`, `LosslessIsFull`, `RatesAreBounded`, `PathNeverImproves`, liveness `SilentIsForgotten` |
| `series_leak` | as `series` | `EverySeriesIsOwned` is violated |
| `network_return` | line of 3 nodes and a 4th out of reach, RFC metric, no faults | `ReturnedRreqIsOld` is violated |
| `network_repair` | line of 3 nodes, 1 fault | `ReplierHasRoute` is violated |
| `pdr_wrap` | 1 thread, counter modulo 4, tracking factor 5 | `AnyFactorIsFull` is violated |

Three properties that are defined but not run are implied by ones that are:
`OneSeriesPerKey` by `IsDiscovery` (theorem `DiscoveriesAreUnique`), `DeliveredOnce` by
`IsOrderedDelivery` (`OrderedIsOnce`), and `ListedIsOwned` by `OnlyGivenUpIsLost` with
`NoUseAfterFree`. All three are proved of the code as well.

Why the bounds are enough to be interesting: two addresses and three starts force
an address to be reused while other threads may hold it; the triangle has two
paths between any two nodes, so that frames overtake each other and metrics
compete; two numbers make answers of two generations coexist; two threads
empty the buffer of two packets; four list elements give
a first, a last and two in the middle; one tolerated loss separates "one missed
answer" from "two". In `routes` two threads suffice for a handler to be interrupted
by a whole other one, two neighbours for a next hop to be replaced, two numbers for
a RREP to be new, equal or old; the second originator's route expires while the
first's stays, and all frames can arrive any number of times, so that no bound
limits the length of a behaviour. In `pdr` the counter wraps (two threads hear the
same hellos), hello numbers repeat, and the minimal tracking interval of 3 lies
between the products of interval and factor, so that both branches of `Expected` and
`Watch` are taken. In `data` half of the four numbers are the two packets, which is the most
for which `IsOrderedDelivery` holds: with a third a late copy would count as newer. Two
packets and two threads at the destination suffice for one to overtake the other, and for a
copy to arrive before, while and after the other is held, and after the timeout.

Deadlock is checked for `series`, `timeslot`, `schedule` and `hello`. The networks and the data path come to rest when their bounds are used
up. `routes` can always expire or pop something, and `pdr` stops only when the
neighbour has used up its switches; their configurations turn it off as well. All MC modules use the specification
itself; no definition is replaced.

### Findings

1. **A series that gives up is never freed** (`series_leak`). The comment at line
   38 of `aodv_pipeline.c` names the only possible owners of a series. Line 230
   deletes a series in processing, which has no schedule that could be dropped;
   the mark is set, but nobody looks at it any more. `OnlyGivenUpIsLost` shows that no
   other series is lost.
2. **A RREQ that comes back is taken as new** (`network_return`). The comment at line 250
   of `aodv_pipeline.c` does without ttl "for loop detection": a RREQ that has come round
   is known by its number. But a RREQ also counts as a RREP with number 0 (line 369), and if
   the next hop of its originator was unknown, that resets the number of the entry to 0. The
   RREQ that the next node sends on is then newer than 0: it is taken once more, with
   that node as the next hop to the originator. (After that the number stays, because the
   next hop is known, so that a third copy is old.)
3. **Local repair with an invalid route** (`network_repair`). The comment at line
   401 asks for a valid route, the code for a known number.
4. **The hello counter wraps** (`pdr_wrap`). The command line takes tracking factors
   up to 1000, the count of received hellos is a `uint8_t` (`pdr.c` 219). With a factor
   beyond its range a link without losses appears bad.

Observations made on the way, without a line of the repository that says otherwise:

* By finding 2 two neighbours can have valid routes to one originator over each other: the
  capture of the returned RREQ (`aodv_rt.c` 183) turns the route around. Data packets do
  not circle on it: the first node to see one again drops it as a duplicate
  (`aodv_forward.c` 124), or as its own (`aodv_pipeline.c` 275).
* A list of lost destinations that is longer than an extension is counted up to one
  more than fits (`aodv_periodic.c` 135). If libdessert refuses the extension, nothing is
  taken off the list and the loop at line 193 sends RERRs without destinations for ever.
* The RERR for a stranded packet carries UINT32_MAX (`aodv_forward.c` 155), which is older than
  the numbers in use: it marks no route (theorem `StrandedRerrIsIgnored`).
* The next hop table is wrong for every destination of which a RREQ replaced a known
  next hop (`aodv_rt.c` 183), and keeps a pointer to the entry after it is freed.
  `OnlyRreqsUnmirror` says that nothing else makes it wrong; `BreakIsComplete` that a
  break of the neighbour misses no other route.
* Two receive threads of a destination may deliver two packets in the other order, because
  the delivery comes after the unlock (`aodv_forward.c` 259-265), and a copy that is late by
  more than the timeout of the entry (6 s, `ds.c` 54) is delivered again.
* A data packet that is overtaken by a later one, in the network or between the
  draw of its number and its sending (`aodv_forward.c` 46-58), is dropped as a
  duplicate. `IsOrderedDelivery` says that, while the source is known, it is never taken late
  instead.
* The number 0 with which a RREQ is captured as a RREP (`/* force */`, line 369) forces
  nothing where the next hop is known: the capture of the RREQ has just stored its
  number, and 0 is older (theorem `ZeroForcesOnlyUnknown`). A route that was invalidated is
  not made valid by a RREQ of its destination.
* Entries start with number 0 (`aodv_rt.c` 88), and 0 counts as newer than the upper
  half of the range: once its own number gets there, a node's RREQs are old for
  everyone who has no entry of it (`UpperHalfIsOld`).
* A hello that two radios hear, or whose number comes again after a restart of the
  neighbour, is counted twice and taken off once: the count stays too high until the
  entry goes (`repeats` in `CountIsListed`). The count of the neighbour's answer never
  ages at all.
* The length of the tracking interval stays when the neighbour changes its hello
  interval (`pdr.c` 201): a neighbour that has slowed down is then expected to be heard
  more often in it than it can be. `LosslessIsFull` is about neighbours that
  have kept theirs.
* The ETX_MUL metric divides by a 32nd of the range (`aodv_metric.c` 64-76): a perfect
  link multiplies a path's metric by 32, on a `uint16_t`.
* An interval or tracking factor of 0 divides by zero (`pdr.c` 41-46, 281-287); the
  constants of the model exclude it.
* `aodv_database.h` 68 says that the capture of a RREQ adds a precursor, which it does
  not, and 61 that the clean-up leaves the PDR tracker out, which it does not.

### Fairness

* `RreqSeries`: a thread that has begun an operation continues it, a schedule is
  executed in the end (the periodic thread pops every 20 ms), and log entries age
  (they live a second). Starting series is not fair. The bound on starts matters:
  without it the rate limit could postpone a series for ever.
* `DataPath`: threads continue what they began, and a discovery that is not
  cancelled gives up; the latter is what `DiscoveriesEnd` shows of `RreqSeries`.
  Neither learning a route nor receiving from the network is fair, so `PacketsMoveOn` cannot
  depend on an answer.
* `Hello`: time passes, hellos are sent, frames are heard *or lost*, and due
  entries time out. No frame need ever arrive.
* `PdrTracker`: time passes, a thread that hears a hello handles and answers it, and
  the clean-up (every 640 ms) drops an entry that is due. The neighbour need not
  send, stop or restart, and nothing need be heard.
* `Aodv` and `NodeRoutes` state no liveness.

## 4. What is proved

All theorems hold for every value of the constants that satisfies the `ASSUME`s of
the module. They say that the constants have the right types, and besides that
there are finitely many threads (series) and that the sequence numbers of nodes stay
in the lower half of the range (network, `MaxSeqNum < HalfSeq`; routes,
`NumberAssumption`): a node would have to send 2^31 RREQs to leave it, and would not be
heard any more (`UpperHalfIsOld`).

**RreqSeriesProofs**: `TypeCorrect`, `PointersStayLive`, `OwnersAreUnique`,
`OneDiscoveryPerKey`, `SchedulesBelongToListed`, `ListedSeriesMovesOn`, `LeaksAreGivenUp`,
`SeriesAreDiscoveries`, `DiscoveriesAreUnique`, `LogStaysBounded`. The invariant `IInv` joins the checked invariants, which are not
inductive one by one, with three that connect them: a thread at "drop" holds the
lock (`LockInv`), the mark says that the series is not listed (`ListInv`), and
between the two steps of a delete no new series of the destination exists
(`DropInv`). `DropInv` is what makes "dropped the schedule" mean "dropped *this*
series' schedule". The refinement maps the listed series to discoveries, and each
step to a start, an end or a stutter. The bound of the log needs the number of
threads that passed the rate check, hence finite sets. `LeaksAreGivenUp` turns finding 1
into a bound on it: on top of `IInv` it needs only that who is about to give up has used
up its retries (`LastInv`); a cancel by another thread never takes a series from its
owner, and the drop of a schedule frees what the schedule owned.

**AodvProofs**: `NetworkTypeCorrect`, `NobodyIsAhead`, `NobodyRoutesToItself`,
`NextHopsKnow`, `NumbersNeverOlder`, `HitRepliesAreNewest`. Lemmas state what each operator of `RoutingOps` leaves of a table;
the step lemmas follow the handlers. Below half of the range the circular
comparison is the ordinary one (`NewerIsGreater`), and that is where
`MaxSeqNum < HalfSeq` is used. `NextHopKnowsDest` needs that the sender of a RREQ or RREP
in flight knows a way to its originator or destination. `NumbersNeverOlder` follows
step by step from the types and the bound on the numbers: a capture compares with
`hf_comp_u32` before it takes a number, and every other step keeps that of an entry
that stays known. `HitRepliesAreNewest` is a consequence of `SeqNotAhead`: on a hit the
destination adds one to a number that nobody exceeds.

**NodeRoutesProofs**: `RoutesTypeCorrect`, `OnlyRreqsBreakTheMirror`,
`BreaksAreComplete`, `ReportsAreLost`, `RepairsAreNotOutdated`, `NumbersNeverOlder`, for any
number of receive threads, neighbours and addresses and any frames. The properties hold
together: that a break is complete needs the mirror (what is invalidated is found
through the next hop table), and that a report is lost needs what the
first of the two calls has left, whatever is purged, created and captured after it. What a
RERR reads through a dangling pointer is bounded by the mirror too: there is one only
where a RREQ has moved a next hop. `RepairIsNotOutdated` is not inductive: it needs
that all numbers lie in one half of the circle (`Low`), where the comparison is the
order of the integers, and is then implied by `AnswerIsLow`; this is where
`NumberAssumption` is used. `NumbersNeverOlder` is what the step lemmas call `Grows`, of
every call but the purge of the entry. About the comparison itself: `WindowsAreOrdered`
(any window of less than half of the numbers, across the wrap), `BothAreOldAtHalf` (where
it is not antisymmetric), `UpperHalfIsOld` and `ZeroForcesOnlyUnknown` (what it makes of
the number 0) and `StrandedRerrIsIgnored` (of UINT32_MAX).

**ScheduleTableProofs**: `ListAndHashAgree`, `TableIsDueMap`, for any keys and times, and
**TimeslotProofs**: `TimeslotIsWellFormed`, `TimeslotIsDueMap`, for any objects, times and
lifetimes. The two argue alike. The invariant (`Good`) says that some sequence
is what the list holds: `Lists` ties every pointer to a position, and whatever is not in
the list has no links. `DroppedGood` (`WithoutGood`) and `BetweenGood` give the
sequence after a removal and an insertion, with the cases in which a neighbour
of the place is missing; `PlaceFound` (`NeighbourFound`) says where the search ends, by the
first position at which it cannot go on (`Smallest`). Each call, and
each round of a purge, then maps to a step of `DueMap`: the first of a sorted list is
the earliest, so that who finds it not due has found that nothing is.

**DataPathProofs**: `DataTypeCorrect`, `NoPacketIsForgotten`, `PacketsStayOnce`,
`PacketsAreDeliveredOnce`, `DeliveryIsOrdered`, `OrderedIsOnce`. The second needs nothing but the types: the order cancel,
then flush, and the order push, then request, are each enough on their side. The
third adds that every packet in a place was made (`Placed`). The fourth is about
numbers: as many have been drawn as there are packets that drew one (`Numbered`), so
that with packets for at most half of the numbers none wraps; as long as the destination has
its entry it takes ever greater ones, none newer than the entry (`taken`), and what a
host got or a thread holds was taken, or is forgotten. A host therefore gets a packet again
only if its node had forgotten the source.
`DeliveryIsOrdered` is the refinement, with the hypothesis `MaxPackets <= SeqMod \div 2`: a
draw is an entrance with the greatest number so far, sending moves a message that has
entered, a capture takes, `SysSend` delivers, a timeout forgets, and all else stutters.

**HelloProofs**: `HelloTypeCorrect`, `OnlyBidirectionalNeighbours`,
`DropsAreLosses`. The invariant
adds what a frame in flight shows about links: it took a link, and an answer
answers a hello that took the link back. `DropsAreLosses` rests on `AgeIsMissed`: an
entry is never older than the number of answers that are missing in a row.

**PdrTrackerProofs**: `TrackerTypeCorrect`, `CountsAreListed`, `LosslessLinksAreFull`,
`RatesStayBounded`, `PathsNeverImprove`, for any intervals, factors, counter widths and metrics. `Sound` adds
to the type of an entry that it expects at least one hello once it exists, so that
no rate divides by zero. `CountIsListed` is an equation modulo the counter's width: the
purge takes off the count what it takes off the list, the rest are the repeats. The
bounds of the rates rest on lemmas about division, which the provers do not know.
`LosslessLinksAreFull` needs to know when each listed hello was heard. `WindowInv` says that
the hello heard j hellos ago is still listed as long as it is among the last `Expected`
ones, with as much of the watch left as that leaves it (`InWindow`), and that the hellos of
a neighbour that kept its interval come in time (`InTime`). The numbers of these hellos are
distinct (`HeardOnce`), so that the list has at least as many as are expected.

Every safety property that a passing run checks, the refinements included, is also
proved. Only model-checked: the liveness properties `DiscoveriesEnd`, `MarkedIsFreed`,
`PacketsMoveOn`, `BrokenIsReported` and `SilentIsForgotten` and the `ENABLED` of their fairness,
which are out of the prover's reach, and the four violations, which are counterexamples.

## 5. Not modelled, and why

* Reads and writes through dangling pointers of the next hop table hit any entries; a
  crash of the daemon by them, or damage to other memory, is not a behaviour of the models.
  Nor is the end of the daemon in a division by zero (`pdr.c` 333).
* How libdessert splits a long RERR: `RerrLists` allows every way.
* Gossip: off by default. GOSSIP_0 and GOSSIP_1 drop RREQs at random, which is the
  loss that `Aodv` has; GOSSIP_3 shadows a variable and writes through a null
  pointer with the first message it holds (`aodv_gossip.c` 105-116), so that the hold
  queue has no behaviour to model.
* The RSSI metric and the RSSI samples that schedule a warning: they depend on the
  radio. A warning may come at any moment in `NodeRoutes`.
* The step of the ETX_MUL metric (see the observations); its rate is modelled.
* `aodv_db_pdr_neighbor_reset` and `aodv_db_remove_nexthop`, which nobody calls.
* How the handlers of two nodes interleave call by call: `Aodv` has the nodes,
  `NodeRoutes` the calls.
* Hop counts, precursor lists, `last_hello_seq`: no decision reads them.
* The concrete TTL schedule of the ring search: a RREQ starts with any TTL of
  `RreqTtl`; loss already gives every prefix of a flood.
* Command line, configuration, reports, packaging.
* Failure of `malloc`, and libdessert itself (its links are the actions marked
  external).

## 6. Plan

Done: the RREQ series with their abstract specification and proofs; the network; the
tables of a node under its threads, with purges by any of them; the two containers; the
data path to the host of its destination; the neighbour discovery; the PDR tracker; the
data path's abstract specification of ordered delivery; the safety proofs of all of them.

What could come next:

1. Composition of `Hello` with the RERR schedule and `NodeRoutes`: from a broken link to
   the RERR that its neighbours get.
2. A version of `NodeRoutes` in which the next hop table follows RREQs, to show that the
   exception `moved` goes away.

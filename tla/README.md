# A TLA+ verification of Agg-Evict

Agg-Evict is a front end that speeds up network measurement in software. It
caches (flow, count) pairs in small buckets, counts packets there, and sends a
pair to the sketch behind it only when the pair is evicted or the measurement
epoch ends. Around it the repository has a DPDK packet receiver, which runs
measurement modules on every packet, and a DPDK packet sender, which searches
for the highest rate that the receiver sustains.

This directory models those parts in TLA+, checks them with TLC on small
instances and proves the central results with TLAPS for every value of the
constants. Source paths below are relative to `src/`; `simdbatch/` stands for
`pktreceiver/src/modules/simdbatch/`.

## 1. The system

| Part | Source | State | Operations |
|---|---|---|---|
| Front end | every `simdbatch/*simd.c`, `common.h` | `key`, `value`, `curpos`, `curkick` or `myclock`/`time_now` | `xx_inc` (hit, fill, kick), `xx_reset` (flush, zero) |
| SIMD search | the same functions | one bucket of 16 keys | compare, pack, mask, count zeros |
| Sketches | `simdbatch/` Count-Min, FM, linear counting, MRAC, reversible sketch, FlowRadar, TwoLevel, SpaceSaving, UnivMon | tables, heaps | `xx_inc`, `xx_reset`, and `xxsimd_inc_yy` for a pair |
| Modules | `simdbatch_xx_execute`, `_reset` | two buffers and a pointer to the active one | execute a batch, swap and reset |
| Receive loop | `pktreceiver/src/net.c`, `main.c` | `rx_bufs`, `rx_len`, `ticked`, statistics | `port_loop`, `rx_modules`, `port_set_tick` |
| Epochs | `pktreceiver/src/experiment.c` | position in the list of ports and modules | `expr_signal` |
| Sender, slave core | `mypktgen/main.c` | `trace_idx`, `index`, `sended` | `send_pkt_rate` |
| Sender, master core | `mypktgen/main.c` | `up_rate`, `down_rate`, `Mbps`, miss counters | rate search over TCP |
| Counting modules | `pktreceiver/src/modules/heavyhitter`, `superspreader`, `heavychange` | two hash maps, sketches or queues, value arrays, a reporter | execute a batch, reset |
| Data structures | `pktreceiver/src/dss/` | hash maps, counters, Bloom filter, priority queue | find, insert, displace, sift, reset |
| Reporter | `pktreceiver/src/reporter.c` | two buffers of entries | add an entry, swap, save |
| Configuration | `experiment.c`, `module.c`, `bootstrap.c`, `memory.c` | parser state, registry, huge page | YAML events, lookup, allocation |

How they interact: an rx core per port collects packets and hands each batch to
every module of the port. A packet whose `pktid` is a multiple of the report
threshold sets the port's tick. The stats core polls the ticks, clears one and
resets the modules of that port: each module swaps its buffers, and the buffer
that was active is flushed, reported and zeroed. Nothing is locked. The stats
core also sends the NIC's miss counter to the sender, whose master core halves
an interval of rates on it; the slave core sends the trace at that rate.

What is hard here:

* the key 0 of an empty slot is also a possible flow id;
* the flush sends empty slots too;
* `execute` keeps a buffer pointer while the stats core resets that buffer;
* a tick may be set while the stats core clears one;
* the NIC may refuse any part of a burst, and the sender winds back an unsigned
  index that the master core also writes;
* misses are attributed to rates only through a cumulative counter;
* the counting modules look up a whole batch before they count it, while
  insertions of the same batch move rows and the stats core clears tables;
* several resets clear one row less than they use;
* the reporter is shared by an rx core and the stats core without a lock.

`PROJECT.json` lists the main hazards with their lines.

## 2. Modules

| Module | Models |
|---|---|
| `AggEvict` | the front end, for any sketch (`EmptySketch`, `IncXX`) and both eviction policies |
| `DirectSketch` | the abstract specification: a sketch that is given every packet at once |
| `CMSketch`, `FMSketch`, `LinearCounting`, `MRAC`, `RevSketch`, `FlowRadar`, `UnivMon` | the plain sketches, instances of `DirectSketch`; `UnivMon` has the count sketch with a heap of the largest flows, four of which make it up |
| `CMSketchSimd` ... `UnivMonSimd` | the same sketches behind `AggEvict`, each with its relation to the plain counterpart |
| `SpaceSavingSimd` | the array heap of SpaceSaving, behind `AggEvict` |
| `BackEnds` | the back ends on one port, composed by conjunction over one front end |
| `TwoLevelSimd` | the superspreader sketch with its own front end of source-destination pairs, beside the table `twolevel.c` would have |
| `SimdMatch` | the search instructions, and the scalar loop of `flowradarnosimd.c` |
| `Receiver` | rx cores, stats core, ticks and double-buffered modules |
| `DoubleBuffer` | one `execute` against one `reset`, a step per memory access |
| `HashMap`, `HashMapCuckoo`, `HashMapCuckooBucket`, `CountMin` | the tables of `dss/`, as operators on table values; `HashMap` has `hashmap.c` and `hashmap_linear.c` |
| `Reporter` | the entries of an epoch, one operator per memory access |
| `HeavyHitters` | the nine table modules of `heavyhitter` and the four of `superspreader` over those structures |
| `HeavyHitterPQueue` | the priority queue of `dss/pqueue.c`, and the module that counts in it, with its spin lock |
| `SharedMap` | the hash maps that the modules of all ports count in by compare-and-swap |
| `HeavyChange` | the count heap of `heavychange`, and its four modules |
| `PktSender` | `send_pkt_rate` with the NIC and the restarts by the master core |
| `RateSearch` | the rate search of `main`, with the receiver's reports |
| `AggEvictProofs`, `SimdMatchProofs`, `ReceiverProofs`, `DoubleBufferProofs`, `PktSenderProofs`, `RateSearchProofs` | theorems |
| `MC*` | values of the constants for TLC |

Definitions keep the names of the source. An action is a whole handler where
the handler runs on one core without a concurrent writer (`AggEvict`), and a
step between two accesses to shared memory where it does not (`Receiver`,
`DoubleBuffer`, `PktSender`, `SharedMap`, the reporter). The counting modules
are in between: a step is the lookup or the count of one packet, one access to
the counter of a value array, or one store or one clearing of a reset. Hash
functions are constants.

**Front end.** `Hit`, `Fill` and `Kick` are the three exits of `xx_inc`;
`Reset` is `xx_reset` with its flush in the order of its two loops. `seen` and
`sent` are history variables. The plain specification is implemented under the
mapping "the sketch, with the cached pairs sent to it" (`FlushedFlows`), so a
hit and a fill are steps of the plain sketch although the real sketch does not
change. The sketches that record presence (FM, linear counting, FlowRadar)
also receive key 0 for the empty slots at a reset; their refinement allows the
reported sketch to contain key 0 in addition, and nothing else.

**Back ends.** The modules of a port see the same packets, and their front
ends are the same deterministic code, so `BackEnds` conjoins the actions of
the modules over one set of front end variables. FlowRadar appears twice,
once with a Bloom filter without false positives (refinement) and once with
colliding flows (each flow registered at most once). SpaceSaving and UnivMon
keep heaps, and which flows a heap keeps depends on the order of insertions:
SpaceSaving has no refinement, and UnivMon, whose plain variant runs on the same
port, has the one of its counters (`CountersOf`). What holds of the heaps is
that every packet is accounted for, that no flow is in one twice, and that they
are complete while they have a node to spare for key 0.

**TwoLevel.** A slot caches a pair and is searched by the exclusive or of its two
addresses, so different pairs may match (`Collide`). The reset is modelled word
by word, as its `memset` is shorter than the simd part. `grr` chooses the
policy in the initial state. `plain`, `seen` and `foreign` are history variables.

**Receiver.** A packet is its `pktid`, a buffer the set of packets counted in
it. `late` collects the packets of batches that a reset cut. `NIC_BURST` is the
most packets that one call of the driver returns; the code asks for
`MAX_PKT_BURST`, the whole length of `rx_bufs`.

**DoubleBuffer.** `memset` may zero its words in any order. `cut` marks a buffer
that a cut batch has touched. Sequential consistency is assumed; under the
store buffering of x86 a store may become visible later than in the model. The
tick flag needs no more than that: each core's stores stay in order.

**Counting modules.** The current `bootstrap.c` has their registration commented out;
the experiments under `pktreceiver/experiments/` configure them by name. `kind` chooses the module in the initial state; each has
its `_init`, `_execute` and `_reset`. A counter is in the row itself, at the
index `rte_hash` gives the key, behind a pointer kept in the row, or at a number
kept in the row; the four `Count...` actions are these cases. Pointers and
numbers are given out by a counter that is incremented by a load and a store
(`GivePointer`, `GiveNumber`) and zeroed by the stats core; where the build may
load it again, both values are possible.

The history variables say where the unlocked code is inexact, and the properties
what is exact elsewhere. `kept` is what a clearing left: the `memset` of
`hashmap.c`, `hashmap_linear.c`, `countmin.c` and `countarray.c` is a row short, and a
row of a pointer module that survives points to an element that is given out
again (`Dangling`). `cut` is what the overlap of a batch and a reset has spoilt: a table
cleared under a batch, or used with the value array of another epoch, or given
an element after the zeroing of the counter; that array; and, in the pointer
modules, the counter itself, when elements of the old table were counted in the
new epoch or a store undid the zeroing. Each is exact again after the next reset
that overlaps no batch. `moved` is the tables in which a cuckoo insertion moved a row
that a packet of the same batch was still to be counted in, `raced` an addition
to the reporter that overlapped its exchange. Properties whose guards name one of
these variables say nothing, or only what they state besides, about the case it
marks; the notes of the hazards in `PROJECT.json` list these cases.

Where the code would leave its memory (an `rte_hash` that is full, more flows
than elements, more packets than a `pkttest` table) or fail an assertion, the
behaviour ends; a probe of a full linear table waits, as the loop does, until a
reset frees a row.

**Priority queue.** A node is a key's value in the hash table, the heap holds
pointers to nodes. The lock covers a batch and the clearing, but neither the
exchange nor the saving of the old queue; `module->pqueue` is read again for
each of the two calls of a packet, so the heapify of a packet may run on the
other queue. The hash table has 8 entries per slot, none of which is freed before
the reset; a full one, which the code does not test for, ends the behaviour and
is not reached in the bounds.

**Heavy change.** The build without `FULL` and `REPORT`. Each module is a value
with an increment and a reset; `revsketch` compares with a copy of the row of
the epoch before, which the reset makes before it exchanges the sketches.

**Sender.** `trace_idx` arithmetic is `uint32_t` arithmetic at the width `UINT`.
`RateSearch` keeps the difference of miss counters in units of more than 1024
packets, which is all `main` looks at; `Tail` is the misses of the old rate
between a report and the change of rate.

## 3. Runs

Three configurations ask about several builds at once. In `MCFrontEnd` the
variable `build` chooses in the initial state between the GRR build with flow
id 0, the LRU build without it and the bucket search; in `MCSender` `core` chooses
between the master and the slave core; in `MCCounting` `module` chooses what the
experiment configures. The state of the parts not chosen does not change.

| Run | Question | Bounds | States |
|---|---|---|---|
| `front_end` | GRR: `Conservation`, `ZeroFlowNeverGains`; LRU: `LRUVictim`, refinement of `DirectSketch`; search: `SearchesAgree` | 2 buckets of 3, 6 flows with flow 0 (5 without), 7 packets; all 2^16 buckets of matching and other keys | 158,948 |
| `front_end_zero_direct` | the same refinement with flow 0 (violated) | 4 packets | |
| `back_ends` | `ImplementsPlainModules` (the refinements), `FlowsRegisteredOnce`, the heaps of SpaceSaving (`HeapOrdered`, `PacketsInSummary`, `TopKComplete`) and of UnivMon (`EvictedTrackedOnce`) | 2 buckets of 2, 4 flows, 8 packets, heaps of 4 and 2 | 20,538 |
| `twolevel` | `PairsKept`, `ForeignOnce`, `FirstEpochExact` | 2 buckets of 2, 6 pairs, 4 packets per epoch, 2 resets | 221,032 |
| `twolevel_reset` | an epoch holds no pair of an earlier one (violated) | the same | |
| `receiver` | `AllCounted`, `StaleIsOneBatch`, `EpochOrder`, `TickServed`, `Drained` | 2 ports, 2 modules, `rx_bufs` of 4, NIC bursts of up to 3 | 274,718 |
| `double_buffer` | what a cut batch can and cannot spoil | 2 slots, 3 flows, batches of 2, 4 packets, 3 resets | 7,689,594 |
| `sender` | slave: `InOrder`, `StopsWithinBurst`, `Completes`; master: `SettlesLossless`, `NearMaximum`, `Settles` | bursts of 4, traces of 3 to 7, 2 restarts; the rates of the code, several receivers | 117,315 |
| `rate_search_max` | always near the maximum (violated) | the rates of the code | |
| `counting` | twelve properties of nineteen modules, below | tables of 2 rows, 3 flows, batches of 2, 3 packets, 2 resets; reporters of 2; queue of 3, 4 flows, 5 packets, 1 reset; heaps of 3, 4 flows, 5 packets, 2 resets; 2 ports, 3 packets, 2 resets | 3,673,483 |
| `pqueue_assert` | the assertion of `pqueue_assert_correctness` (violated) | queue of 3, 4 flows, 6 packets | |
| `countheap_reset` | positions in the hash table after a reset (violated) | as in `counting` | |

The properties of `counting`:

* tables: every packet adds to exactly one counter (`PacketsInTable`); the counter
  that a lookup finds is the flow's own and exact (`CountersExact`); a flow is
  handed to the reporter once, when it passes the threshold (`ReportedOnce`);
  no two flows of an epoch share an element of a value array, also when the
  zeroing of its counter is lost, and otherwise there is one element per flow
  (`ElementsPerFlow`); the saved file lists the flows added since the last tick,
  in order, and never exceeds the reporter (`FileExactUnlessRaced`);
* priority queue: nodes and slots point to each other, even when a heapify runs
  on the other queue (`HeapIndex`); a node is never below the packets of its
  flow, although evicted keys stay in the hash table (`QueueNeverUnder`); the
  report is the heavy flows of the saved queue (`QueueReportExact`);
* heavy change: the hash table is the inverse of the heap (`PositionsAgree`);
  tracked flows are not underestimated and the heap is ordered except at slot
  1 (`TrackedNeverUnder`); `revsketch` marks exactly the changed flows
  (`ChangesFlagged`); `pkttest` and `minhash` hold the packets of the epoch, and a
  row of the shared map one count per successful compare-and-swap, whoever
  clears it (`EpochCounted`).

Why the bounds are enough: two slots and three flows of a bucket give hits,
fills, kicks, a wrap of `curkick` and the return of an evicted flow; two buckets
show that the shared `curkick` does not mix them. The number of packets allows
a reset in any of those situations and an epoch after it. The traces include
one shorter than a burst, one of exactly a burst and one that is no multiple
of it. Two ports and two modules show a tick of one port during the resets of
the other and a module not yet reset beside one that is. Three resets bring a
buffer spoilt by a cut batch back to use and to a clean reset. NIC bursts of 3 are
the longest that `rx_bufs` of 4 has room for. A heap of 4 that gets
four flows and key 0 from 8 packets sifts to either child and over two levels, and
gives its root away. Tables of two rows with three colliding flows
give probes that wrap and that find no row, displacements over several rows, and
a last row that survives; two resets bring a table back to use. No displacement
gives up, as three flows always fit, and the buckets of the bucket table have one
entry and a mask of 1. Batches of two show a lookup before and after the
displacement by another. The pointer and superspreader modules get two flows
only; every first packet of `cuckoo_local_ptr` reaches the threshold, which gives
files of two flows and a third one that is dropped. A queue of three has nodes
with two children, one and none, and the fourth flow takes over the root. Five
packets let `revsketch` take a mark back (three in one epoch, two in the next) and
the count heap insert a flow again that it has deleted; `revsketch`, `minhash` and
`pkttest` get three flows.

Fairness. In `Receiver` each core is weakly fair: lcores are pinned and
loop for ever. In `PktSender` the timer keeps firing, and a NIC that is
offered bursts again and again takes some of them whole (strong fairness), as
its ring drains at line rate. In `RateSearch` the master core is weakly fair.
Deadlock checking is off in the runs of `DoubleBuffer`, `TwoLevelSimd`, `MCSender`
and `MCCounting`: packets and resets are bounded, the sender exits, and a
settled search sleeps.

### What the violated properties show

* `front_end_zero_direct`: a packet of flow id 0 matches an empty slot and is
  counted there; the next new flow overwrites the slot and the packet is lost
  (`simdbatch/cmsketchsimd.c:188`).
* `twolevel_reset`: the `memset` zeroes `SIMD_SIZE` bytes of `SIMDSD_SIZE`. The keys
  are zero, but `curpos` still says that a bucket is full, and the first new
  pairs evict leftovers into the sketch (`simdbatch/twolevelsimd.c:47`).
* `rate_search_max`: misses between a report and the change of rate are charged
  to the next rate, and the search settles below the maximum
  (`mypktgen/main.c:626`).
* `pqueue_assert`: the sift of a node that has a left child only swaps in exactly
  the cases in which it should not, and the next insertion makes the inversion
  visible to `assert(*lft >= *cur)` (`pktreceiver/src/dss/pqueue.c:243`).
* `countheap_reset`: `hashmap_linear_reset` leaves the last row, and the flow in it
  is looked up at a slot of the emptied heap
  (`pktreceiver/src/dss/hashmap_linear.c:64`).

More observations came up without a run of their own. `fence34` of MRAC is
9/8 of the number of virtual positions, so the fourth row is never used, in
`mrac.c` and `mracsimd.c` alike (`simdbatch/mracsimd.c:89`). `index` of the
sender is not wound back with `trace_idx`, so a refused part of the last burst
changes how often the trace is sent by up to a burst (`mypktgen/main.c:268`);
`StopsWithinBurst` states that bound. `cuckoo_local_ptr.c:107` counts every packet
twice; `PacketsInTable` and `CountersExact` expect that. The zeroing of `index`
(`cuckoo_local_ptr.c:123`) can be undone by an increment under way, and the next
epoch then has fewer elements than the array. `rx_burst_size` (`net.c:240`) is the whole
length of `rx_bufs`, although packets may wait there when a burst is appended; the
comment at `common.h:38` takes a burst to be half of it. A flow of a shared map
whose threshold two ports pass together may be reported twice or not at all
(`sharedmap.c:111`).

## 4. Proofs

* `AggEvictProofs`: `NoDuplicateFlow`, `Conservation` and `ZeroFlowNeverGains` are
  invariants for every set of flows, every number of buckets and slots and both
  policies, from `FrontEndAssumption` alone and for any sketch. None is inductive:
  a fill preserves `Conservation` only if the slot it overwrites holds no flow,
  which is `FilledSlots`, and `ZeroFlowNeverGains` needs to know where key 0 can be
  (`ZeroSlots`). `IInv` is their conjunction.
* `SimdMatchProofs`: the mask is the set of matching lanes (`MaskIsMatch`), for
  every bucket. The argument is a case per pack instruction: lanes are 0 or -1,
  and signed saturation maps a pair of such lanes, read as one wider lane, to a
  value whose sign bits are those of the pair.
* `ReceiverProofs`: `RxBufsBounded`, `TickNotLost` and `ActiveNeverEmptied`, for any
  number of ports, modules and packets and any size of a NIC burst, from
  `ReceiverAssumption` (the sizes are positive). `port_loop` alone keeps `rx_bufs` below
  half its length plus a burst. That this is within `rx_bufs` (`RxBufsInRange`) is
  proved from `BurstFits`: the driver returns at most one packet more than half of
  `rx_bufs` (33 of 64). The code asks for 64, so nothing in it makes `BurstFits` true; a
  longer burst is written behind the array.
* `DoubleBufferProofs`: `IndicesInRange` and `CleanUnlessCut`, for any number of flows,
  slots, packets and resets, from `DoubleBufferAssumption` (a bucket has a slot).
  `IInv` adds to the types that a slot found free is still one when it is filled
  (`FreeSlot`: the only store by the other core sets `curpos` to 0), that a batch in
  a buffer which is not active is known to be cut once its reset has begun
  (`CutKnown`), and that what `memset` has passed is zero unless a batch was cut
  (`ZeroedSoFar`). `CleanUnlessCut` is not inductive without the last two: a late
  store is harmless only because the buffer it dirties is marked.
* `PktSenderProofs`: `InTrace` and `StopsWithinBurst`, for any trace, burst and width
  of the counters and any restarts, from `Configured` (sizes are numbers, traces
  are not empty); and `InOrder` when moreover the product of trace and passes does
  not wrap (`NoWrap`). `IInv` says that a burst starts inside the trace and
  only while `sended` is short of the total modulo `UINT`, so a sum of one more
  burst stays in the bound, and that the wind back is a remainder by the length
  of the trace, whatever the master did to the index since it was loaded.
* `RateSearchProofs`: `SettlesLossless` and `NearMaximum`, for any interval, precision
  and capacity. `IInv` says that both ends of the interval are justified by a
  measurement (`Bracket`) and what the master core knows at each step (`Measured`).

`NoDuplicateFlow`, `MaskIsMatch`, `RxBufsBounded`, `RxBufsInRange`, `TickNotLost`, `ActiveNeverEmptied`,
`IndicesInRange` and `InTrace` have no run of their own, as the theorems cover
every instance.

Only model-checked: all liveness properties (fairness and ENABLED are out of the
prover's reach), the refinements (they rest on what the recursive flush
computes), `LRUVictim`, `ExactUnlessCut` and `ReportUnlessCut`, the heaps, hash maps and
counting modules (their insertions and sifts are recursive), `TwoLevelSimd`,
`AllCounted`, `StaleIsOneBatch` and `EpochOrder`.

## 5. Not modelled

* FlowRadar with varying key sizes (`simdbatch/vary-keysize`). It repeats the front
  end of `AggEvict` once per key size. In the builds with keys of two words and
  more the pointer to the cached cells is computed from the sketch's own table
  (`flowradarsimdv.c:123`), so cache and sketch overlap, and what the program
  computes depends on the layout of the structures in memory.
* The plain `spacesaving.c` as a specification of its own: it is the heap of
  `SpaceSavingSimd` fed packet by packet.
* Memory behind the end of an array. Where the code would reach it (see
  "Counting modules" in section 2) the behaviour ends.
* Bucket tables whose rows have other than 1, 2, 4, 8 or 16 words. Buckets have a
  stride of a cache line and each half of the table the length of its rows, so
  the halves overlap (`dss/hashmap_cuckoo_bucket.c:75`, `108`, `116`). The experiments
  configure rows of 4 words.
* `memory.c`, the experiment loader and the module registry: they run on one core
  before the others start.
* `modules/ring.c`, `consumer.c`, `randmod.c`, `count_array.c` and `super_spreader.c`:
  a hand-over of packets to a DPDK ring, and counting experiments whose tables
  no reset or report of theirs reads.
* Search statistics (other than the counters of `AggEvict` and SpaceSaving),
  percentiles and histograms, console output, packet headers, trace files, DPDK
  initialisation, third-party hashing.
* Weak memory: see `DoubleBuffer`.

----------------------------- MODULE MCCounting -----------------------------
(* An experiment configures one of the counting modules: a file of         *)
(* modules/heavyhitter or modules/superspreader, the priority queue, the   *)
(* shared map, or a file of modules/heavychange.  The state of the others  *)
(* stays as it is initially.                                               *)
EXTENDS Integers, Sequences

CONSTANTS
  Key, Dst, FewKey, SIZE, ENTRIES, TRIES, THRESHOLD, REPORTER_SIZE, BURST, MAX_PKTS, MAX_RESETS,
  QKey, QSIZE, QTHRESHOLD, QREPORTER_SIZE, PQ_BURST, PQ_PKTS, PQ_RESETS,
  CKey, ChangeKey, ROWSIZE, CAPACITY, HT_SIZE, DELTA, LOG_SIZE, HC_BURST, HC_PKTS, HC_RESETS,
  Port, SH_BURST, SH_PKTS, SH_RESETS

VARIABLES
  module,
  kind, map, vals, index, active, vactive, rx, rep, st, sent, seen, hits, kept, cut, moved, due,
  raced,
  pqueue, qactive, lock, qrx, qst, file, qsent, qseen, touched,
  ckind, sketch, cactive, crx, cst, csent, clog, cprev, cleft, ccut,
  smap, sactive, srx, sst, sfound, ssent, slog, sleft

(* All keys hash to the odd rows; 1 and 3 are displaced to the same row. *)
SmallHash(k) == <<1, 3, 5, 3>>[k]
SmallSecond(h) == IF h = 3 THEN 1 ELSE 2
SmallRowHash(i, k) == i * k

(* After the first destination the second one looks like a member. *)
SmallBits(d) == <<{1, 2, 3}, {1, 2}>>[d]

HH == INSTANCE HeavyHitters WITH
  dss_hash <- SmallHash, hash_sec <- SmallSecond, cms_hash <- SmallRowHash, bf_bits <- SmallBits
PQ == INSTANCE HeavyHitterPQueue WITH
  Key <- QKey, SIZE <- QSIZE, THRESHOLD <- QTHRESHOLD, REPORTER_SIZE <- QREPORTER_SIZE
HC == INSTANCE HeavyChange WITH
  Key <- CKey, dss_hash <- SmallHash, cms_hash <- SmallRowHash
SH == INSTANCE SharedMap WITH
  dss_hash <- SmallHash

table_vars == <<kind, map, vals, index, active, vactive, rx, rep, st, sent, seen, hits, kept, cut,
                moved, due, raced>>
pqueue_vars == <<pqueue, qactive, lock, qrx, qst, file, qsent, qseen, touched>>
change_vars == <<ckind, sketch, cactive, crx, cst, csent, clog, cprev, cleft, ccut>>
shared_vars == <<smap, sactive, srx, sst, sfound, ssent, slog, sleft>>

Init ==
  /\ PQ!QInit /\ SH!SInit
  /\ \/ module = "table" /\ HH!Init /\ HC!heavychange_minhash_init
     \/ module \in {"pqueue", "shared"} /\ HH!heavyhitter_hashmap_init /\ HC!heavychange_minhash_init
     \/ module = "change" /\ HH!heavyhitter_hashmap_init /\ HC!CInit

Next ==
  /\ \/ module = "table" /\ HH!Next /\ UNCHANGED <<pqueue_vars, change_vars, shared_vars>>
     \/ module = "pqueue" /\ PQ!QNext /\ UNCHANGED <<table_vars, change_vars, shared_vars>>
     \/ module = "change" /\ HC!CNext /\ UNCHANGED <<table_vars, pqueue_vars, shared_vars>>
     \/ module = "shared" /\ SH!SNext /\ UNCHANGED <<table_vars, pqueue_vars, change_vars>>
  /\ UNCHANGED module

Spec == Init /\ [][Next]_<<module, table_vars, pqueue_vars, change_vars, shared_vars>>
-----------------------------------------------------------------------------
(* No packet is lost or counted twice in a table: HeavyHitters. *)
PacketsInTable == module = "table" => HH!PacketsInTable

(* The counter that execute finds for a flow is that flow's own, and exact. *)
CountersExact == module = "table" => HH!CountersExact

(* A flow is handed to the reporter once, when it passes the threshold. *)
ReportedOnce == module = "table" => HH!ReportedOnce

(* No two flows of an epoch share an element of a value array, and there is *)
(* one per flow unless a batch overlapped the zeroing of the counter.       *)
ElementsPerFlow == module = "table" => HH!ElementsPerFlow

(* The file of a reporter_tick is the flows added since the last one, unless *)
(* an addition overlapped the exchange of the buffers; it never has more     *)
(* flows than the reporter.                                                  *)
FileExactUnlessRaced == module = "table" => HH!FileExactUnlessRaced

(* Slots and nodes of the priority queue point to each other, also when the *)
(* queues are exchanged between the count and the heapify of a packet.      *)
HeapIndex == module = "pqueue" => PQ!HeapIndex

(* No node of the priority queue is below the packets of its flow. *)
QueueNeverUnder == module = "pqueue" => PQ!QueueNeverUnder

(* save_heavy_hitters writes the flows above the threshold, each once. *)
QueueReportExact == module = "pqueue" => PQ!QueueReportExact

(* The hash table of the count heap is the inverse of its heap. *)
PositionsAgree == module = "change" => HC!PositionsAgree

(* The same after count_heap_reset: "Hashtable: key --> uint32_t (flow ID); *)
(* value --> uint32_t (pos in heap array)".                                 *)
PositionsAgreeAfterReset == module = "change" => HC!PositionsAgreeAfterReset

(* The count heap never underestimates a flow it tracks, and is ordered. *)
TrackedNeverUnder == module = "change" => HC!TrackedNeverUnder

(* revsketch marks exactly the flows whose counter changed by over DELTA. *)
ChangesFlagged == module = "change" => HC!ChangesFlagged

(* pkttest and minhash hold exactly the packets of the epoch, and a row of *)
(* the shared map every packet that the ports have counted in it.          *)
EpochCounted ==
  /\ module = "change" => HC!EpochLogged
  /\ module = "shared" => SH!SharedCountsExact
=============================================================================

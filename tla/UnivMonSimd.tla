----------------------------- MODULE UnivMonSimd -----------------------------
(* SimdBatch::UnivMonSimd (univmonsimd.c): four count heaps behind the      *)
(* Agg-Evict front end.                                                    *)
EXTENDS Integers, Sequences, FiniteSetsExt

CONSTANTS
  Flow, SIMD_ROW_NUM, SLOTS, GRR_ALL, MIN_TIME, TIME_MOD, MaxPackets,
  UMSize, CAPACITY, FREQ_MOD, CSHash(_, _), Polar(_, _), Level(_, _)

VARIABLES
  key, value, curpos, curkick, myclock, time_now,
  um, stats_search, report, seen, sent

C == INSTANCE UnivMon   \* the count heaps

univmonsimd_create == [n \in 1 .. 4 |-> C!count_heap_create(UMSize \div 2^(n - 1))]

(* The heap besides the first that a key goes to: that of its first bit. *)
sampled(k) ==
  {n \in 2 .. 4 : Level(n - 1, k) = 1 /\ \A m \in 2 .. n - 1 : Level(m - 1, k) # 1}

univmonsimd_inc_um(s, kick_key, kick_val) ==
  FoldSet(LAMBDA n, t : [t EXCEPT ![n] = C!count_heap_insert(@, kick_key, kick_val)],
          s, {1} \cup sampled(kick_key))

FrontEnd == INSTANCE AggEvict WITH
  sketch <- um, EmptySketch <- univmonsimd_create, IncXX <- univmonsimd_inc_um

univmonsimd_inc(f) == FrontEnd!Inc(f)
univmonsimd_reset == FrontEnd!Reset

Init == FrontEnd!Init
Next == univmonsimd_reset \/ \E f \in Flow : univmonsimd_inc(f)
Spec == Init /\ [][Next]_FrontEnd!vars
-----------------------------------------------------------------------------
RowsOf(s) == [n \in 1 .. 4 |-> s[n].rows]

\* the counters of um, and what a kicked pair adds to them
rows_added(r, k, freq) ==
  FoldSet(LAMBDA n, t : [t EXCEPT ![n] = C!rows_add([rows |-> @], k, freq).rows],
          r, {1} \cup sampled(k))
Counters == INSTANCE AggEvict WITH
  sketch <- RowsOf(um), EmptySketch <- RowsOf(univmonsimd_create), IncXX <- rows_added

(* With the cached pairs added in, the counters of all four heaps are      *)
(* those of plain, the heaps that univmon.c built from the same packets.   *)
CountersOf(plain) == Counters!Flushed = RowsOf(plain)

(* No flow has two slots in a heap, and as long as a heap has room it      *)
(* tracks exactly the flows of its level that left the cache.              *)
EvictedTrackedOnce ==
  \A n \in 1 .. 4 :
    LET used    == 0 .. um[n].num - 1
        tracked == {um[n].heap[i].flowid : i \in used}
        evicted == {f \in Flow : sent[f] > 0 /\ n \in {1} \cup sampled(f)}
    IN /\ tracked \subseteq evicted /\ Cardinality(tracked) = um[n].num
       /\ um[n].num < CAPACITY => tracked = evicted
=============================================================================

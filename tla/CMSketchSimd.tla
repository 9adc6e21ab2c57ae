---------------------------- MODULE CMSketchSimd ----------------------------
(* SimdBatch::CMSketchSimd (cmsketchsimd.c): the count-min sketch behind   *)
(* the Agg-Evict front end.                                                *)
EXTENDS Integers, Sequences

CONSTANTS
  Flow, SIMD_ROW_NUM, SLOTS, GRR_ALL, MIN_TIME, TIME_MOD, MaxPackets,
  Size, Hash(_, _)

VARIABLES
  key, value, curpos, curkick, myclock, time_now,
  table, stats_search, report, seen, sent

CMRow == 1 .. 4

cmsketchsimd_create == [r \in CMRow |-> [c \in 0 .. Size - 1 |-> 0]]

cmsketchsimd_offset(h) == h % Size

(* Every row adds the kicked value to the counter of the kicked key. *)
cmsketchsimd_one_seed(t, kick_key, kick_value) ==
  [r \in CMRow |-> [t[r] EXCEPT ![cmsketchsimd_offset(Hash(kick_key, 1))] = @ + kick_value]]
cmsketchsimd_inc_cm(t, kick_key, kick_value) ==
  [r \in CMRow |-> [t[r] EXCEPT ![cmsketchsimd_offset(Hash(kick_key, r))] = @ + kick_value]]

FrontEnd == INSTANCE AggEvict WITH
  sketch <- table, EmptySketch <- cmsketchsimd_create, IncXX <- cmsketchsimd_inc_cm

cmsketchsimd_inc(f) == FrontEnd!Inc(f)
cmsketchsimd_reset == FrontEnd!Reset

Init == FrontEnd!Init
Next == cmsketchsimd_reset \/ \E f \in Flow : cmsketchsimd_inc(f)
Spec == Init /\ [][Next]_FrontEnd!vars
-----------------------------------------------------------------------------
Plain == INSTANCE CMSketch WITH table <- FrontEnd!Flushed

(* With the cached pairs added in, the sketch is at all times the sketch   *)
(* that cmsketch.c would have built from the same packets, and the one it  *)
(* closes an epoch with is the same.                                       *)
ImplementsCMSketch == Plain!Spec
=============================================================================

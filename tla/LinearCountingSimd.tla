------------------------- MODULE LinearCountingSimd -------------------------
(* SimdBatch::LinearCountingSimd (linearcountingsimd.c): linear counting   *)
(* behind the Agg-Evict front end.  The kicked value is not used.          *)
EXTENDS Integers, Sequences, FiniteSets

CONSTANTS
  Flow, SIMD_ROW_NUM, SLOTS, GRR_ALL, MIN_TIME, TIME_MOD, MaxPackets,
  RowBits, Hash(_, _)

VARIABLES
  key, value, curpos, curkick, myclock, time_now,
  table, stats_search, report, seen, sent

LCRow == 1 .. 4

linearcountingsimd_create == [r \in LCRow |-> {}]

linearcountingsimd_inc_km(t, kick_key, kick_value) ==
  [r \in LCRow |-> t[r] \cup {Hash(kick_key, r) % RowBits}]

FrontEnd == INSTANCE AggEvict WITH
  sketch <- table, EmptySketch <- linearcountingsimd_create,
  IncXX <- linearcountingsimd_inc_km

linearcountingsimd_inc(f) == FrontEnd!Inc(f)
linearcountingsimd_reset == FrontEnd!Reset

Init == FrontEnd!Init
Next == linearcountingsimd_reset \/ \E f \in Flow : linearcountingsimd_inc(f)
Spec == Init /\ [][Next]_FrontEnd!vars
-----------------------------------------------------------------------------
Plain == INSTANCE LinearCounting WITH
  table <- FrontEnd!FlushedFlows,
  HandedOver <- LAMBDA s : {s, linearcountingsimd_inc_km(s, 0, 0)}

(* The rows with the cached flows added in are at all times those that     *)
(* linearcounting.c would have; an epoch ends with the same rows or with   *)
(* the bits of flow id 0 in addition, sent for the empty slots.            *)
ImplementsLinearCounting == Plain!Spec
=============================================================================

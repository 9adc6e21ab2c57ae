------------------------------ MODULE MRACSimd ------------------------------
(* SimdBatch::MRACSimd (mracsimd.c): MRAC behind the Agg-Evict front end. *)
EXTENDS Integers, Sequences, Functions

CONSTANTS
  Flow, SIMD_ROW_NUM, SLOTS, GRR_ALL, MIN_TIME, TIME_MOD, MaxPackets,
  Size, Hash(_)

VARIABLES
  key, value, curpos, curkick, myclock, time_now,
  table, stats_search, report, seen, sent

M == 8 * Size
fence12 == M \div 2
fence23 == fence12 + fence12 \div 2
fence34 == fence23 + fence23 \div 2

mracsimd_create == [r \in 1 .. 4 |-> [c \in 0 .. Size - 1 |-> 0]]

row_of(hv) ==
  IF hv < fence12 THEN 1 ELSE IF hv < fence23 THEN 2 ELSE IF hv < fence34 THEN 3 ELSE 4

mracsimd_inc_mr(t, kick_key, kick_val) ==
  LET hv == Hash(kick_key) % M
  IN [t EXCEPT ![row_of(hv)][hv % Size] = @ + kick_val]

FrontEnd == INSTANCE AggEvict WITH
  sketch <- table, EmptySketch <- mracsimd_create, IncXX <- mracsimd_inc_mr

mracsimd_inc(f) == FrontEnd!Inc(f)
mracsimd_reset == FrontEnd!Reset

Init == FrontEnd!Init
Next == mracsimd_reset \/ \E f \in Flow : mracsimd_inc(f)
Spec == Init /\ [][Next]_FrontEnd!vars
-----------------------------------------------------------------------------
Plain == INSTANCE MRAC WITH table <- FrontEnd!Flushed

(* With the cached pairs added in, the counters are at all times those of  *)
(* mrac.c, and an epoch ends with the same counters.                       *)
ImplementsMRAC == Plain!Spec
=============================================================================

---------------------------- MODULE RevSketchSimd ----------------------------
(* SimdBatch::RevSketchSimd (revsketchsimd.c): the reversible sketch       *)
(* behind the Agg-Evict front end.  The front end separates flows by all   *)
(* four bytes, the sketch by the first one.                                *)
EXTENDS Integers, Sequences

CONSTANTS
  Flow, SIMD_ROW_NUM, SLOTS, GRR_ALL, MIN_TIME, TIME_MOD, MaxPackets,
  Digit, ByteMod, Hash(_, _, _)

VARIABLES
  key, value, curpos, curkick, myclock, time_now,
  table, stats_search, report, seen, sent

RSRow == 1 .. 4
RSIndex == 0 .. Digit^4 - 1

revsketchsimd_create == [r \in RSRow |-> [c \in RSIndex |-> 0]]

(* h1 | (h2 << 4) | (h3 << 8) | (h4 << 12) *)
index(k, r) ==
  LET h(n) == Hash(k % ByteMod, r, n) % Digit
  IN h(1) + h(2) * Digit + h(3) * Digit^2 + h(4) * Digit^3

revsketchsimd_inc_rs(t, kick_key, kick_val) ==
  [r \in RSRow |-> [t[r] EXCEPT ![index(kick_key, r)] = @ + kick_val]]

FrontEnd == INSTANCE AggEvict WITH
  sketch <- table, EmptySketch <- revsketchsimd_create, IncXX <- revsketchsimd_inc_rs

revsketchsimd_inc(f) == FrontEnd!Inc(f)
revsketchsimd_reset == FrontEnd!Reset

Init == FrontEnd!Init
Next == revsketchsimd_reset \/ \E f \in Flow : revsketchsimd_inc(f)
Spec == Init /\ [][Next]_FrontEnd!vars
-----------------------------------------------------------------------------
Plain == INSTANCE RevSketch WITH table <- FrontEnd!Flushed

(* With the cached pairs added in, the counters are at all times those of  *)
(* revsketch.c, although the cache keeps flows apart that the sketch does  *)
(* not; an epoch ends with the same counters.                              *)
ImplementsRevSketch == Plain!Spec
=============================================================================

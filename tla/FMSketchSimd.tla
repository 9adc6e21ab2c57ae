---------------------------- MODULE FMSketchSimd ----------------------------
(* SimdBatch::FMSketchSimd (fmsketchsimd.c): the Flajolet-Martin bitmaps   *)
(* behind the Agg-Evict front end.  The kicked value is not used.          *)
EXTENDS Integers, Sequences

CONSTANTS
  Flow, SIMD_ROW_NUM, SLOTS, GRR_ALL, MIN_TIME, TIME_MOD, MaxPackets,
  Hash(_, _)

VARIABLES
  key, value, curpos, curkick, myclock, time_now,
  count, stats_search, report, seen, sent

Bitmap == 1 .. 4

fmsketchsimd_create == [r \in Bitmap |-> {}]

(* _tzcnt_u32, and 31 for a zero hash. *)
hnum(h) ==
  IF h = 0 THEN 31 ELSE CHOOSE n \in 0 .. 30 : h % 2^n = 0 /\ h % 2^(n + 1) # 0

fmsketchsimd_inc_fm(c, kick_key, kick_value) ==
  [r \in Bitmap |-> c[r] \cup {hnum(Hash(kick_key, r))}]

FrontEnd == INSTANCE AggEvict WITH
  sketch <- count, EmptySketch <- fmsketchsimd_create, IncXX <- fmsketchsimd_inc_fm

fmsketchsimd_inc(f) == FrontEnd!Inc(f)
fmsketchsimd_reset == FrontEnd!Reset

Init == FrontEnd!Init
Next == fmsketchsimd_reset \/ \E f \in Flow : fmsketchsimd_inc(f)
Spec == Init /\ [][Next]_FrontEnd!vars
-----------------------------------------------------------------------------
PlainAndFlowZero == INSTANCE FMSketch WITH
  count <- FrontEnd!FlushedFlows,
  HandedOver <- LAMBDA s : {s, fmsketchsimd_inc_fm(s, 0, 0)}

(* What holds of the code: the bitmaps agree, and those that an epoch ends *)
(* with are the same or have the bits of flow id 0 in addition, because    *)
(* the flush sends the empty slots as well.                                *)
ImplementsFMSketchUpToFlowZero == PlainAndFlowZero!Spec
=============================================================================

------------------------------ MODULE FMSketch ------------------------------
(* SimdBatch::FMSketch (fmsketch.c): four Flajolet-Martin bitmaps, each    *)
(* the set of its bits.  Closing an epoch appends the bitmaps to           *)
(* file_fm.txt (the report).                                               *)
EXTENDS Integers, Sequences

CONSTANTS
  Flow, MaxPackets,
  Hash(_, _),     \* dss_hash_with_seed(key, seed of bitmap r)
  HandedOver(_)   \* the bitmaps the file may show; {s} for fmsketch.c

VARIABLES count, stats_search, report

Bitmap == 1 .. 4

fmsketch_create == [r \in Bitmap |-> {}]

(* _tzcnt_u32, and 31 for a zero hash. *)
hnum(h) ==
  IF h = 0 THEN 31 ELSE CHOOSE n \in 0 .. 30 : h % 2^n = 0 /\ h % 2^(n + 1) # 0

fmsketch_inc(c, f) == [r \in Bitmap |-> c[r] \cup {hnum(Hash(f, r))}]

Sketch == INSTANCE DirectSketch WITH
  sketch <- count, EmptySketch <- fmsketch_create, IncOne <- fmsketch_inc

fmsketch_reset == Sketch!Reset

Init == Sketch!Init
Next == fmsketch_reset \/ \E f \in Flow : Sketch!Inc(f)
Spec == Init /\ [][Next]_<<count, stats_search, report>>
=============================================================================

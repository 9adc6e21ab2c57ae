-------------------------------- MODULE MRAC --------------------------------
(* SimdBatch::MRAC (mrac.c): one hash chooses a virtual position below M,  *)
(* the fences choose the row, the low bits the counter of the row.         *)
EXTENDS Naturals, Sequences

CONSTANTS
  Flow, MaxPackets,
  Size,      \* counters in a row, a power of two
  Hash(_)    \* dss_hash_with_seed(key, CMS_SH1)

VARIABLES table, stats_search, report

M == 8 * Size
fence12 == M \div 2
fence23 == fence12 + fence12 \div 2
fence34 == fence23 + fence23 \div 2

mrac_create == [r \in 1 .. 4 |-> [c \in 0 .. Size - 1 |-> 0]]

row_of(hv) ==
  IF hv < fence12 THEN 1 ELSE IF hv < fence23 THEN 2 ELSE IF hv < fence34 THEN 3 ELSE 4

mrac_inc(t, f) ==
  LET hv == Hash(f) % M
  IN [t EXCEPT ![row_of(hv)][hv % Size] = @ + 1]

Sketch == INSTANCE DirectSketch WITH
  sketch <- table, EmptySketch <- mrac_create, IncOne <- mrac_inc,
  HandedOver <- LAMBDA s : {s}

mrac_reset == Sketch!Reset

Init == Sketch!Init
Next == mrac_reset \/ \E f \in Flow : Sketch!Inc(f)
Spec == Init /\ [][Next]_<<table, stats_search, report>>
=============================================================================

--------------------------- MODULE LinearCounting ---------------------------
(* SimdBatch::LinearCounting (linearcounting.c): four rows of bits, each   *)
(* the set of the bits that are one.                                       *)
EXTENDS Naturals, Sequences

CONSTANTS
  Flow, MaxPackets,
  RowBits,         \* size << 5: bits in a row
  Hash(_, _),      \* dss_hash_with_seed(key, seed of row r)
  HandedOver(_)    \* the rows an epoch may end with; {s} for linearcounting.c

VARIABLES table, stats_search, report

LCRow == 1 .. 4

linearcounting_create == [r \in LCRow |-> {}]

linearcounting_inc(t, f) == [r \in LCRow |-> t[r] \cup {Hash(f, r) % RowBits}]

Sketch == INSTANCE DirectSketch WITH
  sketch <- table, EmptySketch <- linearcounting_create, IncOne <- linearcounting_inc

linearcounting_reset == Sketch!Reset

Init == Sketch!Init
Next == linearcounting_reset \/ \E f \in Flow : Sketch!Inc(f)
Spec == Init /\ [][Next]_<<table, stats_search, report>>
=============================================================================

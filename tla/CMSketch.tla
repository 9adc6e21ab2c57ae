------------------------------ MODULE CMSketch ------------------------------
(* SimdBatch::CMSketch (cmsketch.c): a count-min sketch of four rows. *)
EXTENDS Naturals, Sequences

CONSTANTS
  Flow, MaxPackets,
  Size,        \* counters in a row, a power of two
  Hash(_, _)   \* dss_hash_with_seed(key, seed of row r)

VARIABLES table, stats_search, report

CMRow == 1 .. 4

cmsketch_create == [r \in CMRow |-> [c \in 0 .. Size - 1 |-> 0]]

cmsketch_offset(h) == h % Size

(* Every row adds one to the counter of the flow. *)
cmsketch_inc(t, f) ==
  [r \in CMRow |-> [t[r] EXCEPT ![cmsketch_offset(Hash(f, r))] = @ + 1]]

Sketch == INSTANCE DirectSketch WITH
  sketch <- table, EmptySketch <- cmsketch_create, IncOne <- cmsketch_inc,
  HandedOver <- LAMBDA s : {s}

cmsketch_reset == Sketch!Reset

Init == Sketch!Init
Next == cmsketch_reset \/ \E f \in Flow : Sketch!Inc(f)
Spec == Init /\ [][Next]_<<table, stats_search, report>>
=============================================================================

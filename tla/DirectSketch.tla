---------------------------- MODULE DirectSketch ----------------------------
(***************************************************************************)
(* A measurement solution without Agg-Evict: every packet is applied to    *)
(* the sketch the moment it is received.  The plain modules of             *)
(* modules/simdbatch (cmsketch.c, mrac.c, ...) are instances of it, and it *)
(* is the abstract specification that the SIMD variants implement.         *)
(***************************************************************************)
EXTENDS Naturals, Sequences

CONSTANTS
  Flow,         \* flow ids, the 4 bytes at offset 26 of a packet
  MaxPackets,   \* bound: packets in one measurement epoch
  EmptySketch,  \* the zeroed sketch
  IncOne(_, _), \* IncOne(sketch, flow): the sketch after one more packet
  HandedOver(_) \* the sketches that closing an epoch may hand over

VARIABLES
  sketch,        \* the counters
  stats_search,  \* packets applied since the last reset
  report         \* what the last step handed over: <<sketch>> for a reset, else <<>>

vars == <<sketch, stats_search, report>>

Init ==
  /\ sketch = EmptySketch
  /\ stats_search = 0
  /\ report = <<>>

(* xx_inc: one packet of flow f. *)
Inc(f) ==
  /\ stats_search < MaxPackets
  /\ stats_search' = stats_search + 1
  /\ sketch' = IncOne(sketch, f)
  /\ report' = <<>>

(* xx_reset: the epoch ends, the sketch is handed over and zeroed. *)
Reset ==
  /\ \E s \in HandedOver(sketch) : report' = <<s>>
  /\ sketch' = EmptySketch
  /\ stats_search' = 0

Next == Reset \/ \E f \in Flow : Inc(f)

Spec == Init /\ [][Next]_vars
=============================================================================

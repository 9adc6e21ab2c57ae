------------------------------ MODULE FlowRadar ------------------------------
(* SimdBatch::FlowRadar (flowradar.c): a Bloom filter that recognises new  *)
(* flows and a table of cells.  A cell xors the ids of its flows (here the *)
(* set of ids xored in, an id twice cancels, id 0 has no bit), counts the  *)
(* flows and counts the packets.                                           *)
EXTENDS Naturals, Sequences, FiniteSets

CONSTANTS
  Flow, MaxPackets,
  Size,            \* cells of the table, a power of two
  BFSize,          \* bits of the Bloom filter (size << 5)
  Hash(_, _),      \* dss_hash_with_seed(key, seed n), n = 1..4 bits, 5..8 cells
  HandedOver(_)    \* the sketches an epoch may end with; {s} for flowradar.c

VARIABLES fr, stats_search, report

flowradar_create ==
  [bf |-> {}, cell |-> [c \in 0 .. Size - 1 |-> [flowx |-> {}, flowc |-> 0, packetc |-> 0]]]

bits(k) == {Hash(k, n) % BFSize : n \in 1 .. 4}

(* How many of the four cell pointers of k are cell c. *)
hits(k, c) == Cardinality({n \in 5 .. 8 : Hash(k, n) % Size = c})

Xored(x, k) == IF k = 0 THEN x ELSE IF k \in x THEN x \ {k} ELSE x \cup {k}

(* The four cells of a flow are updated one after the other, so that two   *)
(* equal pointers update the cell twice; the id only if the flow is new.   *)
flowradar_add(s, k, v) ==
  LET new == ~ (bits(k) \subseteq s.bf)
  IN [bf |-> s.bf \cup bits(k),
      cell |-> [c \in 0 .. Size - 1 |->
        [flowx |-> IF new /\ hits(k, c) % 2 = 1 THEN Xored(s.cell[c].flowx, k)
                   ELSE s.cell[c].flowx,
         flowc |-> s.cell[c].flowc + (IF new THEN hits(k, c) ELSE 0),
         packetc |-> s.cell[c].packetc + hits(k, c) * v]]]

flowradar_inc(s, f) == flowradar_add(s, f, 1)

Sketch == INSTANCE DirectSketch WITH
  sketch <- fr, EmptySketch <- flowradar_create, IncOne <- flowradar_inc

flowradar_reset == Sketch!Reset

Init == Sketch!Init
Next == flowradar_reset \/ \E f \in Flow : Sketch!Inc(f)
Spec == Init /\ [][Next]_<<fr, stats_search, report>>
=============================================================================

---------------------------- MODULE FlowRadarSimd ----------------------------
(* SimdBatch::FlowRadarSimd (flowradarsimd.c): FlowRadar behind the        *)
(* Agg-Evict front end.  flowradarnosimd.c is the same program with a      *)
(* scalar search of the bucket (see SimdMatch).                            *)
EXTENDS Integers, Sequences, FiniteSets, FiniteSetsExt

CONSTANTS
  Flow, SIMD_ROW_NUM, SLOTS, GRR_ALL, MIN_TIME, TIME_MOD, MaxPackets,
  Size, BFSize, Hash(_, _)

VARIABLES
  key, value, curpos, curkick, myclock, time_now,
  fr, stats_search, report, seen, sent

FlowCell == 0 .. Size - 1

flowradarsimd_create ==
  [bf |-> {}, cell |-> [c \in FlowCell |-> [flowx |-> {}, flowc |-> 0, packetc |-> 0]]]

bf_bits(k) == {Hash(k, n) % BFSize : n \in 1 .. 4}
cell_hits(k, c) == Cardinality({n \in 5 .. 8 : Hash(k, n) % Size = c})

Xored(x, k) == IF k = 0 THEN x ELSE SymDiff(x, {k})

(* The Bloom filter tells whether the kicked flow is new. *)
flag_never(s, k) == FALSE
flag(s, k) == bf_bits(k) \subseteq s.bf

flowradarsimd_inc_fr(s, kick_key, kick_val) ==
  [bf |-> s.bf \cup bf_bits(kick_key),
   cell |-> [c \in FlowCell |->
     LET n == cell_hits(kick_key, c)
         new == ~ flag(s, kick_key)
     IN [flowx |-> IF new /\ n % 2 = 1 THEN Xored(s.cell[c].flowx, kick_key)
                   ELSE s.cell[c].flowx,
         flowc |-> s.cell[c].flowc + (IF new THEN n ELSE 0),
         packetc |-> s.cell[c].packetc + n * kick_val]]]

FrontEnd == INSTANCE AggEvict WITH
  sketch <- fr, EmptySketch <- flowradarsimd_create, IncXX <- flowradarsimd_inc_fr

flowradarsimd_inc(f) == FrontEnd!Inc(f)
flowradarsimd_reset == FrontEnd!Reset

Init == FrontEnd!Init
Next == flowradarsimd_reset \/ \E f \in Flow : flowradarsimd_inc(f)
Spec == Init /\ [][Next]_FrontEnd!vars
-----------------------------------------------------------------------------
Plain == INSTANCE FlowRadar WITH
  fr <- FrontEnd!FlushedFlows,
  HandedOver <- LAMBDA s : {s, flowradarsimd_inc_fr(s, 0, 0)}

(* As long as the Bloom filter confuses no two flows, the sketch with the  *)
(* cached flows added in is at all times that of flowradar.c, although the *)
(* flows reach it in another order and several times; an epoch ends with   *)
(* the same sketch or with the empty slots registered as flow id 0.        *)
ImplementsFlowRadar == Plain!Spec

(* Whatever the Bloom filter confuses, a flow is registered at most once   *)
(* however often it is kicked, and packets are counted exactly.            *)
FlowsRegisteredOnce ==
  \A c \in FlowCell :
    /\ fr.cell[c].packetc = MapThenSumSet(LAMBDA f : cell_hits(f, c) * sent[f], Flow)
    /\ fr.cell[c].flowc <=
         MapThenSumSet(LAMBDA f : cell_hits(f, c), {f \in Flow : sent[f] > 0})
    /\ \A f \in fr.cell[c].flowx : sent[f] > 0
=============================================================================

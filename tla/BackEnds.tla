------------------------------ MODULE BackEnds ------------------------------
(***************************************************************************)
(* Several *simd.c modules configured on one port: port_exec_rx_modules    *)
(* hands every packet to each of them.  Their front ends see the same      *)
(* packets and are the same deterministic code, so one copy of the         *)
(* key/value cache stands for all of them; each back end has its own       *)
(* sketch and hands over its own report.                                   *)
(***************************************************************************)
EXTENDS Integers, Sequences

CONSTANTS
  Flow, SIMD_ROW_NUM, SLOTS, GRR_ALL, MIN_TIME, TIME_MOD, MaxPackets,
  CMHash(_, _), FMHash(_, _), LCHash(_, _), MRHash(_), RSHash(_, _, _),
  FRHash(_, _),        \* no two flows share all their Bloom filter bits
  FRCollide(_, _),     \* flows share all their Bloom filter bits
  CMSize, RowBits, MRSize, Digit, ByteMod, FRSize, BFSize, SSSize,
  UMSize, CAPACITY, FREQ_MOD, CSHash(_, _), Polar(_, _), Level(_, _)

VARIABLES
  key, value, curpos, curkick, myclock, time_now, stats_search, seen, sent,
  cm, fm, lc, mr, rs, fr, fc, ss, um,   \* the sketches
  up,                  \* SimdBatch::UnivMon, on the same port
  cm_report, fm_report, lc_report, mr_report, rs_report, fr_report, fc_report, ss_report,
  um_report, up_report,
  ss_searches          \* stats_search of the SpaceSaving module

CM == INSTANCE CMSketchSimd WITH
  table <- cm, report <- cm_report, Size <- CMSize, Hash <- CMHash
FM == INSTANCE FMSketchSimd WITH
  count <- fm, report <- fm_report, Hash <- FMHash
LC == INSTANCE LinearCountingSimd WITH
  table <- lc, report <- lc_report, Hash <- LCHash
MR == INSTANCE MRACSimd WITH
  table <- mr, report <- mr_report, Size <- MRSize, Hash <- MRHash
RS == INSTANCE RevSketchSimd WITH
  table <- rs, report <- rs_report, Hash <- RSHash
FR == INSTANCE FlowRadarSimd WITH
  fr <- fr, report <- fr_report, Size <- FRSize, Hash <- FRHash
FC == INSTANCE FlowRadarSimd WITH
  fr <- fc, report <- fc_report, Size <- FRSize, Hash <- FRCollide
SS == INSTANCE SpaceSavingSimd WITH
  heap <- ss, searches <- ss_searches, report <- ss_report, Size <- SSSize
UM == INSTANCE UnivMonSimd WITH report <- um_report
UP == INSTANCE UnivMon WITH um <- up, report <- up_report

vars == <<key, value, curpos, curkick, myclock, time_now, stats_search, seen, sent,
          cm, fm, lc, mr, rs, fr, fc, ss, um, up,
          cm_report, fm_report, lc_report, mr_report, rs_report, fr_report, fc_report,
          ss_report, um_report, up_report, ss_searches>>

Init ==
  /\ CM!Init /\ FM!Init /\ LC!Init /\ MR!Init /\ RS!Init /\ FR!Init /\ FC!Init
  /\ SS!Init /\ UM!Init /\ UP!Init

(* port_exec_rx_modules: every module executes the packet. *)
port_exec_rx_modules(f) ==
  /\ CM!cmsketchsimd_inc(f)
  /\ FM!fmsketchsimd_inc(f)
  /\ LC!linearcountingsimd_inc(f)
  /\ MR!mracsimd_inc(f)
  /\ RS!revsketchsimd_inc(f)
  /\ FR!flowradarsimd_inc(f)
  /\ FC!flowradarsimd_inc(f)
  /\ SS!spacesavingsimd_inc(f)
  /\ UM!univmonsimd_inc(f)
  /\ UP!Sketch!Inc(f)

(* expr_signal: every module is reset. *)
expr_signal ==
  /\ CM!cmsketchsimd_reset
  /\ FM!fmsketchsimd_reset
  /\ LC!linearcountingsimd_reset
  /\ MR!mracsimd_reset
  /\ RS!revsketchsimd_reset
  /\ FR!flowradarsimd_reset
  /\ FC!flowradarsimd_reset
  /\ SS!spacesavingsimd_reset
  /\ UM!univmonsimd_reset
  /\ UP!univmon_reset

Next == expr_signal \/ \E f \in Flow : port_exec_rx_modules(f)

Spec == Init /\ [][Next]_vars
-----------------------------------------------------------------------------
(* Every sketch behind the front end, after the flush that its reset       *)
(* makes, is the one that the module without the front end builds packet   *)
(* by packet, whatever was evicted before: the counters of Count-Min,      *)
(* MRAC, the reversible sketch and UnivMon exactly; the bits of FM and of  *)
(* linear counting, and FlowRadar when its Bloom filter has no false       *)
(* positives, but for key 0, which the resets send for the empty slots.    *)
ImplementsPlainModules ==
  /\ CM!ImplementsCMSketch
  /\ FM!ImplementsFMSketchUpToFlowZero
  /\ LC!ImplementsLinearCounting
  /\ MR!ImplementsMRAC
  /\ RS!ImplementsRevSketch
  /\ FR!ImplementsFlowRadar
  /\ [](UM!CountersOf(up))

(* However flows leave the front end and come back, flowradarsimd_inc_fr   *)
(* registers none of them twice, even when the filter has false positives. *)
FlowsRegisteredOnce == FC!FlowsRegisteredOnce

(* The heap of spacesavingsimd_inc_ss keeps its order at every node but    *)
(* the one that heap_adjust_up leaves out, and no flow twice; the report   *)
(* of an epoch that replaced a flow is in order throughout.                *)
HeapOrdered == SS!HeapOrdered

(* The heap that spacesavingsimd_reset writes out accounts for every       *)
(* packet of the epoch.                                                    *)
PacketsInSummary == SS!PacketsInSummary

(* It holds every flow with its exact count while one node is left for the *)
(* empty slots that spacesavingsimd_reset also sends.                      *)
TopKComplete == SS!TopKComplete

(* The heaps of univmonsimd_inc_um hold no flow twice and miss no evicted  *)
(* flow of their level while they have room.                               *)
EvictedTrackedOnce == UM!EvictedTrackedOnce
=============================================================================

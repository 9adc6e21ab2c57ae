------------------------------ MODULE AggEvict ------------------------------
(***************************************************************************)
(* The Agg-Evict front end ("simd part") that every *simd.c module of      *)
(* modules/simdbatch puts before its sketch: SIMD_ROW_NUM buckets of       *)
(* SLOTS key/value pairs.  A packet whose flow is cached only increments a *)
(* value; a new flow takes the next free slot of its bucket; when the      *)
(* bucket is full one pair is kicked out to the sketch (IncXX) and         *)
(* replaced.  The victim is chosen by a round robin index shared by all    *)
(* buckets (GRR_ALL) or by the smallest clock of the bucket (LRU_ALL).     *)
(* The text is that of cmsketchsimd.c; the other front ends are the same   *)
(* code around another IncXX.                                              *)
(*                                                                         *)
(* `seen' and `sent' are history variables: the packets of each flow in    *)
(* this epoch, and the counts that were sent to the sketch under each key. *)
(***************************************************************************)
EXTENDS Integers, Sequences

CONSTANTS
  Flow,           \* flow ids that occur in the traffic
  SIMD_ROW_NUM,   \* number of buckets (2000 in common.h)
  SLOTS,          \* pairs per bucket (16)
  GRR_ALL,        \* TRUE: round robin victim; FALSE: LRU_ALL
  MIN_TIME,       \* initial min_time of the LRU search (1 << 30)
  TIME_MOD,       \* time_now is a uint32_t (2^32)
  MaxPackets,     \* bound: packets in one measurement epoch
  EmptySketch,    \* the zeroed sketch
  IncXX(_, _, _)  \* IncXX(sketch, key, value): the sketch after a kick

ASSUME FrontEndAssumption ==
  /\ Flow \subseteq Nat
  /\ SIMD_ROW_NUM \in Nat \ {0}
  /\ SLOTS \in Nat \ {0}
  /\ GRR_ALL \in BOOLEAN
  /\ MIN_TIME \in Nat
  /\ TIME_MOD \in Nat \ {0}
  /\ MaxPackets \in Nat

Row  == 0 .. SIMD_ROW_NUM - 1
Slot == 0 .. SLOTS - 1
Key  == Flow \cup {0}   \* an empty slot holds key 0

VARIABLES
  key, value,    \* [Row -> [Slot -> ...]], the pairs
  curpos,        \* [Row -> 0..SLOTS], slots filled in each bucket
  curkick,       \* next victim of GRR, shared by all buckets
  myclock,       \* LRU clock of each pair
  time_now,      \* LRU time
  sketch,        \* the sketch behind the front end
  stats_search,  \* packets since the last reset
  report,        \* what the last step handed over: <<sketch>> for a reset, else <<>>
  seen, sent     \* history: packets seen, counts sent to the sketch

simd_part == <<key, value, curpos, curkick, myclock, time_now>>
vars == <<simd_part, sketch, stats_search, report, seen, sent>>

ZeroPairs == [i \in Row |-> [j \in Slot |-> 0]]
ZeroKeys  == [k \in Key |-> 0]

(* rte_zmalloc_socket: both parts start zeroed. *)
Init ==
  /\ key = ZeroPairs /\ value = ZeroPairs /\ myclock = ZeroPairs
  /\ curpos = [i \in Row |-> 0]
  /\ curkick = 0 /\ time_now = 0
  /\ sketch = EmptySketch /\ report = <<>>
  /\ stats_search = 0
  /\ seen = ZeroKeys /\ sent = ZeroKeys

bucket_id(f) == f % SIMD_ROW_NUM

(* The slots whose key equals f.  The comparison covers all SLOTS slots,   *)
(* the ones that are still empty included.                                 *)
matched(f) == {j \in Slot : key[bucket_id(f)][j] = f}

(* _tzcnt_u32 of the match mask: the lowest matching slot. *)
matched_index(f) == CHOOSE j \in matched(f) : \A k \in matched(f) : j <= k

time_next == IF GRR_ALL THEN time_now ELSE (time_now + 1) % TIME_MOD

(* Under LRU_ALL every access stores the time in the clock of the pair. *)
Stamp_missing(i, j) == UNCHANGED myclock
Stamp(i, j) ==
  myclock' = IF GRR_ALL THEN myclock ELSE [myclock EXCEPT ![i][j] = time_next]

(* The victim of a full bucket.  The LRU loop keeps the first slot whose   *)
(* clock is below min_time and below all earlier clocks, and slot 0 when   *)
(* no clock is below MIN_TIME.                                             *)
young(i) == {j \in Slot : myclock[i][j] < MIN_TIME}
kick_index(i) ==
  IF GRR_ALL THEN curkick
  ELSE IF young(i) = {} THEN 0
  ELSE CHOOSE j \in young(i) : \A k \in young(i) :
         myclock[i][j] < myclock[i][k] \/ (myclock[i][j] = myclock[i][k] /\ j <= k)

(* The round robin index moves on, modulo the bucket size (& 0xF). *)
next_kick == IF GRR_ALL THEN (curkick + 1) % SLOTS ELSE curkick

(* What every xx_inc does before it looks at the bucket. *)
Count(f) ==
  /\ stats_search < MaxPackets
  /\ stats_search' = stats_search + 1
  /\ time_now' = time_next
  /\ seen' = [seen EXCEPT ![f] = @ + 1]
  /\ report' = <<>>

(* A pair starts counting flow f with the packet at hand. *)
Start_on_top(i, j, f) ==
  /\ key' = [key EXCEPT ![i][j] = f]
  /\ value' = [value EXCEPT ![i][j] = @ + 1]
Start(i, j, f) ==
  /\ key' = [key EXCEPT ![i][j] = f]
  /\ value' = [value EXCEPT ![i][j] = 1]

(* The pair in slot j is sent to the sketch. *)
Evict_dropped(i, j) == UNCHANGED <<sketch, sent>>
Evict(i, j) ==
  /\ sketch' = IncXX(sketch, key[i][j], value[i][j])
  /\ sent' = [sent EXCEPT ![key[i][j]] = @ + value[i][j]]

(* xx_inc, the flow is cached: aggregate. *)
Hit(f) ==
  LET i == bucket_id(f)
      j == matched_index(f)
  IN /\ Count(f)
     /\ matched(f) # {}
     /\ value' = [value EXCEPT ![i][j] = @ + 1]
     /\ Stamp(i, j)
     /\ UNCHANGED <<key, curpos, curkick, sketch, sent>>

(* xx_inc, a new flow and a free slot. *)
Advance(i) == curpos' = [curpos EXCEPT ![i] = @ + 1]
Fill(f) ==
  LET i == bucket_id(f)
  IN /\ Count(f)
     /\ matched(f) = {}
     /\ curpos[i] # SLOTS
     /\ Start(i, curpos[i], f)
     /\ Stamp(i, curpos[i])
     /\ Advance(i)
     /\ UNCHANGED <<curkick, sketch, sent>>

(* xx_inc, a new flow and a full bucket: evict one pair to the sketch. *)
Kick(f) ==
  LET i == bucket_id(f)
      j == kick_index(i)
  IN /\ Count(f)
     /\ matched(f) = {}
     /\ curpos[i] = SLOTS
     /\ Evict(i, j)
     /\ Start(i, j, f)
     /\ Stamp(i, j)
     /\ curkick' = next_kick
     /\ UNCHANGED curpos

Inc(f) == Hit(f) \/ Fill(f) \/ Kick(f)

(* The sketch after the pairs of the given slots were sent to it in the    *)
(* order of the two loops of xx_reset.                                     *)
SentFrom(slots) ==
  LET after[n \in 0 .. SIMD_ROW_NUM * SLOTS] ==
        IF n = 0 THEN sketch
        ELSE LET i == (n - 1) \div SLOTS
                 j == (n - 1) % SLOTS
             IN IF <<i, j>> \in slots
                THEN CHOOSE s \in {IncXX(t, key[i][j], value[i][j]) : t \in {after[n - 1]}} : TRUE
                ELSE after[n - 1]
  IN after[SIMD_ROW_NUM * SLOTS]

(* xx_reset sends every slot, the empty ones (key 0, value 0) included.    *)
Flushed == SentFrom(Row \X Slot)

(* What it would send if it skipped the slots that hold no flow. *)
FlushedFlows == SentFrom({ij \in Row \X Slot : ij[2] < curpos[ij[1]]})

(* xx_reset: flush the cache into the sketch, hand the sketch over, zero   *)
(* the sketch and the simd part (keys, values, curpos, curkick, clocks).   *)
Reset ==
  /\ report' = <<Flushed>>
  /\ sketch' = EmptySketch
  /\ key' = ZeroPairs /\ value' = ZeroPairs /\ myclock' = ZeroPairs
  /\ curpos' = [i \in Row |-> 0]
  /\ curkick' = 0 /\ time_now' = 0
  /\ stats_search' = 0
  /\ seen' = ZeroKeys /\ sent' = ZeroKeys

Next == Reset \/ \E f \in Flow : Inc(f)

Spec == Init /\ [][Next]_vars
-----------------------------------------------------------------------------
TypeOK ==
  /\ key \in [Row -> [Slot -> Key]]
  /\ value \in [Row -> [Slot -> Nat]]
  /\ curpos \in [Row -> 0 .. SLOTS]
  /\ curkick \in Slot
  /\ myclock \in [Row -> [Slot -> 0 .. TIME_MOD - 1]]
  /\ time_now \in 0 .. TIME_MOD - 1
  /\ stats_search \in 0 .. MaxPackets
  /\ seen \in [Key -> Nat]
  /\ sent \in [Key -> Nat]

(* A non-zero flow is cached at most once, and only in its own bucket: the *)
(* match of a later packet then finds the one slot that aggregates it.     *)
NoDuplicateFlow ==
  \A i1, i2 \in Row, j1, j2 \in Slot :
    key[i1][j1] = key[i2][j2] /\ key[i1][j1] # 0
      => i1 = i2 /\ j1 = j2 /\ i1 = bucket_id(key[i1][j1])

(* No packet of a non-zero flow is lost or counted twice between the cache *)
(* and the sketch: what was sent plus what is cached is what was seen.     *)
Conservation ==
  \A f \in Flow \ {0} :
    /\ \A i \in Row, j \in Slot :
         key[i][j] = f => sent[f] + value[i][j] = seen[f]
    /\ (\A i \in Row, j \in Slot : key[i][j] # f) => sent[f] = seen[f]

(* Slots below curpos hold flows with at least one packet, the others hold *)
(* key 0: a kicked pair is therefore never an empty batch.                 *)
FilledSlots ==
  \A i \in Row, j \in Slot :
    IF j < curpos[i] THEN value[i][j] >= 1 ELSE key[i][j] = 0

(* Flow id 0 is the only one that can lose packets (its packets may be     *)
(* aggregated in a slot that counts as empty), and it can never gain any.  *)
ZeroFlowNeverGains ==
  /\ sent[0] <= seen[0]
  /\ \A i \in Row, j \in Slot :
       key[i][j] = 0 => sent[0] + value[i][j] <= seen[0]

(* Where flow id 0 can be: a slot that counts as empty holds packets only  *)
(* at curpos of bucket 0, a filled slot holds it only in a full bucket 0   *)
(* and then only once.                                                     *)
ZeroSlots ==
  \A i \in Row, j \in Slot : key[i][j] = 0 =>
    /\ i # 0 \/ j > curpos[0] => value[i][j] = 0
    /\ i = 0 /\ j < curpos[0] => curpos[0] = SLOTS
    /\ j < curpos[i] => \A k \in Slot : k < curpos[i] /\ key[i][k] = 0 => k = j

(* The inductive invariant: the properties above and where key 0 can be. *)
IInv ==
  /\ TypeOK
  /\ NoDuplicateFlow
  /\ Conservation
  /\ FilledSlots
  /\ ZeroSlots
  /\ ZeroFlowNeverGains
=============================================================================

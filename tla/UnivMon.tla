------------------------------- MODULE UnivMon -------------------------------
(***************************************************************************)
(* SimdBatch::UnivMon (univmon.c): four count heaps.  Every packet goes to *)
(* the first one and, by the bits of its hash, to at most one other.       *)
(***************************************************************************)
EXTENDS Integers, FiniteSetsExt, SequencesExt

CONSTANTS
  Flow, MaxPackets,
  UMSize,         \* counters in a row of the first heap
  CAPACITY,       \* slots of a heap (128)
  FREQ_MOD,       \* freq is a uint32_t (2^32)
  CSHash(_, _),   \* dss_hash_with_seed(key, seed of row r)
  Polar(_, _),    \* the sign bit of a key in row r: 0 or 1
  Level(_, _)     \* the hash bit that decides whether a key goes to heap n + 1

VARIABLES um, stats_search, report

-----------------------------------------------------------------------------
(* countheap.c: a count sketch of four rows and a heap of the flows with   *)
(* the largest estimates.  A record: rows, heap (slots are [flowid, freq]) *)
(* and num, the slots in use.  freq is unsigned.                           *)

count_heap_create(rowsize) ==
  [rows |-> [c \in (1 .. 4) \X (0 .. rowsize - 1) |-> 0],
   heap |-> [i \in 0 .. CAPACITY - 1 |-> [flowid |-> 0, freq |-> 0]],
   num  |-> 0]

swap_64(ch, i, j) == [ch EXCEPT !.heap[i] = ch.heap[j], !.heap[j] = ch.heap[i]]

(* The smallest of i and its children; i, then the left child, wins a tie. *)
larger_one(ch, i) ==
  LET cand == {j \in {i, 2 * i + 1, 2 * i + 2} : j < ch.num}
  IN Min({j \in cand : \A l \in cand : ch.heap[j].freq <= ch.heap[l].freq})

RECURSIVE heap_adjust_down(_, _)
heap_adjust_down(ch, i) ==
  LET c == larger_one(ch, i)
  IN IF i >= ch.num \div 2 \/ c = i THEN ch
     ELSE heap_adjust_down(heap_adjust_down(swap_64(ch, i, c), c), i)

(* The loop ends at slot 1, which is never compared with the root. *)
RECURSIVE heap_adjust_up(_, _)
heap_adjust_up(ch, i) ==
  LET parent == (i - 1) \div 2
  IN IF i <= 1 \/ ch.heap[parent].freq <= ch.heap[i].freq THEN ch
     ELSE heap_adjust_up(swap_64(ch, i, parent), parent)

find_in_heap_ch_below_root(ch, k) ==
  LET at == {i \in 1 .. ch.num - 1 : ch.heap[i].flowid = k}
  IN IF at = {} THEN -1 ELSE Min(at)
(* The slot of a flow, or -1. *)
find_in_heap_ch(ch, k) ==
  LET at == {i \in 0 .. ch.num - 1 : ch.heap[i].flowid = k}
  IN IF at = {} THEN -1 ELSE Min(at)

sign(r, k) == IF Polar(r, k) = 1 THEN 1 ELSE -1

\* the number of columns is that of the record's rows
cell(ch, r, k) == <<r, CSHash(r, k) % (Cardinality(DOMAIN ch.rows) \div 4)>>

rows_add(ch, k, freq) ==
  [ch EXCEPT !.rows[cell(ch, 1, k)] = @ + sign(1, k) * freq,
             !.rows[cell(ch, 2, k)] = @ + sign(2, k) * freq,
             !.rows[cell(ch, 3, k)] = @ + sign(3, k) * freq,
             !.rows[cell(ch, 4, k)] = @ + sign(4, k) * freq]

(* The mean of the middle two estimates; integer division truncates. *)
estimate(ch, k) ==
  LET ans == SortSeq([r \in 1 .. 4 |-> sign(r, k) * ch.rows[cell(ch, r, k)]], LAMBDA a, b : a < b)
      sum == ans[2] + ans[3]
  IN IF sum >= 0 THEN sum \div 2 ELSE -((-sum) \div 2)

as_int(freq) == IF freq >= FREQ_MOD \div 2 THEN freq - FREQ_MOD ELSE freq

count_heap_insert(ch0, k, freq) ==
  LET ch   == rows_add(ch0, k, freq)
      tmin == estimate(ch, k)
      pos  == find_in_heap_ch(ch, k)
      here == [flowid |-> k, freq |-> tmin % FREQ_MOD]
  IN IF pos # -1
     THEN heap_adjust_down([ch EXCEPT !.heap[pos].freq = (@ + freq) % FREQ_MOD], pos)
     ELSE IF ch.num < CAPACITY
     THEN heap_adjust_up([ch EXCEPT !.heap[ch.num] = here, !.num = @ + 1], ch.num)
     ELSE IF tmin > as_int(ch.heap[0].freq)
     THEN heap_adjust_down([ch EXCEPT !.heap[0] = here], 0)
     ELSE ch
-----------------------------------------------------------------------------
(* The four heaps *)

\* the second heap has half the counters of the first, and so on
univmon_create == [n \in 1 .. 4 |-> count_heap_create(UMSize \div 2^(n - 1))]

(* The heap besides the first: the one of the first bit that is set. *)
sampled(k) ==
  {n \in 2 .. 4 : Level(n - 1, k) = 1 /\ \A m \in 2 .. n - 1 : Level(m - 1, k) # 1}

univmon_inc(s, f) ==
  FoldSet(LAMBDA n, t : [t EXCEPT ![n] = count_heap_insert(@, f, 1)],
          s, {1} \cup sampled(f))

Sketch == INSTANCE DirectSketch WITH
  sketch <- um, EmptySketch <- univmon_create, IncOne <- univmon_inc,
  HandedOver <- LAMBDA s : {s}

univmon_reset == Sketch!Reset

Init == Sketch!Init
Next == univmon_reset \/ \E f \in Flow : Sketch!Inc(f)
Spec == Init /\ [][Next]_<<um, stats_search, report>>
=============================================================================

--------------------------- MODULE SpaceSavingSimd ---------------------------
(* SimdBatch::SpaceSavingSimd (spacesavingsimd.c): the top-k stream        *)
(* summary behind the Agg-Evict front end.  stats_search of the front end  *)
(* is the number of packets here; the counter of this module is searches,  *)
(* which spacesavingsimd_inc_ss increments as well.  The reset zeroes it   *)
(* before the flush, so that it starts an epoch with one search per slot.  *)
EXTENDS Integers, Sequences, FiniteSets, Functions

CONSTANTS Size,   \* nodes of the heap, a power of two
          Flow, SIMD_ROW_NUM, SLOTS, GRR_ALL, MIN_TIME, TIME_MOD, MaxPackets

VARIABLES
  key, value, curpos, curkick, myclock, time_now,
  heap, stats_search, searches, report, seen, sent

-----------------------------------------------------------------------------
(* The array heap of spacesaving.c and spacesavingsimd.c: at most Size     *)
(* flows with their frequencies, meant to keep the least frequent one at   *)
(* index 0.  heap_adjust_up stops at index 1 and never compares it with    *)
(* the root.                                                               *)

NoNode == [flowid |-> 0, freq |-> 0]

EmptyHeap == [now_element |-> 0, nodes |-> [i \in 0 .. Size - 1 |-> NoNode]]

freq(h, i) == h.nodes[i].freq
parent(i) == (i - 1) \div 2

swap_64_ss(h, i, j) ==
  [h EXCEPT !.nodes[i] = h.nodes[j], !.nodes[j] = h.nodes[i]]

(* The least frequent of a node and its children; the first one of equals. *)
larger_one(h, i) ==
  LET family == {i} \cup ({2 * i + 1, 2 * i + 2} \cap 0 .. h.now_element - 1)
  IN CHOOSE c \in family : \A d \in family :
       freq(h, c) < freq(h, d) \/ (freq(h, c) = freq(h, d) /\ c <= d)

adjust_down_one_level(h, i) ==
  IF i >= h.now_element \div 2 THEN h ELSE swap_64_ss(h, i, larger_one(h, i))
(* After the recursive call the loop looks at the same node again. *)
RECURSIVE heap_adjust_down_ss(_, _)
heap_adjust_down_ss(h, i) ==
  LET c == larger_one(h, i)
  IN IF i >= h.now_element \div 2 \/ c = i THEN h
     ELSE heap_adjust_down_ss(heap_adjust_down_ss(swap_64_ss(h, i, c), c), i)

RECURSIVE heap_adjust_up_ss(_, _)
heap_adjust_up_ss(h, i) ==
  IF i <= 1 \/ freq(h, parent(i)) <= freq(h, i) THEN h
  ELSE heap_adjust_up_ss(swap_64_ss(h, i, parent(i)), parent(i))

(* The positions of a flow; the search returns the first of them. *)
found(h, f) == {i \in 0 .. h.now_element - 1 : h.nodes[i].flowid = f}
find_in_heap(h, f) == CHOOSE i \in found(h, f) : \A j \in found(h, f) : i <= j

replaced_afresh(h, f, val) ==
  [h EXCEPT !.nodes[0] = [flowid |-> f, freq |-> val]]
(* A full heap gives the root, with its frequency, to the new flow. *)
replaced(h, f, val) ==
  [h EXCEPT !.nodes[0] = [flowid |-> f, freq |-> @.freq + val]]
appended_one(h, f, val) ==
  [h EXCEPT !.nodes[h.now_element] = [flowid |-> f, freq |-> 1],
            !.now_element = @ + 1]
(* A heap with room takes it at the end. *)
appended(h, f, val) ==
  [h EXCEPT !.nodes[h.now_element] = [flowid |-> f, freq |-> val],
            !.now_element = @ + 1]

(* One packet of flow f in spacesaving_inc (val = 1), val packets of it    *)
(* in spacesavingsimd_inc_ss.                                              *)
inc_ss(h, f, val) ==
  IF found(h, f) # {} THEN
    LET i == find_in_heap(h, f)
    IN heap_adjust_down_ss([h EXCEPT !.nodes[i].freq = @ + val], i)
  ELSE IF h.now_element < Size THEN
    heap_adjust_up_ss(appended(h, f, val), h.now_element)
  ELSE heap_adjust_down_ss(replaced(h, f, val), 0)
-----------------------------------------------------------------------------
(* The heap behind the front end *)

spacesavingsimd_create == EmptyHeap

(* The kicked pair adds its value to the node of its flow. *)
spacesavingsimd_inc_ss(h, kick_key, kick_val) == inc_ss(h, kick_key, kick_val)

FrontEnd == INSTANCE AggEvict WITH
  sketch <- heap, EmptySketch <- spacesavingsimd_create, IncXX <- spacesavingsimd_inc_ss

spacesavingsimd_inc(f) ==
  \/ (FrontEnd!Hit(f) \/ FrontEnd!Fill(f)) /\ searches' = searches + 1
  \/ FrontEnd!Kick(f) /\ searches' = searches + 2

spacesavingsimd_reset ==
  FrontEnd!Reset /\ searches' = SIMD_ROW_NUM * SLOTS

vars == <<FrontEnd!vars, searches>>

Init == FrontEnd!Init /\ searches = 0
Next == spacesavingsimd_reset \/ \E f \in Flow : spacesavingsimd_inc(f)
Spec == Init /\ [][Next]_vars
-----------------------------------------------------------------------------
Nodes(h) == 0 .. h.now_element - 1
Freqs(h) == [i \in 0 .. Size - 1 |-> freq(h, i)]

(* The keys an epoch sends to the heap: its flows, and 0 for empty slots. *)
KeysSent == {f \in Flow : seen[f] > 0}
            \cup {0 : b \in {c \in DOMAIN curpos : curpos[c] < SLOTS}}

Ordered(h, nodes) == \A i \in nodes : freq(h, parent(i)) <= freq(h, i)

(* What heap_adjust_up and heap_adjust_down keep between them: every node  *)
(* but the one at index 1 is at least as frequent as its parent, and no    *)
(* flow has two nodes.  Once a full heap has given its root away, index 1  *)
(* is in order too, and stays so: the report of an epoch with more keys    *)
(* than nodes is a heap, with its least count at the root.                 *)
HeapOrdered ==
  /\ [](\A h \in {heap} \cup Range(report) :
          /\ Ordered(h, Nodes(h) \ {0, 1})
          /\ \A i, j \in Nodes(h) : h.nodes[i].flowid = h.nodes[j].flowid => i = j)
  /\ [][report' # <<>> /\ Cardinality(KeysSent) > Size =>
          Ordered(report'[1], Nodes(report'[1]) \ {0})]_vars

(* The heap that spacesavingsimd_reset writes out accounts for every       *)
(* packet of the epoch, whichever flows were replaced in it.               *)
PacketsInSummary ==
  [][report' # <<>> => SumFunction(Freqs(report'[1])) = SumFunction(seen)]_vars

(* As long as one node is left for the empty slots that the reset also     *)
(* sends, the heap it writes out holds every flow with its exact count.    *)
TopKComplete ==
  [][report' # <<>> /\ Cardinality({f \in Flow : seen[f] > 0}) < Size =>
       \A f \in Flow : seen[f] > 0 =>
         \E i \in Nodes(report'[1]) :
           report'[1].nodes[i] = [flowid |-> f, freq |-> seen[f]]]_vars
=============================================================================

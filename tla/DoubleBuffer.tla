---------------------------- MODULE DoubleBuffer ----------------------------
(***************************************************************************)
(* simdbatch_cmsketchsimd_execute on an rx core against                    *)
(* simdbatch_cmsketchsimd_reset on the stats core, one memory access at a  *)
(* time.  Nothing locks the two buffers: execute keeps the pointer it read *)
(* at the start of a batch, reset swaps the pointer and then flushes and   *)
(* zeroes the buffer that was active.  A batch that is still running in    *)
(* that buffer is cut.  The model is one bucket of the front end under     *)
(* GRR_ALL; the sketch behind it keeps one counter per key.                *)
(*                                                                         *)
(* The 16 keys are compared in one step: the only concurrent write to a    *)
(* key is the memset, so loads at different moments see nothing that one   *)
(* load at the moment of the match would not.  memset may write its words  *)
(* in any order; the sketch is zeroed in one step.  A register is 0 while  *)
(* dead.  seen, cut and cuts are history variables.                        *)
(***************************************************************************)
EXTENDS Integers, FiniteSets, FiniteSetsExt

CONSTANTS
  Flow,         \* flow ids, without 0
  SLOTS,        \* pairs of the bucket (16)
  Batch,        \* bound: packets of a call of execute
  MaxPackets,   \* bound: packets of all calls
  MaxResets     \* bound: calls of reset

ASSUME DoubleBufferAssumption == SLOTS \in Nat \ {0}

Buffer == {1, 2}
Slot   == 0 .. SLOTS - 1
Key    == Flow \cup {0}
Word   == {"key", "value", "curpos"} \X Slot

VARIABLES
  active,                        \* module->cmsketchsimd
  key, value, curpos, curkick,   \* [Buffer -> ...], the simd part
  table,                         \* [Buffer -> [Key -> counter]], the sketch
  rx_pc, rx_b, rx_left,          \* rx core: step, local pointer, packets left
  rx_f, rx_j, rx_r,              \* its flow, slot index and last loaded value
  st_pc, st_b, st_j, st_r,       \* stats core: step, prev, slot, loaded value
  st_words,                      \* words that memset has still to zero
  packets, resets,               \* packets and resets so far
  seen,  \* history: [Buffer -> [Flow -> packets counted since its last reset]]
  cut,   \* history: [Buffer -> its content was touched by a cut batch]
  cuts   \* history: this reset cuts a batch

mem == <<key, value, curpos, curkick, table>>
rx_regs == <<rx_pc, rx_b, rx_left, rx_f, rx_j, rx_r>>
st_regs == <<st_pc, st_b, st_j, st_r, st_words>>
vars == <<active, mem, rx_regs, st_regs, packets, resets, seen, cut, cuts>>

NoPackets == [f \in Flow |-> 0]

Init ==
  /\ active = 1
  /\ key = [b \in Buffer |-> [j \in Slot |-> 0]]
  /\ value = [b \in Buffer |-> [j \in Slot |-> 0]]
  /\ curpos = [b \in Buffer |-> 0] /\ curkick = [b \in Buffer |-> 0]
  /\ table = [b \in Buffer |-> [k \in Key |-> 0]]
  /\ rx_pc = "idle" /\ rx_b = 1 /\ rx_left = 0
  /\ rx_f = 0 /\ rx_j = 0 /\ rx_r = 0
  /\ st_pc = "idle" /\ st_b = 1 /\ st_j = 0 /\ st_r = 0 /\ st_words = {}
  /\ packets = 0 /\ resets = 0
  /\ seen = [b \in Buffer |-> NoPackets]
  /\ cut = [b \in Buffer |-> FALSE] /\ cuts = FALSE
-----------------------------------------------------------------------------
Running(b) == rx_pc # "idle" /\ rx_b = b

(* The next packet of the batch, or the end of the batch. *)
Counted ==
  /\ rx_j' = 0 /\ rx_r' = 0
  /\ IF rx_left = 0
     THEN rx_pc' = "idle" /\ rx_f' = 0 /\ UNCHANGED rx_left
     ELSE rx_pc' = "match" /\ rx_f' \in Flow /\ rx_left' = rx_left - 1

(* execute: the pointer is read once. *)
execute ==
  /\ rx_pc = "idle"
  /\ \E count \in 1 .. Batch :
       /\ packets + count <= MaxPackets
       /\ packets' = packets + count
       /\ rx_left' = count - 1
  /\ rx_b' = active
  /\ rx_f' \in Flow
  /\ rx_pc' = "match"
  /\ UNCHANGED <<active, mem, rx_j, rx_r, seen>>

matched == {j \in Slot : key[rx_b][j] = rx_f}

(* cmsketchsimd_inc: compare the keys. *)
match ==
  /\ rx_pc = "match"
  /\ IF matched # {}
     THEN /\ rx_pc' = "hit"
          /\ rx_j' = CHOOSE j \in matched : \A k \in matched : j <= k
     ELSE rx_pc' = "curpos" /\ UNCHANGED rx_j
  /\ seen' = [seen EXCEPT ![rx_b][rx_f] = @ + 1]
  /\ UNCHANGED <<active, mem, rx_b, rx_left, rx_f, rx_r, packets>>

(* The value of the matched slot is loaded, incremented and stored. *)
hit ==
  /\ rx_pc = "hit"
  /\ rx_r' = value[rx_b][rx_j]
  /\ rx_pc' = "hit_store"
  /\ UNCHANGED <<active, mem, rx_b, rx_left, rx_f, rx_j, seen, packets>>
hit_store ==
  /\ rx_pc = "hit_store"
  /\ value' = [value EXCEPT ![rx_b][rx_j] = rx_r + 1]
  /\ Counted
  /\ UNCHANGED <<active, key, curpos, curkick, table, rx_b, seen, packets>>

(* cur_pos_now is loaded; a full bucket then loads curkick. *)
cur_pos_now ==
  /\ rx_pc = "curpos"
  /\ IF curpos[rx_b] # SLOTS
     THEN rx_j' = curpos[rx_b] /\ rx_pc' = "fill_key"
     ELSE rx_pc' = "curkick" /\ UNCHANGED rx_j
  /\ UNCHANGED <<active, mem, rx_b, rx_left, rx_f, rx_r, seen, packets>>
load_curkick ==
  /\ rx_pc = "curkick"
  /\ rx_j' = curkick[rx_b]
  /\ rx_pc' = "kick"
  /\ UNCHANGED <<active, mem, rx_b, rx_left, rx_f, rx_r, seen, packets>>

(* A free slot: store the key, store the value, increment curpos. *)
fill_key ==
  /\ rx_pc = "fill_key"
  /\ key' = [key EXCEPT ![rx_b][rx_j] = rx_f]
  /\ rx_pc' = "fill_value"
  /\ UNCHANGED <<active, value, curpos, curkick, table, rx_b, rx_left, rx_f, rx_j, rx_r,
                 seen, packets>>
fill_value ==
  /\ rx_pc = "fill_value"
  /\ value' = [value EXCEPT ![rx_b][rx_j] = 1]
  /\ rx_pc' = "fill_pos"
  /\ UNCHANGED <<active, key, curpos, curkick, table, rx_b, rx_left, rx_f, rx_j, rx_r,
                 seen, packets>>
fill_pos ==
  /\ rx_pc = "fill_pos"
  /\ rx_r' = curpos[rx_b]
  /\ rx_pc' = "fill_pos_store"
  /\ UNCHANGED <<active, mem, rx_b, rx_left, rx_f, rx_j, seen, packets>>
fill_pos_store ==
  /\ rx_pc = "fill_pos_store"
  /\ curpos' = [curpos EXCEPT ![rx_b] = rx_r + 1]
  /\ Counted
  /\ UNCHANGED <<active, key, value, curkick, table, rx_b, seen, packets>>

(* A full bucket: load the victim, load its counter, store the sum, put    *)
(* the new flow in its place and move curkick on.                          *)
kick ==
  /\ rx_pc = "kick"
  /\ rx_r' = <<key[rx_b][rx_j], value[rx_b][rx_j]>>
  /\ rx_pc' = "kick_load"
  /\ UNCHANGED <<active, mem, rx_b, rx_left, rx_f, rx_j, seen, packets>>
kick_load ==
  /\ rx_pc = "kick_load"
  /\ rx_r' = <<rx_r[1], table[rx_b][rx_r[1]] + rx_r[2]>>
  /\ rx_pc' = "kick_store"
  /\ UNCHANGED <<active, mem, rx_b, rx_left, rx_f, rx_j, seen, packets>>
kick_store ==
  /\ rx_pc = "kick_store"
  /\ table' = [table EXCEPT ![rx_b][rx_r[1]] = rx_r[2]]
  /\ rx_r' = 0
  /\ rx_pc' = "kick_key"
  /\ UNCHANGED <<active, key, value, curpos, curkick, rx_b, rx_left, rx_f, rx_j, seen, packets>>
kick_key ==
  /\ rx_pc = "kick_key"
  /\ key' = [key EXCEPT ![rx_b][rx_j] = rx_f]
  /\ rx_pc' = "kick_value"
  /\ UNCHANGED <<active, value, curpos, curkick, table, rx_b, rx_left, rx_f, rx_j, rx_r,
                 seen, packets>>
kick_value ==
  /\ rx_pc = "kick_value"
  /\ value' = [value EXCEPT ![rx_b][rx_j] = 1]
  /\ rx_pc' = "kick_next"
  /\ UNCHANGED <<active, key, curpos, curkick, table, rx_b, rx_left, rx_f, rx_j, rx_r,
                 seen, packets>>
next_kick(j) == (j + 1) % SLOTS
kick_next ==
  /\ rx_pc = "kick_next"
  /\ curkick' = [curkick EXCEPT ![rx_b] = next_kick(rx_j)]
  /\ Counted
  /\ UNCHANGED <<active, key, value, curpos, table, rx_b, seen, packets>>

rx_core ==
  /\ \/ execute \/ match \/ hit \/ hit_store \/ cur_pos_now
     \/ fill_key \/ fill_value \/ fill_pos \/ fill_pos_store
     \/ load_curkick \/ kick \/ kick_load \/ kick_store
     \/ kick_key \/ kick_value \/ kick_next
  /\ UNCHANGED <<st_regs, resets, cut, cuts>>
-----------------------------------------------------------------------------
other_same(b) == b
other(b) == 3 - b

(* simdbatch_cmsketchsimd_reset: swap the pointer. *)
swap ==
  /\ st_pc = "idle" /\ resets < MaxResets
  /\ resets' = resets + 1
  /\ st_b' = active
  /\ active' = other(active)
  /\ st_pc' = "start"
  /\ UNCHANGED <<mem, st_j, st_r, st_words, seen, cut, cuts>>

(* The flush starts.  A batch that still runs in prev is cut. *)
start ==
  /\ st_pc = "start"
  /\ cuts' = Running(st_b)
  /\ cut' = [cut EXCEPT ![st_b] = @ \/ Running(st_b)]
  /\ st_pc' = "flush"
  /\ UNCHANGED <<active, mem, st_b, st_j, st_r, st_words, resets, seen>>

(* cmsketchsimd_reset sends each pair to the sketch: load the pair, load   *)
(* the counter, store the sum.                                             *)
flush ==
  /\ st_pc = "flush"
  /\ st_r' = <<key[st_b][st_j], value[st_b][st_j]>>
  /\ st_pc' = "flush_load"
  /\ UNCHANGED <<active, mem, st_b, st_j, st_words, resets, seen, cut, cuts>>
flush_load ==
  /\ st_pc = "flush_load"
  /\ st_r' = <<st_r[1], table[st_b][st_r[1]] + st_r[2]>>
  /\ st_pc' = "flush_store"
  /\ UNCHANGED <<active, mem, st_b, st_j, st_words, resets, seen, cut, cuts>>
last_slot_short == SLOTS - 2
last_slot == SLOTS - 1
flush_store ==
  /\ st_pc = "flush_store"
  /\ table' = [table EXCEPT ![st_b][st_r[1]] = st_r[2]]
  /\ st_r' = 0
  /\ IF st_j = last_slot
     THEN st_pc' = "zero_table" /\ st_j' = 0
     ELSE st_pc' = "flush" /\ st_j' = st_j + 1
  /\ UNCHANGED <<active, key, value, curpos, curkick, st_b, st_words,
                 resets, seen, cut, cuts>>

(* memset covers the keys, the values and the position (SIMD_SIZE). *)
words_of_pairs == {"key", "value"} \X Slot
words == words_of_pairs \cup {<<"curpos", 0>>}

(* memset of the sketch, then of the simd part, then curkick = 0. *)
zero_table ==
  /\ st_pc = "zero_table"
  /\ table' = [table EXCEPT ![st_b] = [k \in Key |-> 0]]
  /\ st_words' = words
  /\ st_pc' = "zero_simd"
  /\ UNCHANGED <<active, key, value, curpos, curkick, st_b, st_j, st_r,
                 resets, seen, cut, cuts>>
zero_word(w) ==
  /\ st_pc = "zero_simd" /\ w \in st_words
  /\ st_words' = st_words \ {w}
  /\ key' = IF w[1] = "key" THEN [key EXCEPT ![st_b][w[2]] = 0] ELSE key
  /\ value' = IF w[1] = "value" THEN [value EXCEPT ![st_b][w[2]] = 0] ELSE value
  /\ curpos' = IF w[1] = "curpos" THEN [curpos EXCEPT ![st_b] = 0] ELSE curpos
  /\ UNCHANGED <<active, curkick, table, st_pc, st_b, st_j, st_r, resets,
                 seen, cut, cuts>>
zero_curkick ==
  /\ st_pc = "zero_simd" /\ st_words = {}
  /\ curkick' = [curkick EXCEPT ![st_b] = 0]
  /\ seen' = [seen EXCEPT ![st_b] = NoPackets]
  /\ cut' = [cut EXCEPT ![st_b] = cuts]
  /\ cuts' = FALSE
  /\ st_pc' = "idle"
  /\ UNCHANGED <<active, key, value, curpos, table, st_b, st_j, st_r, st_words,
                 resets>>

stats_core ==
  /\ \/ swap \/ start
     \/ flush \/ flush_load \/ flush_store
     \/ zero_table \/ (\E w \in Word : zero_word(w)) \/ zero_curkick
  /\ UNCHANGED <<rx_regs, packets>>

Next == rx_core \/ stats_core

Spec == Init /\ [][Next]_vars
-----------------------------------------------------------------------------
Cached(b, f) ==
  LET S == {j \in Slot : key[b][j] = f}
  IN  FoldSet(LAMBDA j, n : n + value[b][j], 0, S)

InReset(b) == st_pc # "idle" /\ st_b = b

(* However a reset cuts a batch, the positions stay inside the bucket:     *)
(* curpos is loaded before the slot is written and again to be incremented,*)
(* and the memset may come in between.                                     *)
IndicesInRange ==
  /\ \A b \in Buffer : curpos[b] \in 0 .. SLOTS /\ curkick[b] \in Slot
  /\ rx_j \in Slot

(* When a batch was not cut, the buffer that reset leaves behind is the    *)
(* zeroed one that cmsketchsimd_create made, and stays so until it becomes *)
(* active: a buffer spoilt by a cut batch is clean again after the next    *)
(* reset of it that cuts none.                                             *)
CleanUnlessCut ==
  \A b \in Buffer :
    b # active /\ ~InReset(b) /\ ~cut[b] =>
      /\ key[b] = [j \in Slot |-> 0] /\ value[b] = [j \in Slot |-> 0]
      /\ curpos[b] = 0 /\ curkick[b] = 0
      /\ table[b] = [k \in Key |-> 0]

(* Between batches the sketch and the cached pairs of a buffer hold every  *)
(* packet counted since its last reset, unless a cut batch touched it.     *)
ExactUnlessCut ==
  \A b \in Buffer :
    ~Running(b) /\ ~InReset(b) /\ ~cut[b] =>
      \A f \in Flow : table[b][f] + Cached(b, f) = seen[b][f]

(* What reset has flushed when it starts to zero the sketch is every       *)
(* packet of the epoch, unless a cut batch touched the buffer.            *)
ReportUnlessCut ==
  st_pc = "zero_table" /\ ~cut[st_b] =>
    \A f \in Flow : table[st_b][f] = seen[st_b][f]
-----------------------------------------------------------------------------
TypeOK ==
  /\ active \in Buffer /\ rx_b \in Buffer /\ st_b \in Buffer
  /\ key \in [Buffer -> [Slot -> Key]] /\ value \in [Buffer -> [Slot -> Nat]]
  /\ table \in [Buffer -> [Key -> Nat]]
  /\ curpos \in [Buffer -> 0 .. SLOTS] /\ curkick \in [Buffer -> Slot]
  /\ rx_j \in Slot /\ st_j \in Slot
  /\ rx_pc # "idle" => rx_f \in Flow
  /\ rx_pc = "hit_store" => rx_r \in Nat
  /\ rx_pc \in {"kick_load", "kick_store"} => rx_r \in Key \X Nat
  /\ st_pc \in {"flush_load", "flush_store"} => st_r \in Key \X Nat
  /\ cut \in [Buffer -> BOOLEAN] /\ cuts \in BOOLEAN

(* A free slot was found: curpos cannot have moved but to 0. *)
FreeSlot ==
  /\ rx_pc \in {"fill_key", "fill_value", "fill_pos"} => curpos[rx_b] < SLOTS
  /\ rx_pc = "fill_pos_store" => rx_r \in Slot

(* A batch in a buffer that is not active was cut, once the reset of that  *)
(* buffer has started, and this reset knows.                               *)
CutKnown ==
  /\ st_pc # "idle" => active # st_b
  /\ \A b \in Buffer : Running(b) /\ b # active /\ ~(st_pc = "start" /\ st_b = b) => cut[b]
  /\ st_pc \notin {"idle", "start"} /\ Running(st_b) => cuts

(* What memset has passed is zero, unless a batch was cut. *)
ZeroedSoFar ==
  st_pc = "zero_simd" /\ ~cuts =>
    /\ table[st_b] = [k \in Key |-> 0]
    /\ \A j \in Slot : <<"key", j>> \notin st_words => key[st_b][j] = 0
    /\ \A j \in Slot : <<"value", j>> \notin st_words => value[st_b][j] = 0
    /\ <<"curpos", 0>> \notin st_words => curpos[st_b] = 0

(* The inductive invariant behind IndicesInRange and CleanUnlessCut. *)
IInv == TypeOK /\ FreeSlot /\ CutKnown /\ ZeroedSoFar /\ CleanUnlessCut
=============================================================================

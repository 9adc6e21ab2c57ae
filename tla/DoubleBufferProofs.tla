------------------------- MODULE DoubleBufferProofs -------------------------
(* Proofs about the two buffers, for any number of flows, slots, packets   *)
(* and resets, and any interleaving of the rx core and the stats core.     *)
EXTENDS DoubleBuffer, TLAPS, WellFoundedInduction

(* The first slot that holds a key exists when some slot holds it. *)
LEMMA FirstSlot ==
  ASSUME NEW S, S \subseteq Slot, S # {}
  PROVE  (CHOOSE j \in S : \A k \in S : j <= k) \in Slot
<1>1. S \subseteq Nat
  BY DEF Slot
<1>2. PICK j \in S : \A k \in S : ~ (<<k, j>> \in OpToRel(<, Nat))
  <2>1. IsWellFoundedOn(OpToRel(<, Nat), Nat)
    BY NatLessThanWellFounded
  <2> QED BY <1>1, <2>1, WFMin
<1>3. \A k \in S : ~ (k < j)
  BY <1>1, <1>2 DEF OpToRel
<1>4. \A k \in S : j <= k
  BY <1>1, <1>3
<1> QED BY <1>4

(* The index that follows in the bucket is in the bucket. *)
LEMMA NextKick == ASSUME NEW j \in Slot PROVE next_kick(j) \in Slot
BY DoubleBufferAssumption DEF next_kick, Slot

LEMMA NextPos == ASSUME NEW j \in Slot PROVE j + 1 \in 0 .. SLOTS
BY DoubleBufferAssumption DEF Slot

LEMMA NextFlushed ==
  0 \in Slot /\ \A j \in Slot : j # last_slot => j + 1 \in Slot
BY DoubleBufferAssumption DEF Slot, last_slot

(* A position of a bucket that is not full is a slot. *)
LEMMA PosIsSlot ==
  ASSUME NEW p \in 0 .. SLOTS, p # SLOTS \/ p < SLOTS
  PROVE  p \in Slot /\ p < SLOTS
BY DoubleBufferAssumption DEF Slot

LEMMA InitIInv == ASSUME Init PROVE IInv
<1>0. 0 \in Slot /\ 0 \in Key /\ 0 \in 0 .. SLOTS /\ 1 \in Buffer
  BY DoubleBufferAssumption DEF Slot, Key, Buffer
<1>1. TypeOK
  BY <1>0 DEF Init, TypeOK
<1>2. FreeSlot /\ CutKnown /\ ZeroedSoFar
  BY DEF Init, FreeSlot, CutKnown, ZeroedSoFar, Running
<1>3. CleanUnlessCut
  BY DEF Init, CleanUnlessCut
<1> QED BY <1>1, <1>2, <1>3 DEF IInv

mem_of(b) == <<key[b], value[b], curpos[b], curkick[b], table[b]>>

(* A step of the rx core leaves alone every buffer in which no batch runs, *)
(* and a batch runs in the buffer in which it started.                     *)
RxFrame ==
  /\ \A b \in Buffer : ~Running(b) => mem_of(b)' = mem_of(b)
  /\ active' = active
  /\ rx_pc' # "idle" => IF rx_pc = "idle" THEN rx_b' = active ELSE rx_b' = rx_b

LEMMA CountedStep ==
  ASSUME Counted
  PROVE  /\ rx_pc' \in {"idle", "match"} /\ rx_j' = 0
         /\ rx_pc' # "idle" => rx_f' \in Flow
BY DEF Counted

(* The steps that only load. *)
LEMMA RxLoads ==
  ASSUME IInv, execute \/ match \/ hit \/ cur_pos_now \/ load_curkick \/ fill_pos
               \/ kick \/ kick_load,
         UNCHANGED <<st_regs, resets, cut, cuts>>
  PROVE  TypeOK' /\ FreeSlot' /\ RxFrame
<1>1. UNCHANGED <<active, mem>>
  BY DEF execute, match, hit, cur_pos_now, load_curkick, fill_pos, kick, kick_load
<1>2. /\ \A b \in Buffer : mem_of(b)' = mem_of(b)
      /\ active' = active
  BY <1>1 DEF mem, mem_of
<1>3. RxFrame
  BY <1>2 DEF RxFrame, execute, match, hit, cur_pos_now, load_curkick, fill_pos, kick,
              kick_load
<1>4. active' \in Buffer /\ st_b' \in Buffer /\ st_j' \in Slot
  BY <1>1 DEF IInv, TypeOK, st_regs
<1>5. TypeOK' /\ FreeSlot'
  <2> USE <1>1 DEF IInv, TypeOK, FreeSlot, mem, st_regs
  <2>1. CASE execute
    BY <2>1 DEF execute
  <2>2. CASE match
    <3>1. matched # {} => (CHOOSE j \in matched : \A k \in matched : j <= k) \in Slot
      BY FirstSlot DEF matched
    <3> QED BY <2>2, <3>1 DEF match
  <2>3. CASE hit
    BY <2>3 DEF hit
  <2>4. CASE cur_pos_now
    <3>1. curpos[rx_b] \in 0 .. SLOTS
      OBVIOUS
    <3>2. curpos[rx_b] # SLOTS => curpos[rx_b] \in Slot /\ curpos[rx_b] < SLOTS
      BY <3>1, PosIsSlot
    <3> QED BY <2>4, <3>2 DEF cur_pos_now
  <2>5. CASE load_curkick
    BY <2>5 DEF load_curkick
  <2>6. CASE fill_pos
    <3>1. curpos[rx_b] \in 0 .. SLOTS /\ curpos[rx_b] < SLOTS
      BY <2>6 DEF fill_pos
    <3>2. curpos[rx_b] \in Slot
      BY <3>1, PosIsSlot
    <3> QED BY <2>6, <3>2 DEF fill_pos
  <2>7. CASE kick
    BY <2>7 DEF kick
  <2>8. CASE kick_load
    BY <2>8 DEF kick_load
  <2> QED BY <2>1, <2>2, <2>3, <2>4, <2>5, <2>6, <2>7, <2>8
<1> QED BY <1>3, <1>5

(* The steps that store into the buffer of the batch. *)
LEMMA RxStores ==
  ASSUME IInv, hit_store \/ fill_key \/ fill_value \/ fill_pos_store
               \/ kick_store \/ kick_key \/ kick_value \/ kick_next,
         UNCHANGED <<st_regs, resets, cut, cuts>>
  PROVE  TypeOK' /\ FreeSlot' /\ RxFrame
<1> USE DoubleBufferAssumption, CountedStep
    DEF IInv, TypeOK, FreeSlot, RxFrame, mem_of, st_regs, Running
<1>0. 0 \in Slot /\ 0 \in Key /\ (\A f \in Flow : f \in Key)
  BY DEF Slot, Key
<1>1. CASE hit_store
  BY <1>0, <1>1 DEF hit_store
<1>2. CASE fill_key
  BY <1>0, <1>2 DEF fill_key
<1>3. CASE fill_value
  BY <1>0, <1>3 DEF fill_value
<1>4. CASE fill_pos_store
  <2>1. rx_r \in Slot
    BY <1>4 DEF fill_pos_store
  <2>2. rx_r + 1 \in 0 .. SLOTS
    BY <2>1, NextPos
  <2> QED BY <1>0, <1>4, <2>2 DEF fill_pos_store
<1>5. CASE kick_store
  BY <1>0, <1>5 DEF kick_store
<1>6. CASE kick_key
  BY <1>0, <1>6 DEF kick_key
<1>7. CASE kick_value
  BY <1>0, <1>7 DEF kick_value
<1>8. CASE kick_next
  BY <1>0, <1>8, NextKick DEF kick_next
<1> QED BY <1>1, <1>2, <1>3, <1>4, <1>5, <1>6, <1>7, <1>8

(* What the stats core relies on survives a step of the rx core: a batch   *)
(* only stores into a buffer that is active or that the history calls cut. *)
LEMMA RxStep == ASSUME IInv, rx_core PROVE IInv'
<1>1. UNCHANGED <<st_regs, resets, cut, cuts>>
  BY DEF rx_core
<1>2. TypeOK' /\ FreeSlot' /\ RxFrame
  BY <1>1, RxLoads, RxStores DEF rx_core
<1>3. /\ st_pc' = st_pc /\ st_b' = st_b /\ st_words' = st_words
      /\ cut' = cut /\ cuts' = cuts /\ active' = active
  BY <1>1, <1>2 DEF st_regs, RxFrame
<1>4. CutKnown'
  <2>1. ASSUME NEW b \in Buffer, Running(b)', b # active PROVE Running(b)
    BY <1>2, <2>1 DEF RxFrame, Running
  <2> QED BY <1>3, <2>1 DEF IInv, CutKnown, Running, TypeOK
<1>5. ZeroedSoFar'
  <2>1. SUFFICES ASSUME st_pc = "zero_simd", ~cuts PROVE ZeroedSoFar'
    BY <1>3 DEF ZeroedSoFar
  <2>2. ~Running(st_b) /\ st_b \in Buffer
    BY <2>1 DEF IInv, CutKnown, TypeOK
  <2>3. mem_of(st_b)' = mem_of(st_b)
    BY <1>2, <1>3, <2>2 DEF RxFrame, mem_of
  <2> QED BY <1>3, <2>1, <2>3 DEF IInv, ZeroedSoFar, mem_of
<1>6. CleanUnlessCut'
  <2>1. SUFFICES ASSUME NEW b \in Buffer, b # active, ~InReset(b), ~cut[b]
                 PROVE  mem_of(b)' = mem_of(b)
    BY <1>3 DEF IInv, CleanUnlessCut, InReset, mem_of
  <2>2. ~Running(b)
    BY <2>1 DEF IInv, CutKnown, InReset
  <2> QED BY <1>2, <2>2 DEF RxFrame
<1> QED BY <1>2, <1>4, <1>5, <1>6 DEF IInv
-----------------------------------------------------------------------------
(* The pointer is swapped: the buffer that was active is in reset, and the *)
(* other one, clean or not, is not looked at again before its own reset.   *)
LEMMA SwapStep == ASSUME IInv, swap, UNCHANGED <<rx_regs, packets>> PROVE IInv'
<1>1. other(active) \in Buffer /\ other(active) # active
  BY DEF other, IInv, TypeOK, Buffer
<1>2. \A b \in Buffer : b # other(active) => b = active
  BY DEF other, IInv, TypeOK, Buffer
<1>3. TypeOK' /\ FreeSlot'
  BY <1>1 DEF IInv, TypeOK, FreeSlot, swap, mem, rx_regs
<1>4. CutKnown' /\ ZeroedSoFar'
  BY <1>1, <1>2 DEF IInv, CutKnown, ZeroedSoFar, swap, Running, rx_regs
<1>5. CleanUnlessCut'
  BY <1>2 DEF CleanUnlessCut, swap, InReset
<1> QED BY <1>3, <1>4, <1>5 DEF IInv

(* From here on the reset knows whether it cuts a batch. *)
LEMMA StartStep == ASSUME IInv, start, UNCHANGED <<rx_regs, packets>> PROVE IInv'
<1>1. TypeOK' /\ FreeSlot'
  BY DEF IInv, TypeOK, FreeSlot, start, Running, mem, rx_regs
<1>2. CutKnown' /\ ZeroedSoFar'
  BY DEF IInv, TypeOK, CutKnown, ZeroedSoFar, start, Running, rx_regs
<1>3. CleanUnlessCut'
  BY DEF IInv, TypeOK, CleanUnlessCut, start, InReset, mem
<1> QED BY <1>1, <1>2, <1>3 DEF IInv

LEMMA FlushStep ==
  ASSUME IInv, flush \/ flush_load \/ flush_store, UNCHANGED <<rx_regs, packets>>
  PROVE  IInv'
<1>1. TypeOK' /\ FreeSlot'
  <2>1. CASE flush \/ flush_load
    BY <2>1 DEF IInv, TypeOK, FreeSlot, flush, flush_load, mem, rx_regs
  <2>2. CASE flush_store
    <3>1. 0 \in Slot /\ (st_j # last_slot => st_j + 1 \in Slot)
      BY NextFlushed DEF IInv, TypeOK
    <3> QED BY <2>2, <3>1 DEF IInv, TypeOK, FreeSlot, flush_store, rx_regs
  <2> QED BY <2>1, <2>2
<1>2. CutKnown' /\ ZeroedSoFar'
  BY DEF IInv, CutKnown, ZeroedSoFar, flush, flush_load, flush_store, Running, rx_regs
<1>3. CleanUnlessCut'
  BY DEF IInv, TypeOK, CleanUnlessCut, flush, flush_load, flush_store, InReset, mem
<1> QED BY <1>1, <1>2, <1>3 DEF IInv

LEMMA ZeroTableStep ==
  ASSUME IInv, zero_table, UNCHANGED <<rx_regs, packets>> PROVE IInv'
<1>1. TypeOK' /\ FreeSlot'
  BY DEF IInv, TypeOK, FreeSlot, zero_table, rx_regs
<1>2. CutKnown'
  BY DEF IInv, CutKnown, zero_table, Running, rx_regs
<1>3. ZeroedSoFar'
  <2>1. <<"curpos", 0>> \in words
    BY DEF words
  <2>2. \A j \in Slot : <<"key", j>> \in words /\ <<"value", j>> \in words
    BY DEF words, words_of_pairs
  <2> QED BY <2>1, <2>2 DEF IInv, TypeOK, ZeroedSoFar, zero_table
<1>4. CleanUnlessCut'
  BY DEF IInv, TypeOK, CleanUnlessCut, zero_table, InReset
<1> QED BY <1>1, <1>2, <1>3, <1>4 DEF IInv

LEMMA ZeroWordStep ==
  ASSUME IInv, NEW w \in Word, zero_word(w), UNCHANGED <<rx_regs, packets>>
  PROVE  IInv'
<1>0. w[2] \in Slot /\ 0 \in Key /\ 0 \in 0 .. SLOTS /\ 0 < SLOTS
  BY DoubleBufferAssumption DEF Word, Key
<1>1. TypeOK' /\ FreeSlot'
  BY <1>0 DEF IInv, TypeOK, FreeSlot, zero_word, rx_regs
<1>2. CutKnown'
  BY DEF IInv, CutKnown, zero_word, Running, rx_regs
<1>3. ZeroedSoFar'
  <2>1. SUFFICES ASSUME st_pc = "zero_simd", ~cuts PROVE ZeroedSoFar'
    BY DEF ZeroedSoFar, zero_word
  <2>2. \A j \in Slot : <<"key", j>> \notin st_words' => key'[st_b][j] = 0
    BY <1>0, <2>1 DEF IInv, TypeOK, ZeroedSoFar, zero_word
  <2>3. \A j \in Slot : <<"value", j>> \notin st_words' => value'[st_b][j] = 0
    BY <1>0, <2>1 DEF IInv, TypeOK, ZeroedSoFar, zero_word
  <2>4. <<"curpos", 0>> \notin st_words' => curpos'[st_b] = 0
    BY <1>0, <2>1 DEF IInv, TypeOK, ZeroedSoFar, zero_word
  <2> QED BY <2>1, <2>2, <2>3, <2>4 DEF IInv, ZeroedSoFar, zero_word
<1>4. CleanUnlessCut'
  BY DEF IInv, TypeOK, CleanUnlessCut, zero_word, InReset
<1> QED BY <1>1, <1>2, <1>3, <1>4 DEF IInv

(* The reset ends: the memset has passed every word. *)
LEMMA ZeroCurkickStep ==
  ASSUME IInv, zero_curkick, UNCHANGED <<rx_regs, packets>> PROVE IInv'
<1>0. 0 \in Slot
  BY DoubleBufferAssumption DEF Slot
<1>1. TypeOK' /\ FreeSlot'
  BY <1>0 DEF IInv, TypeOK, FreeSlot, zero_curkick, rx_regs
<1>2. CutKnown' /\ ZeroedSoFar'
  BY DEF IInv, TypeOK, CutKnown, ZeroedSoFar, zero_curkick, Running, rx_regs
<1>3. CleanUnlessCut'
  <2>1. SUFFICES ASSUME NEW b \in Buffer, b # active, ~cut'[b]
                 PROVE  /\ key[b] = [j \in Slot |-> 0] /\ value[b] = [j \in Slot |-> 0]
                        /\ curpos[b] = 0 /\ curkick'[b] = 0
                        /\ table[b] = [k \in Key |-> 0]
    BY DEF CleanUnlessCut, zero_curkick
  <2>2. CASE b = st_b
    <3>1. st_pc = "zero_simd" /\ ~cuts /\ st_words = {}
      BY <2>1, <2>2 DEF IInv, TypeOK, zero_curkick
    <3>2. /\ table[b] = [k \in Key |-> 0] /\ curpos[b] = 0
          /\ \A j \in Slot : key[b][j] = 0 /\ value[b][j] = 0
      BY <2>2, <3>1 DEF IInv, ZeroedSoFar
    <3>3. key[b] = [j \in Slot |-> 0] /\ value[b] = [j \in Slot |-> 0]
      BY <3>2 DEF IInv, TypeOK
    <3>4. curkick'[b] = 0
      BY <2>2 DEF IInv, TypeOK, zero_curkick
    <3> QED BY <3>2, <3>3, <3>4
  <2>3. CASE b # st_b
    BY <2>1, <2>3 DEF IInv, TypeOK, CleanUnlessCut, zero_curkick, InReset
  <2> QED BY <2>2, <2>3
<1> QED BY <1>1, <1>2, <1>3 DEF IInv
-----------------------------------------------------------------------------
(* IInv is inductive, whatever the interleaving of the two cores. *)
THEOREM BufferInvariant == Spec => []IInv
<1>1. Init => IInv
  BY InitIInv
<1>2. IInv /\ [Next]_vars => IInv'
  <2>1. SUFFICES ASSUME IInv, [Next]_vars PROVE IInv'
    OBVIOUS
  <2>2. CASE rx_core
    BY <2>1, <2>2, RxStep
  <2>3. CASE stats_core
    BY <2>1, <2>3, SwapStep, StartStep, FlushStep, ZeroTableStep, ZeroWordStep,
       ZeroCurkickStep DEF stats_core
  <2>4. CASE UNCHANGED vars
    BY <2>1, <2>4
    DEF vars, mem, rx_regs, st_regs, IInv, TypeOK, FreeSlot, CutKnown, ZeroedSoFar,
        CleanUnlessCut, Running, InReset
  <2> QED BY <2>1, <2>2, <2>3, <2>4 DEF Next
<1> QED BY <1>1, <1>2, PTL DEF Spec

(* The positions of a bucket stay in range even when a memset runs between *)
(* the load of curpos and its increment in cmsketchsimd_inc.               *)
THEOREM PositionsInRange == Spec => []IndicesInRange
<1>1. IInv => IndicesInRange
  BY DEF IInv, TypeOK, IndicesInRange
<1> QED BY <1>1, BufferInvariant, PTL

(* The buffer that simdbatch_cmsketchsimd_reset leaves behind is zero      *)
(* until it becomes active again, when the reset cut no batch in it.       *)
THEOREM CleanWhenUncut == Spec => []CleanUnlessCut
<1>1. IInv => CleanUnlessCut
  BY DEF IInv
<1> QED BY <1>1, BufferInvariant, PTL
=============================================================================

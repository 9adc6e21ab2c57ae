---------------------------- MODULE TwoLevelSimd ----------------------------
(***************************************************************************)
(* SimdBatch::TwoLevelSimd (twolevelsimd.c): a superspreader sketch behind *)
(* a front end of its own (SimdSD).  A slot caches a source-destination    *)
(* pair; what the search compares is fp, the exclusive or of the two, so a *)
(* match may be another pair, which is then evicted.  The reset zeroes     *)
(* SIMD_SIZE words of a simd part that has SIMDSD_SIZE: the pairs lie in   *)
(* the middle of it, curpos and the clocks at its end.                     *)
(*                                                                         *)
(* seen, plain and foreign are history variables: the pairs of this epoch, *)
(* the table that twolevel.c would have, and the insertions, by bucket, of *)
(* pairs that this epoch has not seen.                                     *)
(***************************************************************************)
EXTENDS Integers

CONSTANTS
  Pair,             \* source-destination pairs <<src, dst>> of the traffic
  SIMD_ROW_NUM, SLOTS,
  MaxPackets,       \* bound: packets of an epoch
  MaxResets,        \* bound: resets
  Xor32(_, _),      \* the exclusive or of two words
  RevHash(_, _),    \* cell of a source in the four reversible rows
  CMHash(_, _),     \* cell of a source in the four count-min rows
  Bit(_)            \* bit of a destination in a cell

Row  == 0 .. SIMD_ROW_NUM - 1
Slot == 0 .. SLOTS - 1
KEY_SIZE == SIMD_ROW_NUM * SLOTS
NoPair == <<0, 0>>

VARIABLES
  grr,                      \* GRR_ALL was defined, not LRU_ALL
  key, value, sdpair,       \* [Row -> [Slot -> ...]]
  curpos, curkick, myclock, time_now,
  table,                    \* bits set in the cells: <<row, cell, bit>>
  stats_search, resets,
  seen, plain, foreign

simd_part == <<key, value, sdpair, curpos, curkick, myclock, time_now>>
vars == <<grr, simd_part, table, stats_search, resets, seen, plain, foreign>>

All(x) == [i \in Row |-> [j \in Slot |-> x]]

(* rte_zmalloc_socket zeroes the whole simd part. *)
Init ==
  /\ grr \in BOOLEAN
  /\ key = All(0) /\ value = All(0) /\ sdpair = All(NoPair) /\ myclock = All(0)
  /\ curpos = [i \in Row |-> 0] /\ curkick = 0 /\ time_now = 0
  /\ table = {} /\ stats_search = 0 /\ resets = 0
  /\ seen = {} /\ plain = {} /\ foreign = [i \in Row |-> 0]
-----------------------------------------------------------------------------
(* twolevel_inc: the bit of the destination in one cell of every row.  The *)
(* fourth count-min row uses the cell of the third (h3).                   *)
twolevel_inc(t, p) ==
  t \cup {<<r, RevHash(p[1], r), Bit(p[2])>> : r \in 1 .. 4}
    \cup {<<4 + r, CMHash(p[1], IF r = 4 THEN 3 ELSE r), Bit(p[2])>> : r \in 1 .. 4}

twolevelsimd_inc_tl_h4(t, p) ==
  t \cup {<<r, RevHash(p[1], r), Bit(p[2])>> : r \in 1 .. 4}
    \cup {<<4 + r, CMHash(p[1], r), Bit(p[2])>> : r \in 1 .. 4}
(* twolevelsimd_inc_tl does the same for a pair that leaves the cache. *)
twolevelsimd_inc_tl(t, p) ==
  t \cup {<<r, RevHash(p[1], r), Bit(p[2])>> : r \in 1 .. 4}
    \cup {<<4 + r, CMHash(p[1], IF r = 4 THEN 3 ELSE r), Bit(p[2])>> : r \in 1 .. 4}

fp(p) == Xor32(p[1], p[2])
bucket_id(p) == fp(p) % SIMD_ROW_NUM

matched(p) == {j \in Slot : key[bucket_id(p)][j] = fp(p)}
matched_index(p) == CHOOSE j \in matched(p) : \A k \in matched(p) : j <= k

time_next == IF grr THEN time_now ELSE time_now + 1
Stamp(i, j) ==
  myclock' = IF grr THEN myclock ELSE [myclock EXCEPT ![i][j] = time_next]

(* The first slot with the smallest clock; the clocks of this model stay   *)
(* below 1 << 30.                                                          *)
kick_index(i) ==
  IF grr THEN curkick
  ELSE CHOOSE j \in Slot : \A k \in Slot :
         myclock[i][j] < myclock[i][k] \/ (myclock[i][j] = myclock[i][k] /\ j <= k)

(* What twolevelsimd_inc does first. *)
Count(p) ==
  /\ stats_search < MaxPackets
  /\ stats_search' = stats_search + 1
  /\ time_now' = time_next
  /\ seen' = seen \cup {p}
  /\ plain' = twolevel_inc(plain, p)
  /\ UNCHANGED <<grr, resets>>

(* The pair of a slot is sent to the sketch. *)
Evict(i, j) ==
  /\ table' = twolevelsimd_inc_tl(table, sdpair[i][j])
  /\ foreign' = IF sdpair[i][j] \in seen THEN foreign ELSE [foreign EXCEPT ![i] = @ + 1]

Store_key_only(i, j, p) ==
  /\ key' = [key EXCEPT ![i][j] = fp(p)]
  /\ value' = [value EXCEPT ![i][j] = 1]
  /\ UNCHANGED sdpair
(* A slot is given to pair p. *)
Store(i, j, p) ==
  /\ key' = [key EXCEPT ![i][j] = fp(p)]
  /\ value' = [value EXCEPT ![i][j] = 1]
  /\ sdpair' = [sdpair EXCEPT ![i][j] = p]

(* fp matches and the pair is the same one. *)
Hit(p) ==
  LET i == bucket_id(p)
      j == matched_index(p)
  IN /\ Count(p)
     /\ matched(p) # {} /\ sdpair[i][j] = p
     /\ value' = [value EXCEPT ![i][j] = @ + 1]
     /\ Stamp(i, j)
     /\ UNCHANGED <<key, sdpair, curpos, curkick, table, foreign>>

same_key_dropped(i, j) == UNCHANGED <<table, foreign>>
same_key_evicted(i, j) == Evict(i, j)

(* fp matches and the pair is another one: it is evicted. *)
Collide(p) ==
  LET i == bucket_id(p)
      j == matched_index(p)
  IN /\ Count(p)
     /\ matched(p) # {} /\ sdpair[i][j] # p
     /\ same_key_evicted(i, j)
     /\ Store(i, j, p)
     /\ Stamp(i, j)
     /\ UNCHANGED <<curpos, curkick>>

(* A new fp and a free slot. *)
Fill(p) ==
  LET i == bucket_id(p)
  IN /\ Count(p)
     /\ matched(p) = {} /\ curpos[i] # SLOTS
     /\ Store(i, curpos[i], p)
     /\ Stamp(i, curpos[i])
     /\ curpos' = [curpos EXCEPT ![i] = @ + 1]
     /\ UNCHANGED <<curkick, table, foreign>>

(* A new fp and a full bucket. *)
Kick(p) ==
  LET i == bucket_id(p)
      j == kick_index(i)
  IN /\ Count(p)
     /\ matched(p) = {} /\ curpos[i] = SLOTS
     /\ Evict(i, j)
     /\ Store(i, j, p)
     /\ Stamp(i, j)
     /\ curkick' = IF grr THEN (curkick + 1) % SLOTS ELSE curkick
     /\ UNCHANGED curpos

twolevelsimd_inc(p) == Hit(p) \/ Collide(p) \/ Fill(p) \/ Kick(p)
-----------------------------------------------------------------------------
(* The memset of the reset, in words from the start of the simd part: key, *)
(* value, the two words of each pair, then (LRU_ALL) the clocks and curpos.*)
SIMD_SIZE == (IF grr THEN 2 ELSE 3) * KEY_SIZE + SIMD_ROW_NUM

(* Word w after the memset. *)
memset_0(w, x) == IF w < SIMD_SIZE THEN 0 ELSE x

n(i, j) == i * SLOTS + j
CURPOS == (IF grr THEN 4 ELSE 5) * KEY_SIZE

(* The flush sends words of the key array, but the sketch is zeroed right  *)
(* after it and nothing reads it in between: it leaves no trace.           *)
twolevelsimd_reset ==
  /\ resets < MaxResets
  /\ resets' = resets + 1
  /\ stats_search' = 0
  /\ table' = {}
  /\ key' = [i \in Row |-> [j \in Slot |-> memset_0(n(i, j), key[i][j])]]
  /\ value' = [i \in Row |-> [j \in Slot |-> memset_0(KEY_SIZE + n(i, j), value[i][j])]]
  /\ sdpair' = [i \in Row |-> [j \in Slot |->
                 <<memset_0(2 * KEY_SIZE + 2 * n(i, j), sdpair[i][j][1]),
                   memset_0(2 * KEY_SIZE + 2 * n(i, j) + 1, sdpair[i][j][2])>>]]
  /\ myclock' = [i \in Row |-> [j \in Slot |-> memset_0(4 * KEY_SIZE + n(i, j), myclock[i][j])]]
  /\ curpos' = [i \in Row |-> memset_0(CURPOS + i, curpos[i])]
  /\ curkick' = IF grr THEN 0 ELSE curkick
  /\ time_now' = IF grr THEN time_now ELSE 0
  /\ seen' = {} /\ plain' = {} /\ foreign' = [i \in Row |-> 0]
  /\ UNCHANGED grr

Next == twolevelsimd_reset \/ \E p \in Pair : twolevelsimd_inc(p)

Spec == Init /\ [][Next]_vars
-----------------------------------------------------------------------------
Held == {<<i, j>> \in Row \X Slot : key[i][j] # 0}

(* A pair of this epoch is found again, in a slot or in the sketch, for as *)
(* long as the epoch lasts, however dirty the reset left the cache.  Pairs *)
(* of equal addresses have the fp of an empty slot and are not counted on. *)
PairsKept ==
  \A p \in seen : fp(p) # 0 =>
    \/ \E ij \in Held : sdpair[ij[1]][ij[2]] = p /\ key[ij[1]][ij[2]] = fp(p)
    \/ twolevel_inc(table, p) = table

(* What a reset left in a slot reaches the next sketch at most once: the   *)
(* eviction that sends it overwrites it.                                   *)
ForeignOnce == \A i \in Row : foreign[i] <= SLOTS

(* Until the first reset the sketch holds nothing that twolevel.c would    *)
(* not hold, as long as no pair of equal addresses has been seen.          *)
FirstEpochExact ==
  resets = 0 /\ (\A p \in seen : fp(p) # 0) =>
    table \subseteq plain

(* "init the simd part" (twolevelsimd_reset): an epoch starts from the     *)
(* created simd part, and its sketch holds no pair of an earlier one.      *)
NoForeignPair == (\A p \in seen : fp(p) # 0) => table \subseteq plain
=============================================================================

------------------------------ MODULE SimdMatch ------------------------------
(***************************************************************************)
(* The SSE search of a bucket that every *simd.c front end performs: four  *)
(* compares of four 32-bit keys, two saturating packs to 16 bits and a     *)
(* third one that packs the 16-bit results as if they were 32-bit lanes    *)
(* (_mm_packs_epi32 again, not _mm_packs_epi16), then the sign bit of each *)
(* byte.  flowradarnosimd.c searches the same bucket with a loop.          *)
(*                                                                         *)
(* A 128-bit register is a function from its lanes to signed integers.     *)
(***************************************************************************)
EXTENDS Integers

CONSTANTS
  KeyValue,   \* keys that occur in the bucket
  flowid      \* the flow that is searched

VARIABLE p_key_bucket   \* the 16 keys of the bucket

Lane == 0 .. 15

Sat16(x) == IF x > 32767 THEN 32767 ELSE IF x < -32768 THEN -32768 ELSE x
Wrap16(x) == LET u == x % 65536 IN IF u >= 32768 THEN u - 65536 ELSE u

(* keys_p[n] compared with flowid: all ones (-1) where equal. *)
mm_cmpeq_epi32(n) ==
  [k \in 0 .. 3 |-> IF p_key_bucket[4 * n + k] = flowid THEN -1 ELSE 0]

(* Two registers of 32-bit lanes packed into one of 16-bit lanes, with     *)
(* signed saturation.                                                      *)
mm_pack_truncating(a, b) ==
  [k \in 0 .. 7 |-> IF k < 4 THEN Wrap16(a[k]) ELSE Wrap16(b[k - 4])]
mm_packs_epi32(a, b) ==
  [k \in 0 .. 7 |-> IF k < 4 THEN Sat16(a[k]) ELSE Sat16(b[k - 4])]

(* The register of 16-bit lanes read as 32-bit lanes (little endian). *)
as_epi32(a) == [k \in 0 .. 3 |-> a[2 * k + 1] * 65536 + (a[2 * k] % 65536)]

(* The bits of the mask: byte p is the low or the high half of lane p / 2. *)
mm_movemask_epi8(a) ==
  {p \in Lane : IF p % 2 = 0 THEN (a[p \div 2] % 256) >= 128 ELSE a[p \div 2] < 0}

mask ==
  LET ab == mm_packs_epi32(mm_cmpeq_epi32(0), mm_cmpeq_epi32(1))
      cd == mm_packs_epi32(mm_cmpeq_epi32(2), mm_cmpeq_epi32(3))
  IN mm_movemask_epi8(mm_packs_epi32(as_epi32(ab), as_epi32(cd)))

(* _tzcnt_u32: the lowest bit of the mask, 32 for an empty mask. *)
tzcnt_u32(m) == IF m = {} THEN 32 ELSE CHOOSE p \in m : \A q \in m : p <= q

(* The scalar loop of flowradarnosimd.c: stops at the first equal key. *)
scalar_search ==
  LET from[i \in 0 .. 16] ==
        IF i = 16 THEN {} ELSE IF p_key_bucket[i] = flowid THEN {i} ELSE from[i + 1]
  IN from[0]

Init == p_key_bucket = [i \in Lane |-> 0]

(* Any key may be stored in any slot of the bucket. *)
Store(i, k) == p_key_bucket' = [p_key_bucket EXCEPT ![i] = k]

Next == \E i \in Lane, k \in KeyValue : Store(i, k)

Spec == Init /\ [][Next]_p_key_bucket

TypeOK == p_key_bucket \in [Lane -> KeyValue \cup {0}]

(* Bit p of the mask says whether key p equals the flow id, for every      *)
(* bucket content, in spite of the lane width of the third pack.           *)
MaskIsMatch == mask = {p \in Lane : p_key_bucket[p] = flowid}

(* The SIMD search and the scalar search choose the same slot, or both     *)
(* choose none.                                                            *)
SearchesAgree == tzcnt_u32(mask) = tzcnt_u32(scalar_search)
=============================================================================

--------------------------- MODULE SimdMatchProofs ---------------------------
(* Proof that the SSE search computes the set of matching slots for every  *)
(* content of the bucket and every flow id.                                *)
EXTENDS SimdMatch, TLAPS

Equal(j) == IF p_key_bucket[j] = flowid THEN -1 ELSE 0

(* Two neighbouring 16-bit results, packed once more as one 32-bit lane,   *)
(* still show in the sign bits of the two bytes of the packed lane.        *)
LEMMA PackedPair ==
  \A lo \in Int, hi \in Int :
    (lo = 0 \/ lo + 1 = 0) /\ (hi = 0 \/ hi + 1 = 0)
    => /\ (Sat16(hi * 65536 + (lo % 65536)) % 256 >= 128) <=> lo # 0
       /\ (Sat16(hi * 65536 + (lo % 65536)) < 0) <=> hi # 0
<1> SUFFICES ASSUME NEW lo \in Int, NEW hi \in Int,
                    lo = 0 \/ lo + 1 = 0, hi = 0 \/ hi + 1 = 0
             PROVE  /\ (Sat16(hi * 65536 + (lo % 65536)) % 256 >= 128) <=> lo # 0
                    /\ (Sat16(hi * 65536 + (lo % 65536)) < 0) <=> hi # 0
  OBVIOUS
<1>0. \A a \in Int : a + 1 = 0 => a % 65536 = 65535 /\ a % 256 = 255
  OBVIOUS
<1>1. CASE lo + 1 = 0 /\ hi + 1 = 0
  <2>1. hi * 65536 + (lo % 65536) = lo
    BY <1>0, <1>1
  <2>2. Sat16(hi * 65536 + (lo % 65536)) = lo
    BY <1>1, <2>1 DEF Sat16
  <2>3. lo % 256 = 255
    BY <1>0, <1>1
  <2> QED BY <1>1, <2>2, <2>3
<1>2. CASE lo + 1 = 0 /\ hi = 0
  <2>1. hi * 65536 + (lo % 65536) = 65535
    BY <1>0, <1>2
  <2>2. Sat16(hi * 65536 + (lo % 65536)) = 32767
    BY <2>1 DEF Sat16
  <2> QED BY <1>2, <2>2
<1>3. CASE lo = 0 /\ hi + 1 = 0
  BY <1>3 DEF Sat16
<1>4. CASE lo = 0 /\ hi = 0
  BY <1>4 DEF Sat16
<1> QED BY <1>1, <1>2, <1>3, <1>4

(* The first level of packs keeps the sixteen compare results in order. *)
LEMMA FirstPacks ==
  ASSUME NEW k \in 0 .. 7
  PROVE  /\ mm_packs_epi32(mm_cmpeq_epi32(0), mm_cmpeq_epi32(1))[k] = Equal(k)
         /\ mm_packs_epi32(mm_cmpeq_epi32(2), mm_cmpeq_epi32(3))[k] = Equal(8 + k)
<1>1. CASE k < 4
  BY <1>1 DEF mm_packs_epi32, mm_cmpeq_epi32, Equal, Sat16
<1>2. CASE k >= 4
  <2>1. k - 4 \in 0 .. 3 /\ 4 * 1 + (k - 4) = k /\ 4 * 3 + (k - 4) = 8 + k
    BY <1>2
  <2> QED BY <1>2, <2>1 DEF mm_packs_epi32, mm_cmpeq_epi32, Equal, Sat16
<1> QED BY <1>1, <1>2

(* Lane n of the last pack is the packed pair of compares 2n and 2n + 1. *)
LEMMA LastPack ==
  ASSUME NEW n \in 0 .. 7
  PROVE  mm_packs_epi32(
           as_epi32(mm_packs_epi32(mm_cmpeq_epi32(0), mm_cmpeq_epi32(1))),
           as_epi32(mm_packs_epi32(mm_cmpeq_epi32(2), mm_cmpeq_epi32(3))))[n]
         = Sat16(Equal(2 * n + 1) * 65536 + (Equal(2 * n) % 65536))
<1> DEFINE ab == mm_packs_epi32(mm_cmpeq_epi32(0), mm_cmpeq_epi32(1))
           cd == mm_packs_epi32(mm_cmpeq_epi32(2), mm_cmpeq_epi32(3))
<1>1. \A k \in 0 .. 7 : ab[k] = Equal(k) /\ cd[k] = Equal(8 + k)
  BY FirstPacks
<1> HIDE DEF ab, cd
<1>2. CASE n < 4
  <2>1. n \in 0 .. 3 /\ 2 * n \in 0 .. 7 /\ 2 * n + 1 \in 0 .. 7
    BY <1>2
  <2>2. as_epi32(ab)[n] = Equal(2 * n + 1) * 65536 + (Equal(2 * n) % 65536)
    BY <1>1, <2>1 DEF as_epi32
  <2> QED BY <1>2, <2>2 DEF mm_packs_epi32, ab, cd
<1>3. CASE n >= 4
  <2>1. /\ n - 4 \in 0 .. 3 /\ 2 * (n - 4) \in 0 .. 7 /\ 2 * (n - 4) + 1 \in 0 .. 7
        /\ 8 + 2 * (n - 4) = 2 * n /\ 8 + (2 * (n - 4) + 1) = 2 * n + 1
    BY <1>3
  <2>2. as_epi32(cd)[n - 4] = Equal(2 * n + 1) * 65536 + (Equal(2 * n) % 65536)
    BY <1>1, <2>1 DEF as_epi32
  <2> QED BY <1>3, <2>2 DEF mm_packs_epi32, ab, cd
<1> QED BY <1>2, <1>3

(* The mask of the SSE search has bit p exactly when key p is the flow id: *)
(* no slot is missed and none is reported by mistake.                      *)
THEOREM SearchIsExact == MaskIsMatch
<1> DEFINE last == mm_packs_epi32(
             as_epi32(mm_packs_epi32(mm_cmpeq_epi32(0), mm_cmpeq_epi32(1))),
             as_epi32(mm_packs_epi32(mm_cmpeq_epi32(2), mm_cmpeq_epi32(3))))
<1>1. mask = mm_movemask_epi8(last)
  BY DEF mask
<1>2. \A n \in 0 .. 7 :
        last[n] = Sat16(Equal(2 * n + 1) * 65536 + (Equal(2 * n) % 65536))
  BY LastPack
<1> HIDE DEF last
<1>3. \A j : /\ Equal(j) \in Int /\ (Equal(j) = 0 \/ Equal(j) + 1 = 0)
              /\ (Equal(j) # 0 <=> p_key_bucket[j] = flowid)
  BY DEF Equal
<1>4. ASSUME NEW p \in Lane
      PROVE  p \in mm_movemask_epi8(last) <=> p_key_bucket[p] = flowid
  <2>1. PICK n \in 0 .. 7 : p = 2 * n \/ p = 2 * n + 1
    BY DEF Lane
  <2>2. /\ (last[n] % 256 >= 128) <=> p_key_bucket[2 * n] = flowid
        /\ (last[n] < 0) <=> p_key_bucket[2 * n + 1] = flowid
    <3>1. PICK lo \in Int : lo = Equal(2 * n)
      BY <1>3
    <3>2. PICK hi \in Int : hi = Equal(2 * n + 1)
      BY <1>3
    <3>3. /\ lo = 0 \/ lo + 1 = 0
          /\ hi = 0 \/ hi + 1 = 0
      BY <1>3, <3>1, <3>2
    <3>4. /\ (Sat16(hi * 65536 + (lo % 65536)) % 256 >= 128) <=> lo # 0
          /\ (Sat16(hi * 65536 + (lo % 65536)) < 0) <=> hi # 0
      BY <3>3, PackedPair
    <3>5. last[n] = Sat16(hi * 65536 + (lo % 65536))
      BY <1>2, <3>1, <3>2
    <3>6. /\ lo # 0 <=> p_key_bucket[2 * n] = flowid
          /\ hi # 0 <=> p_key_bucket[2 * n + 1] = flowid
      BY <1>3, <3>1, <3>2
    <3> QED BY <3>4, <3>5, <3>6
  <2>3. CASE p = 2 * n
    <3>1. p % 2 = 0 /\ p \div 2 = n
      BY <2>3
    <3> QED BY <2>2, <2>3, <3>1 DEF mm_movemask_epi8
  <2>4. CASE p = 2 * n + 1
    <3>1. p % 2 # 0 /\ p \div 2 = n
      BY <2>4
    <3> QED BY <2>2, <2>4, <3>1 DEF mm_movemask_epi8
  <2> QED BY <2>1, <2>3, <2>4
<1>5. mm_movemask_epi8(last) \subseteq Lane
  BY DEF mm_movemask_epi8
<1> QED BY <1>1, <1>4, <1>5 DEF MaskIsMatch
=============================================================================

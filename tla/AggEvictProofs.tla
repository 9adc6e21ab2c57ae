--------------------------- MODULE AggEvictProofs ---------------------------
(***************************************************************************)
(* Proofs about the Agg-Evict front end, for every number of buckets and   *)
(* slots, every set of flows, both replacement policies and every sketch.  *)
(***************************************************************************)
EXTENDS AggEvict, WellFoundedInduction, TLAPS

(* A non-empty set of naturals has a least element: _tzcnt_u32 of a        *)
(* non-zero mask and the min_time search both rely on it.                  *)
LEMMA LeastElement ==
  ASSUME NEW S, S \subseteq Nat, S # {}
  PROVE  \E m \in S : \A n \in S : m <= n
<1>1. IsWellFoundedOn(OpToRel(<, Nat), Nat)
  BY NatLessThanWellFounded
<1>2. PICK m \in S : \A n \in S : ~ (<<n, m>> \in OpToRel(<, Nat))
  BY <1>1, WFMin
<1>3. \A n \in S : ~ (n < m)
  BY <1>2 DEF OpToRel
<1>4. \A n \in S : m <= n
  BY <1>3
<1> QED BY <1>4

(* The slot that a packet of f matches is one of the matching slots, and   *)
(* the lowest one.                                                         *)
LEMMA MatchedIndex ==
  ASSUME NEW f, matched(f) # {}
  PROVE  /\ matched_index(f) \in matched(f)
         /\ \A k \in matched(f) : matched_index(f) <= k
<1>1. matched(f) \subseteq Nat
  BY FrontEndAssumption DEF matched, Slot
<1>2. \E j \in matched(f) : \A k \in matched(f) : j <= k
  BY <1>1, LeastElement
<1> QED BY <1>2 DEF matched_index

(* A bucket number is in range. *)
LEMMA BucketInRange ==
  ASSUME NEW f \in Nat
  PROVE  bucket_id(f) \in Row
<1>1. SIMD_ROW_NUM \in Nat /\ SIMD_ROW_NUM > 0
  BY FrontEndAssumption
<1> QED BY <1>1 DEF bucket_id, Row

(* The victim of an eviction is a slot of the bucket. *)
LEMMA KickIndexInRange ==
  ASSUME TypeOK, NEW i \in Row
  PROVE  kick_index(i) \in Slot
<1>1. CASE GRR_ALL
  BY <1>1 DEF kick_index, TypeOK
<1>2. CASE ~GRR_ALL /\ young(i) = {}
  BY <1>2, FrontEndAssumption DEF kick_index, Slot
<1>3. CASE ~GRR_ALL /\ young(i) # {}
  <2> DEFINE clocks == {myclock[i][j] : j \in young(i)}
  <2>1. clocks \subseteq Nat /\ clocks # {} /\ young(i) \subseteq Slot
    <3>1. young(i) \subseteq Slot
      BY DEF young
    <3>2. \A j \in Slot : myclock[i][j] \in 0 .. TIME_MOD - 1
      BY DEF TypeOK
    <3>3. \A j \in young(i) : myclock[i][j] \in Nat
      BY <3>1, <3>2, FrontEndAssumption
    <3> QED BY <1>3, <3>1, <3>3
  <2>2. PICK c \in clocks : \A d \in clocks : c <= d
    BY <2>1, LeastElement
  <2> DEFINE oldest == {j \in young(i) : myclock[i][j] = c}
  <2>3. oldest \subseteq Nat /\ oldest # {}
    BY <2>1, <2>2, FrontEndAssumption DEF Slot
  <2>4. PICK j \in oldest : \A k \in oldest : j <= k
    BY <2>3, LeastElement
  <2>5. \A k \in young(i) : myclock[i][j] < myclock[i][k]
                            \/ (myclock[i][j] = myclock[i][k] /\ j <= k)
    <3> SUFFICES ASSUME NEW k \in young(i)
                 PROVE  myclock[i][j] < myclock[i][k]
                        \/ (myclock[i][j] = myclock[i][k] /\ j <= k)
      OBVIOUS
    <3>1. myclock[i][j] = c /\ c <= myclock[i][k] /\ c \in Nat /\ myclock[i][k] \in Nat
      BY <2>1, <2>2, <2>4
    <3>2. CASE myclock[i][k] = c
      BY <2>4, <3>1, <3>2
    <3>3. CASE myclock[i][k] # c
      BY <3>1, <3>3
    <3> QED BY <3>2, <3>3
  <2>6. kick_index(i) \in young(i)
    BY <1>3, <2>4, <2>5 DEF kick_index
  <2> QED BY <2>1, <2>6
<1> QED BY <1>1, <1>2, <1>3

-----------------------------------------------------------------------------
(* The inductive invariant holds initially: zeroed memory. *)
THEOREM InitIInv == Init => IInv
<1> SUFFICES ASSUME Init PROVE IInv
  OBVIOUS
<1> USE FrontEndAssumption DEF Init, ZeroPairs, ZeroKeys
<1>1. TypeOK
  BY DEF TypeOK, Row, Slot, Key
<1>2. NoDuplicateFlow
  BY DEF NoDuplicateFlow
<1>3. Conservation
  BY DEF Conservation, Key
<1>4. FilledSlots
  BY DEF FilledSlots, Row, Slot
<1>5. ZeroSlots
  BY DEF ZeroSlots, Row, Slot
<1>6. ZeroFlowNeverGains
  BY DEF ZeroFlowNeverGains, Key
<1> QED BY <1>1, <1>2, <1>3, <1>4, <1>5, <1>6 DEF IInv

-----------------------------------------------------------------------------
(* Aggregating a packet in its slot keeps the invariant. *)
LEMMA HitStep ==
  ASSUME IInv, NEW f \in Flow, Hit(f)
  PROVE  IInv'
<1> DEFINE i == bucket_id(f)
           j == matched_index(f)
<1>1. f \in Nat /\ i \in Row /\ f \in Key /\ 0 \in Key
  BY FrontEndAssumption, BucketInRange DEF Key
<1>2. j \in Slot /\ key[i][j] = f /\ \A k \in Slot : key[i][k] = f => j <= k
  BY MatchedIndex DEF Hit, matched
<1>3. /\ TypeOK /\ NoDuplicateFlow /\ Conservation
      /\ FilledSlots /\ ZeroSlots /\ ZeroFlowNeverGains
  BY DEF IInv
<1>4. /\ key' = key /\ curpos' = curpos /\ curkick' = curkick /\ sent' = sent
      /\ stats_search < MaxPackets /\ stats_search' = stats_search + 1
      /\ time_now' = time_next
      /\ seen' = [seen EXCEPT ![f] = seen[f] + 1]
      /\ value' = [value EXCEPT ![i][j] = value[i][j] + 1]
      /\ myclock' = IF GRR_ALL THEN myclock ELSE [myclock EXCEPT ![i][j] = time_next]
  BY DEF Hit, Count, Stamp
<1>5. /\ \A r \in Row, s \in Slot :
           value'[r][s] = IF r = i /\ s = j THEN value[r][s] + 1 ELSE value[r][s]
      /\ \A k \in Key : seen'[k] = IF k = f THEN seen[k] + 1 ELSE seen[k]
  BY <1>1, <1>2, <1>3, <1>4 DEF TypeOK
<1>6. TypeOK'
  <2>1. time_next \in 0 .. TIME_MOD - 1
    BY <1>3, FrontEndAssumption DEF TypeOK, time_next
  <2>2. stats_search' \in 0 .. MaxPackets
    BY <1>3, <1>4, FrontEndAssumption DEF TypeOK
  <2>3. value' \in [Row -> [Slot -> Nat]] /\ seen' \in [Key -> Nat]
    BY <1>1, <1>2, <1>3, <1>4 DEF TypeOK
  <2>4. myclock' \in [Row -> [Slot -> 0 .. TIME_MOD - 1]]
    BY <1>1, <1>2, <1>3, <1>4, <2>1 DEF TypeOK
  <2> QED BY <1>3, <1>4, <2>1, <2>2, <2>3, <2>4 DEF TypeOK
<1>7. NoDuplicateFlow'
  BY <1>3, <1>4 DEF NoDuplicateFlow, bucket_id
<1>8. Conservation'
  <2> SUFFICES ASSUME NEW g \in Flow \ {0}
               PROVE  /\ \A r \in Row, s \in Slot :
                           key[r][s] = g => sent[g] + value'[r][s] = seen'[g]
                      /\ (\A r \in Row, s \in Slot : key[r][s] # g) => sent[g] = seen'[g]
    BY <1>4 DEF Conservation
  <2>1. /\ \A r \in Row, s \in Slot : key[r][s] = g => sent[g] + value[r][s] = seen[g]
        /\ (\A r \in Row, s \in Slot : key[r][s] # g) => sent[g] = seen[g]
    BY <1>3 DEF Conservation
  <2>2. g \in Key /\ sent[g] \in Nat /\ seen[g] \in Nat
        /\ \A r \in Row, s \in Slot : value[r][s] \in Nat
    BY <1>3 DEF TypeOK, Key
  <2>3. CASE g = f
    <3>1. \A r \in Row, s \in Slot : key[r][s] = g => r = i /\ s = j
      BY <1>1, <1>2, <1>3, <2>3 DEF NoDuplicateFlow
    <3> QED BY <1>1, <1>2, <1>5, <2>1, <2>2, <2>3, <3>1
  <2>4. CASE g # f
    BY <1>2, <1>5, <2>1, <2>2, <2>4
  <2> QED BY <2>3, <2>4
<1>9. FilledSlots'
  <2>1. \A r \in Row, s \in Slot : value[r][s] \in Nat
    BY <1>3 DEF TypeOK
  <2> QED BY <1>3, <1>4, <1>5, <2>1 DEF FilledSlots
<1>10. ZeroSlots'
  <2>1. CASE f # 0
    BY <1>2, <1>3, <1>4, <1>5, <2>1 DEF ZeroSlots
  <2>2. CASE f = 0
    <3>1. i = 0
      BY <2>2, FrontEndAssumption DEF bucket_id
    <3>2. ~(j > curpos[0])
      <4>1. SUFFICES ASSUME j > curpos[0] PROVE FALSE
        OBVIOUS
      <4>2. curpos[0] \in Slot
        BY <1>1, <1>2, <1>3, <3>1, <4>1, FrontEndAssumption DEF TypeOK, Slot
      <4>3. key[0][curpos[0]] = 0
        BY <1>1, <1>3, <3>1, <4>2 DEF FilledSlots, Slot
      <4>4. j <= curpos[0]
        BY <1>2, <2>2, <3>1, <4>2, <4>3
      <4> QED BY <4>1, <4>2, <4>4, <1>2 DEF Slot
    <3> QED BY <1>2, <1>3, <1>4, <1>5, <3>1, <3>2 DEF ZeroSlots
  <2> QED BY <2>1, <2>2
<1>11. ZeroFlowNeverGains'
  <2>1. sent[0] \in Nat /\ seen[0] \in Nat /\ \A r \in Row, s \in Slot : value[r][s] \in Nat
    BY <1>1, <1>3 DEF TypeOK
  <2>2. CASE f = 0
    BY <1>1, <1>3, <1>4, <1>5, <2>1, <2>2 DEF ZeroFlowNeverGains
  <2>3. CASE f # 0
    BY <1>1, <1>2, <1>3, <1>4, <1>5, <2>1, <2>3 DEF ZeroFlowNeverGains
  <2> QED BY <2>2, <2>3
<1> QED BY <1>6, <1>7, <1>8, <1>9, <1>10, <1>11 DEF IInv

(* Taking a free slot for a new flow keeps the invariant. *)
LEMMA FillStep ==
  ASSUME IInv, NEW f \in Flow, Fill(f)
  PROVE  IInv'
<1> DEFINE i == bucket_id(f)
           j == curpos[i]
<1>1. f \in Nat /\ i \in Row /\ f \in Key /\ 0 \in Key
  BY FrontEndAssumption, BucketInRange DEF Key
<1>2. /\ TypeOK /\ NoDuplicateFlow /\ Conservation
      /\ FilledSlots /\ ZeroSlots /\ ZeroFlowNeverGains
  BY DEF IInv
<1>3. j \in Slot /\ key[i][j] = 0
  <2>1. j \in Slot
    BY <1>1, <1>2, FrontEndAssumption DEF Fill, TypeOK, Slot
  <2> QED BY <1>1, <1>2, <2>1 DEF FilledSlots, Slot
<1>4. \A k \in Slot : key[i][k] # f
  BY DEF Fill, matched
<1>5. f # 0
  BY <1>3, <1>4
<1>6. /\ curkick' = curkick /\ sent' = sent
      /\ stats_search < MaxPackets /\ stats_search' = stats_search + 1
      /\ time_now' = time_next
      /\ seen' = [seen EXCEPT ![f] = seen[f] + 1]
      /\ key' = [key EXCEPT ![i][j] = f]
      /\ value' = [value EXCEPT ![i][j] = 1]
      /\ curpos' = [curpos EXCEPT ![i] = curpos[i] + 1]
      /\ myclock' = IF GRR_ALL THEN myclock ELSE [myclock EXCEPT ![i][j] = time_next]
  BY DEF Fill, Count, Stamp, Start, Advance
<1>7. /\ \A r \in Row, s \in Slot :
           /\ value'[r][s] = IF r = i /\ s = j THEN 1 ELSE value[r][s]
           /\ key'[r][s] = IF r = i /\ s = j THEN f ELSE key[r][s]
      /\ \A r \in Row : curpos'[r] = IF r = i THEN curpos[r] + 1 ELSE curpos[r]
      /\ \A k \in Key : seen'[k] = IF k = f THEN seen[k] + 1 ELSE seen[k]
  BY <1>1, <1>2, <1>3, <1>6 DEF TypeOK
<1>8. \A r \in Row, s \in Slot : key[r][s] # f
  BY <1>2, <1>4, <1>5 DEF NoDuplicateFlow
<1>9. TypeOK'
  <2>1. time_next \in 0 .. TIME_MOD - 1
    BY <1>2, FrontEndAssumption DEF TypeOK, time_next
  <2>2. stats_search' \in 0 .. MaxPackets
    BY <1>2, <1>6, FrontEndAssumption DEF TypeOK
  <2>3. /\ key' \in [Row -> [Slot -> Key]]
        /\ value' \in [Row -> [Slot -> Nat]]
        /\ seen' \in [Key -> Nat]
    BY <1>1, <1>2, <1>3, <1>6 DEF TypeOK
  <2>4. myclock' \in [Row -> [Slot -> 0 .. TIME_MOD - 1]]
    BY <1>1, <1>2, <1>3, <1>6, <2>1 DEF TypeOK
  <2>5. curpos' \in [Row -> 0 .. SLOTS]
    <3>1. curpos[i] + 1 \in 0 .. SLOTS
      BY <1>3, FrontEndAssumption DEF Slot
    <3> QED BY <1>1, <1>2, <1>6, <3>1 DEF TypeOK
  <2> QED BY <1>2, <1>6, <2>1, <2>2, <2>3, <2>4, <2>5 DEF TypeOK
<1>10. NoDuplicateFlow'
  BY <1>1, <1>2, <1>3, <1>7, <1>8 DEF NoDuplicateFlow, bucket_id
<1>11. Conservation'
  <2> SUFFICES ASSUME NEW g \in Flow \ {0}
               PROVE  /\ \A r \in Row, s \in Slot :
                           key'[r][s] = g => sent[g] + value'[r][s] = seen'[g]
                      /\ (\A r \in Row, s \in Slot : key'[r][s] # g) => sent[g] = seen'[g]
    BY <1>6 DEF Conservation
  <2>1. /\ \A r \in Row, s \in Slot : key[r][s] = g => sent[g] + value[r][s] = seen[g]
        /\ (\A r \in Row, s \in Slot : key[r][s] # g) => sent[g] = seen[g]
    BY <1>2 DEF Conservation
  <2>2. g \in Key /\ sent[g] \in Nat /\ seen[g] \in Nat
        /\ \A r \in Row, s \in Slot : value[r][s] \in Nat
    BY <1>2 DEF TypeOK, Key
  <2>3. CASE g = f
    BY <1>1, <1>3, <1>7, <1>8, <2>1, <2>2, <2>3
  <2>4. CASE g # f
    <3>1. seen'[g] = seen[g]
      BY <1>7, <2>2, <2>4
    <3>2. \A r \in Row, s \in Slot : key'[r][s] = g <=> key[r][s] = g
      BY <1>3, <1>7, <2>4
    <3>3. \A r \in Row, s \in Slot : key[r][s] = g => value'[r][s] = value[r][s]
      BY <1>3, <1>7
    <3> QED BY <2>1, <3>1, <3>2, <3>3
  <2> QED BY <2>3, <2>4
<1>12. FilledSlots'
  <2> SUFFICES ASSUME NEW r \in Row, NEW s \in Slot
               PROVE  IF s < curpos'[r] THEN value'[r][s] >= 1 ELSE key'[r][s] = 0
    BY DEF FilledSlots
  <2>1. IF s < curpos[r] THEN value[r][s] >= 1 ELSE key[r][s] = 0
    BY <1>2 DEF FilledSlots
  <2>2. curpos[r] \in Nat /\ s \in Nat
    BY <1>2, FrontEndAssumption DEF TypeOK, Slot
  <2> QED BY <1>1, <1>3, <1>7, <2>1, <2>2
<1>13. ZeroSlots'
  <2> SUFFICES ASSUME NEW r \in Row, NEW s \in Slot, key'[r][s] = 0
               PROVE  /\ r # 0 \/ s > curpos'[0] => value'[r][s] = 0
                      /\ r = 0 /\ s < curpos'[0] => curpos'[0] = SLOTS
                      /\ s < curpos'[r] => \A k \in Slot :
                           k < curpos'[r] /\ key'[r][k] = 0 => k = s
    BY DEF ZeroSlots
  <2>1. key[r][s] = 0 /\ ~(r = i /\ s = j)
    BY <1>5, <1>7
  <2>2. 0 \in Row /\ curpos[0] \in Nat /\ curpos[r] \in Nat /\ s \in Nat /\ \A k \in Slot : k \in Nat
    <3>1. 0 \in Row /\ \A k \in Slot : k \in Nat
      BY FrontEndAssumption DEF Row, Slot
    <3>2. curpos[0] \in 0 .. SLOTS /\ curpos[r] \in 0 .. SLOTS
      BY <1>2, <3>1 DEF TypeOK
    <3> QED BY <3>1, <3>2, FrontEndAssumption
  <2>3. /\ r # 0 \/ s > curpos[0] => value[r][s] = 0
        /\ r = 0 /\ s < curpos[0] => curpos[0] = SLOTS
        /\ s < curpos[r] => \A k \in Slot : k < curpos[r] /\ key[r][k] = 0 => k = s
    BY <1>2, <2>1 DEF ZeroSlots
  <2>4. i = 0 => curpos[0] # SLOTS
    BY DEF Fill
  <2>5. r # 0 \/ s > curpos'[0] => value'[r][s] = 0
    BY <1>1, <1>7, <2>1, <2>2, <2>3
  <2>6. r = 0 /\ s < curpos'[0] => curpos'[0] = SLOTS
    BY <1>1, <1>7, <2>1, <2>2, <2>3, <2>4
  <2>7. ASSUME s < curpos'[r], NEW k \in Slot, k < curpos'[r], key'[r][k] = 0
        PROVE  k = s
    <3>1. key[r][k] = 0 /\ ~(r = i /\ k = j)
      BY <1>5, <1>7, <2>7
    <3> QED BY <1>1, <1>7, <2>1, <2>2, <2>3, <2>7, <3>1
  <2> QED BY <2>5, <2>6, <2>7
<1>14. ZeroFlowNeverGains'
  BY <1>1, <1>2, <1>5, <1>6, <1>7 DEF ZeroFlowNeverGains
<1> QED BY <1>9, <1>10, <1>11, <1>12, <1>13, <1>14 DEF IInv

(* Evicting a pair to the sketch and replacing it keeps the invariant. *)
LEMMA KickStep ==
  ASSUME IInv, NEW f \in Flow, Kick(f)
  PROVE  IInv'
<1> DEFINE i == bucket_id(f)
           j == kick_index(i)
           v == key[i][j]
<1>1. f \in Nat /\ i \in Row /\ f \in Key /\ 0 \in Key
  BY FrontEndAssumption, BucketInRange DEF Key
<1>2. /\ TypeOK /\ NoDuplicateFlow /\ Conservation
      /\ FilledSlots /\ ZeroSlots /\ ZeroFlowNeverGains
  BY DEF IInv
<1>3. j \in Slot /\ v \in Key
  <2>1. j \in Slot
    BY <1>1, <1>2, KickIndexInRange
  <2> QED BY <1>1, <1>2, <2>1 DEF TypeOK
<1>4. (\A k \in Slot : key[i][k] # f) /\ curpos[i] = SLOTS
  BY DEF Kick, matched
<1>5. /\ curpos' = curpos
      /\ stats_search < MaxPackets /\ stats_search' = stats_search + 1
      /\ time_now' = time_next
      /\ curkick' = next_kick
      /\ seen' = [seen EXCEPT ![f] = seen[f] + 1]
      /\ sent' = [sent EXCEPT ![v] = sent[v] + value[i][j]]
      /\ key' = [key EXCEPT ![i][j] = f]
      /\ value' = [value EXCEPT ![i][j] = 1]
      /\ myclock' = IF GRR_ALL THEN myclock ELSE [myclock EXCEPT ![i][j] = time_next]
  BY DEF Kick, Count, Stamp, Start, Evict
<1>6. /\ \A r \in Row, s \in Slot :
           /\ value'[r][s] = IF r = i /\ s = j THEN 1 ELSE value[r][s]
           /\ key'[r][s] = IF r = i /\ s = j THEN f ELSE key[r][s]
      /\ \A k \in Key : seen'[k] = IF k = f THEN seen[k] + 1 ELSE seen[k]
      /\ \A k \in Key : sent'[k] = IF k = v THEN sent[k] + value[i][j] ELSE sent[k]
  BY <1>1, <1>2, <1>3, <1>5 DEF TypeOK
<1>7. v # f /\ (f # 0 => \A r \in Row, s \in Slot : key[r][s] # f)
  BY <1>2, <1>3, <1>4 DEF NoDuplicateFlow
<1>8. /\ \A k \in Key : sent[k] \in Nat /\ seen[k] \in Nat
      /\ \A r \in Row, s \in Slot : value[r][s] \in Nat
      /\ \A s \in Slot : s \in Nat /\ s < SLOTS
      /\ SLOTS \in Nat
  BY <1>2, FrontEndAssumption DEF TypeOK, Slot
<1>9. TypeOK'
  <2>1. time_next \in 0 .. TIME_MOD - 1
    BY <1>2, FrontEndAssumption DEF TypeOK, time_next
  <2>2. stats_search' \in 0 .. MaxPackets
    BY <1>2, <1>5, FrontEndAssumption DEF TypeOK
  <2>3. /\ key' \in [Row -> [Slot -> Key]]
        /\ value' \in [Row -> [Slot -> Nat]]
        /\ seen' \in [Key -> Nat]
    BY <1>1, <1>2, <1>3, <1>5 DEF TypeOK
  <2>4. sent' \in [Key -> Nat]
    <3>1. sent[v] + value[i][j] \in Nat
      <4>1. sent[v] \in Nat
        BY <1>3, <1>8
      <4>2. value[i][j] \in Nat
        BY <1>1, <1>3, <1>8
      <4> HIDE DEF v, i, j
      <4> QED BY <4>1, <4>2
    <3> QED BY <1>2, <1>3, <1>5, <3>1 DEF TypeOK
  <2>5. myclock' \in [Row -> [Slot -> 0 .. TIME_MOD - 1]]
    BY <1>1, <1>2, <1>3, <1>5, <2>1 DEF TypeOK
  <2>6. curkick' \in Slot
    BY <1>2, <1>5, FrontEndAssumption DEF TypeOK, next_kick, Slot
  <2> QED BY <1>2, <1>5, <2>1, <2>2, <2>3, <2>4, <2>5, <2>6 DEF TypeOK
<1>10. NoDuplicateFlow'
  BY <1>1, <1>2, <1>3, <1>6, <1>7 DEF NoDuplicateFlow, bucket_id
<1>11. Conservation'
  <2> SUFFICES ASSUME NEW g \in Flow \ {0}
               PROVE  /\ \A r \in Row, s \in Slot :
                           key'[r][s] = g => sent'[g] + value'[r][s] = seen'[g]
                      /\ (\A r \in Row, s \in Slot : key'[r][s] # g) => sent'[g] = seen'[g]
    BY DEF Conservation
  <2>1. /\ \A r \in Row, s \in Slot : key[r][s] = g => sent[g] + value[r][s] = seen[g]
        /\ (\A r \in Row, s \in Slot : key[r][s] # g) => sent[g] = seen[g]
    BY <1>2 DEF Conservation
  <2>2. g \in Key
    BY DEF Key
  <2>3. CASE g = f
    <3>1. sent'[g] = seen[g] /\ seen'[g] = seen[g] + 1
      BY <1>6, <1>7, <2>1, <2>2, <2>3
    <3>2. key'[i][j] = g
      BY <1>1, <1>3, <1>6, <2>3
    <3>3. \A r \in Row, s \in Slot : key'[r][s] = g => value'[r][s] = 1
      BY <1>6, <1>7, <2>3
    <3> QED BY <1>1, <1>3, <1>8, <2>2, <3>1, <3>2, <3>3
  <2>4. CASE g = v
    <3>1. \A r \in Row, s \in Slot : key[r][s] = g => r = i /\ s = j
      BY <1>1, <1>2, <1>3, <2>4 DEF NoDuplicateFlow
    <3>2. \A r \in Row, s \in Slot : key'[r][s] # g
      BY <1>6, <1>7, <2>4, <3>1
    <3>3. sent'[g] = sent[g] + value[i][j] /\ seen'[g] = seen[g]
      BY <1>6, <1>7, <2>2, <2>4
    <3> QED BY <1>1, <1>3, <2>1, <2>4, <3>2, <3>3
  <2>5. CASE g # f /\ g # v
    <3>1. sent'[g] = sent[g] /\ seen'[g] = seen[g]
      BY <1>6, <2>2, <2>5
    <3>2. \A r \in Row, s \in Slot : key'[r][s] = g <=> key[r][s] = g
      BY <1>3, <1>6, <2>5
    <3>3. \A r \in Row, s \in Slot : key[r][s] = g => value'[r][s] = value[r][s]
      BY <1>3, <1>6, <2>5
    <3> QED BY <2>1, <3>1, <3>2, <3>3
  <2> QED BY <2>3, <2>4, <2>5
<1>12. FilledSlots'
  BY <1>1, <1>2, <1>3, <1>4, <1>5, <1>6, <1>8 DEF FilledSlots
<1>13. f = 0 => i = 0
  BY FrontEndAssumption DEF bucket_id
<1>14. ZeroSlots'
  <2> SUFFICES ASSUME NEW r \in Row, NEW s \in Slot, key'[r][s] = 0
               PROVE  /\ r # 0 \/ s > curpos[0] => value'[r][s] = 0
                      /\ r = 0 /\ s < curpos[0] => curpos[0] = SLOTS
                      /\ s < curpos[r] => \A k \in Slot :
                           k < curpos[r] /\ key'[r][k] = 0 => k = s
    BY <1>5 DEF ZeroSlots
  <2>1. CASE r = i /\ s = j
    <3>1. f = 0 /\ i = 0
      BY <1>6, <1>13, <2>1
    <3>2. \A k \in Slot : key'[r][k] = 0 => k = s
      BY <1>4, <1>6, <2>1, <3>1
    <3> QED BY <1>4, <1>8, <2>1, <3>1, <3>2
  <2>2. CASE ~(r = i /\ s = j)
    <3>1. key[r][s] = 0
      BY <1>6, <2>2
    <3>2. /\ r # 0 \/ s > curpos[0] => value[r][s] = 0
          /\ r = 0 /\ s < curpos[0] => curpos[0] = SLOTS
          /\ s < curpos[r] => \A k \in Slot : k < curpos[r] /\ key[r][k] = 0 => k = s
      BY <1>2, <3>1 DEF ZeroSlots
    <3>3. r = i => f # 0
      BY <1>4, <3>1
    <3> QED BY <1>3, <1>6, <2>2, <3>2, <3>3
  <2> QED BY <2>1, <2>2
<1>15. ZeroFlowNeverGains'
  <2>1. CASE v # 0
    <3>1. sent'[0] = sent[0]
      BY <1>1, <1>6, <2>1
    <3>2. /\ sent[0] <= seen[0]
          /\ \A r \in Row, s \in Slot : key[r][s] = 0 => sent[0] + value[r][s] <= seen[0]
      BY <1>2 DEF ZeroFlowNeverGains
    <3>3. CASE f = 0
      BY <1>1, <1>6, <1>8, <3>1, <3>2, <3>3 DEF ZeroFlowNeverGains
    <3>4. CASE f # 0
      BY <1>1, <1>6, <1>8, <3>1, <3>2, <3>4 DEF ZeroFlowNeverGains
    <3> QED BY <3>3, <3>4
  <2>2. CASE v = 0
    <3>1. j < curpos[i] /\ value[i][j] >= 1
      BY <1>1, <1>2, <1>3, <1>4, <1>8 DEF FilledSlots
    <3>2. i = 0
      BY <1>1, <1>2, <1>3, <1>8, <2>2, <3>1 DEF ZeroSlots
    <3>3. f # 0 /\ seen'[0] = seen[0] /\ sent'[0] = sent[0] + value[i][j]
      BY <1>1, <1>6, <1>7, <2>2
    <3>4. sent'[0] <= seen'[0]
      BY <1>1, <1>2, <1>3, <2>2, <3>3 DEF ZeroFlowNeverGains
    <3>5. ASSUME NEW r \in Row, NEW s \in Slot, key'[r][s] = 0
          PROVE  value'[r][s] = 0
      <4>1. key[r][s] = 0 /\ ~(r = i /\ s = j)
        BY <1>6, <3>3, <3>5
      <4>2. r # i
        BY <1>1, <1>2, <1>3, <1>4, <1>8, <2>2, <4>1 DEF ZeroSlots
      <4> QED BY <1>2, <1>6, <3>2, <4>1, <4>2 DEF ZeroSlots
    <3>6. sent'[0] \in Nat
      BY <1>1, <1>3, <1>8, <3>3
    <3> QED BY <3>4, <3>5, <3>6 DEF ZeroFlowNeverGains
  <2> QED BY <2>1, <2>2
<1> QED BY <1>9, <1>10, <1>11, <1>12, <1>14, <1>15 DEF IInv

(* The zeroed cache of a new epoch satisfies the invariant. *)
LEMMA ResetStep ==
  ASSUME Reset
  PROVE  IInv'
<1> USE FrontEndAssumption DEF Reset, ZeroPairs, ZeroKeys
<1>1. TypeOK'
  BY DEF TypeOK, Row, Slot, Key
<1>2. NoDuplicateFlow'
  BY DEF NoDuplicateFlow
<1>3. Conservation'
  BY DEF Conservation, Key
<1>4. FilledSlots'
  BY DEF FilledSlots, Row, Slot
<1>5. ZeroSlots'
  BY DEF ZeroSlots, Row, Slot
<1>6. ZeroFlowNeverGains'
  BY DEF ZeroFlowNeverGains, Key
<1> QED BY <1>1, <1>2, <1>3, <1>4, <1>5, <1>6 DEF IInv

(* Every reachable state of the front end satisfies the invariant. *)
THEOREM FrontEndInvariant == Spec => []IInv
<1>1. IInv /\ [Next]_vars => IInv'
  <2> SUFFICES ASSUME IInv, [Next]_vars PROVE IInv'
    OBVIOUS
  <2>1. ASSUME NEW f \in Flow, Inc(f) PROVE IInv'
    BY <2>1, HitStep, FillStep, KickStep DEF Inc
  <2>2. CASE Reset
    BY <2>2, ResetStep
  <2>3. CASE UNCHANGED vars
    BY <2>3 DEF vars, simd_part, IInv, TypeOK, NoDuplicateFlow, Conservation,
                FilledSlots, ZeroSlots, ZeroFlowNeverGains, bucket_id
  <2> QED BY <2>1, <2>2, <2>3 DEF Next
<1> QED BY <1>1, InitIInv, PTL DEF Spec

(* Type correctness of the simd part and of the counters. *)
THEOREM TypeCorrect == Spec => []TypeOK
BY FrontEndInvariant, PTL DEF IInv

(* No flow is ever cached twice: a packet aggregates in one place only. *)
THEOREM FlowsCachedOnce == Spec => []NoDuplicateFlow
BY FrontEndInvariant, PTL DEF IInv

(* Between cache and sketch no packet of a non-zero flow is lost or        *)
(* counted twice, for any sketch, table size and replacement policy.       *)
THEOREM PacketsConserved == Spec => []Conservation
BY FrontEndInvariant, PTL DEF IInv

(* Flow id 0 may lose packets but never gains any. *)
THEOREM ZeroFlowBounded == Spec => []ZeroFlowNeverGains
BY FrontEndInvariant, PTL DEF IInv
=============================================================================

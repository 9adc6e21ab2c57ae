---------------------------- MODULE HeavyChange -----------------------------
(***************************************************************************)
(* The modules of modules/heavychange: univmon, revsketch, minhash and     *)
(* pkttest.  Each keeps two summaries; execute adds the packets of a batch *)
(* to the one that was active when the batch began, reset exchanges them   *)
(* and clears the former one, without a lock.  The build has neither FULL  *)
(* (the further count heaps of univmon) nor REPORT (the result files).     *)
(***************************************************************************)
EXTENDS Integers, SequencesExt

CONSTANTS Key,
          ChangeKey,   \* the flow keys that the modules other than univmon are given
          ROWSIZE,     \* counters of a row, a power of two
          CAPACITY,    \* slots of a heap
          HT_SIZE,     \* rows of a hash table
          dss_hash(_), cms_hash(_, _),
          DELTA,       \* the change that matters, 1000 in the code
          LOG_SIZE,    \* keys the table of pkttest has room for
          HC_BURST,    \* packets of a batch
          HC_PKTS,     \* bound on the packets received
          HC_RESETS    \* bound on the resets

VARIABLES ckind,    \* the module that runs
          sketch,   \* its two summaries
          cactive,  \* the active one: 1 or 2
          crx,      \* the rx core: the packets left of its batch, its summary
          cst,      \* the stats core's reset
          csent,    \* packets received
          clog,     \* history: the packets added to each summary since it was cleared
          cprev,    \* history: the packets of the epoch before, for each summary
          cleft,    \* history: what the last clearing left in each summary
          ccut      \* history: the summaries a reset has cut into

cvars == <<ckind, sketch, cactive, crx, cst, csent, clog, cprev, cleft, ccut>>

HL == INSTANCE HashMap WITH SIZE <- HT_SIZE, Zero <- 0
HM == INSTANCE HashMap WITH SIZE <- ROWSIZE, Zero <- 0

-----------------------------------------------------------------------------
(* countheap.c: three rows of counters, a heap of the largest flows, and a *)
(* hash table from a flow to its slot of the heap.  A count heap is a      *)
(* record: rows, heap (slots are [flowid, freq]), num, the slots in use    *)
(* (heap_element_num), and ht.                                             *)

DELETED == -1             \* the tombstone, 1 << 31

count_heap_create ==
    [rows |-> [c \in (1..3) \X (0..ROWSIZE-1) |-> 0],
     heap |-> [i \in 0..CAPACITY-1 |-> [flowid |-> 0, freq |-> 0]],
     num  |-> 0,
     ht   |-> HL!hashmap_linear_create]

count_heap_reset(ch) == [count_heap_create EXCEPT !.ht = HL!hashmap_linear_reset(ch.ht)]

\* the slot of a flow, or -1
query_hash(ch, k) ==
    LET row == ch.ht[HL!hashmap_linear_get_nocopy_key(ch.ht, k)]
    IN  IF row.key = 0 \/ row.val = DELETED THEN -1 ELSE row.val

insert_hash(ch, k, v) ==
    LET g == HL!hashmap_linear_get_copy_key(ch.ht, k)
    IN  [ch EXCEPT !.ht = [g.tbl EXCEPT ![g.pos].val = v]]

delete_hash(ch, k) ==
    [ch EXCEPT !.ht[HL!hashmap_linear_get_nocopy_key(ch.ht, k)].val = DELETED]

swap_hash(ch, k1, k2) ==
    LET p1 == HL!hashmap_linear_get_nocopy_key(ch.ht, k1)
        p2 == HL!hashmap_linear_get_nocopy_key(ch.ht, k2)
    IN  [ch EXCEPT !.ht[p1].val = ch.ht[p2].val, !.ht[p2].val = ch.ht[p1].val]

swap_heap_element(ch, i, j) == [ch EXCEPT !.heap[i] = ch.heap[j], !.heap[j] = ch.heap[i]]

swap_slots_heap_only(ch, i, j) == swap_heap_element(ch, i, j)
swap_slots(ch, i, j) ==
    swap_heap_element(swap_hash(ch, ch.heap[i].flowid, ch.heap[j].flowid), i, j)

smallest_left(ch, i) ==
    LET cand == {j \in {i, 2*i + 1} : j < ch.num}
    IN  Min({j \in cand : \A l \in cand : ch.heap[j].freq <= ch.heap[l].freq})
\* the smallest of i and its children; i, then the left child, wins a tie
smallest(ch, i) ==
    LET cand == {j \in {i, 2*i + 1, 2*i + 2} : j < ch.num}
        low  == {j \in cand : \A l \in cand : ch.heap[j].freq <= ch.heap[l].freq}
    IN  Min(low)

RECURSIVE heap_adjust_down(_, _)
heap_adjust_down(ch, i) ==
    LET c == smallest(ch, i)
    IN  IF i >= ch.num \div 2 \/ c = i THEN ch
        ELSE heap_adjust_down(heap_adjust_down(swap_slots(ch, i, c), c), i)

\* The loop ends at slot 1, which is never compared with the root.
RECURSIVE heap_adjust_up(_, _)
heap_adjust_up(ch, i) ==
    LET parent == (i - 1) \div 2
    IN  IF i <= 1 \/ ch.heap[parent].freq <= ch.heap[i].freq THEN ch
        ELSE heap_adjust_up(swap_slots(ch, i, parent), parent)

cell(i, k) == <<i, cms_hash(i, k) % ROWSIZE>>

count_heap_insert(ch0, k, freq) ==
    LET ch   == [ch0 EXCEPT !.rows = [c \in DOMAIN @ |-> IF c = cell(c[1], k) THEN @[c] + 1
                                                                             ELSE @[c]]]
        tmin == Min({ch.rows[cell(i, k)] : i \in 1..3})
        pos  == query_hash(ch, k)
        here == [flowid |-> k, freq |-> tmin]
    IN  IF pos # -1
        THEN heap_adjust_down([ch EXCEPT !.heap[pos].freq = @ + freq], pos)
        ELSE IF ch.num < CAPACITY
        THEN heap_adjust_up([insert_hash([ch EXCEPT !.heap[ch.num] = here], k, ch.num)
                               EXCEPT !.num = @ + 1], ch.num)
        ELSE IF tmin > ch.heap[0].freq
        THEN heap_adjust_down(
                 insert_hash([delete_hash(ch, ch.heap[0].flowid) EXCEPT !.heap[0] = here], k, 0),
                 0)
        ELSE ch

-----------------------------------------------------------------------------
(* The summaries *)

univmon_create == count_heap_create
univmon_inc(s, k) == count_heap_insert(s, k, 1)
univmon_reset(s) == count_heap_reset(s)

\* revsketch: one row, the row of the epoch before, and the changed flows
CHANGED == 1        \* 0x12345688
col(k) == cms_hash(1, k) % ROWSIZE
revsketch_create == [row1 |-> [c \in 0..ROWSIZE-1 |-> 0],
                     row1_last |-> [c \in 0..ROWSIZE-1 |-> 0],
                     ht |-> HL!hashmap_linear_create]

insert_hash_rev(s, k, v) ==
    LET g == HL!hashmap_linear_get_copy_key(s.ht, k)
    IN  [s EXCEPT !.ht = [g.tbl EXCEPT ![g.pos].val = v]]

delete_hash_rev(s, k) ==
    LET p == HL!hashmap_linear_get_nocopy_key(s.ht, k)
    IN  IF s.ht[p].key = k THEN [s EXCEPT !.ht[p].val = DELETED] ELSE s

abs_missing(n) == n
abs(n) == IF n >= 0 THEN n ELSE -n

revsketch_inc(s0, k) ==
    LET s == [s0 EXCEPT !.row1[col(k)] = @ + 1]
    IN  IF abs(s.row1[col(k)] - s.row1_last[col(k)]) > DELTA
        THEN insert_hash_rev(s, k, CHANGED) ELSE delete_hash_rev(s, k)

revsketch_reset(s) == [revsketch_create EXCEPT !.ht = HL!hashmap_linear_reset(s.ht)]

minhash_create == HM!hashmap_create
minhash_inc(s, k) ==
    LET g == HM!hashmap_get_copy_key(s, k) IN [g.tbl EXCEPT ![g.pos].val = @ + 1]
minhash_reset(s) == HM!hashmap_reset(s)

\* pkttest: the keys in the order of arrival (the row is the used part)
pkttest_create == <<>>
pkttest_inc(s, k) == Append(s, k)
pkttest_reset(s) == <<>>

-----------------------------------------------------------------------------
(* The modules *)

InitWith(kd, empty) ==
    /\ ckind = kd
    /\ sketch = <<empty, empty>>
    /\ cactive = 1
    /\ crx = [pkts |-> <<>>, h |-> 0]
    /\ cst = [pc |-> "idle", prev |-> 0, resets |-> 0]
    /\ csent = 0
    /\ clog = <<<<>>, <<>>>> /\ cprev = <<<<>>, <<>>>>
    /\ cleft = sketch
    /\ ccut = {}

\* The summary of the batch, and the former one that a reset clears.
Summary == sketch[crx.h]
Former == sketch[cst.prev]

Flow == IF ckind = "univmon" THEN Key ELSE ChangeKey

\* One step is the start of a batch or the addition of one packet: added is the
\* summary with it, room whether there is room for it.
Execute(kd, added, room) ==
    /\ ckind = kd
    /\ \/ /\ crx.pkts = <<>>
          /\ \E pkts \in UNION {[1..n -> Flow] : n \in 1..HC_BURST} :
                /\ csent + Len(pkts) <= HC_PKTS
                /\ csent' = csent + Len(pkts)
                /\ crx' = [pkts |-> pkts, h |-> cactive]
          /\ UNCHANGED <<sketch, clog, ccut>>
       \/ /\ crx.pkts # <<>> /\ room
          /\ sketch' = [sketch EXCEPT ![crx.h] = added]
          /\ clog' = [clog EXCEPT ![crx.h] = Append(@, Head(crx.pkts))]
          /\ crx' = [crx EXCEPT !.pkts = Tail(@)]
          \* a packet after the copy is missing from the row of the epoch before
          /\ ccut' = IF ckind = "revsketch" /\ crx.h = cst.prev THEN ccut \cup {3 - crx.h}
                                                                ELSE ccut
          /\ UNCHANGED csent
    /\ UNCHANGED <<ckind, cactive, cst, cprev, cleft>>

\* reset: the exchange, and the clearing of the former summary
Exchange(from) ==
    /\ cst.pc = from /\ cst.resets < HC_RESETS
    /\ cactive' = 3 - cactive
    /\ cst' = [pc |-> "clear", prev |-> cactive, resets |-> cst.resets + 1]
    /\ UNCHANGED <<ckind, sketch, crx, csent, clog, cprev, cleft, ccut>>

Clear(cleared) ==
    LET b == cst.prev
    IN  /\ cst.pc = "clear"
        /\ sketch' = [sketch EXCEPT ![b] = cleared]
        /\ cleft' = [cleft EXCEPT ![b] = cleared]
        /\ clog' = [clog EXCEPT ![b] = <<>>]
        /\ ccut' = IF crx.pkts # <<>> /\ crx.h = b THEN ccut \cup {b} ELSE ccut \ {b}
        /\ cst' = [cst EXCEPT !.pc = "idle", !.prev = 0]
        /\ UNCHANGED <<ckind, cactive, crx, csent, cprev>>

\* revsketch hands its row to the other summary before the exchange
CopyRow ==
    /\ cst.pc = "idle" /\ cst.resets < HC_RESETS
    /\ sketch' = [sketch EXCEPT ![3 - cactive].row1_last = sketch[cactive].row1]
    /\ cprev' = [cprev EXCEPT ![3 - cactive] = clog[cactive]]
    /\ cst' = [cst EXCEPT !.pc = "swap", !.prev = cactive]
    /\ UNCHANGED <<ckind, cactive, crx, csent, clog, cleft, ccut>>

LogRoom(s) == Len(s) < LOG_SIZE      \* the memory beyond the table is not modelled

heavychange_univmon_init == InitWith("univmon", univmon_create)
heavychange_univmon_execute == Execute("univmon", univmon_inc(Summary, Head(crx.pkts)), TRUE)
heavychange_univmon_reset == ckind = "univmon" /\ (Exchange("idle") \/ Clear(univmon_reset(Former)))

heavychange_revsketch_init == InitWith("revsketch", revsketch_create)
heavychange_revsketch_execute == Execute("revsketch", revsketch_inc(Summary, Head(crx.pkts)), TRUE)
heavychange_revsketch_reset ==
    ckind = "revsketch" /\ (CopyRow \/ Exchange("swap") \/ Clear(revsketch_reset(Former)))

heavychange_minhash_init == InitWith("minhash", minhash_create)
heavychange_minhash_execute == Execute("minhash", minhash_inc(Summary, Head(crx.pkts)), TRUE)
heavychange_minhash_reset == ckind = "minhash" /\ (Exchange("idle") \/ Clear(minhash_reset(Former)))

heavychange_pkttest_init == InitWith("pkttest", pkttest_create)
heavychange_pkttest_execute ==
    Execute("pkttest", pkttest_inc(Summary, Head(crx.pkts)), LogRoom(Summary))
heavychange_pkttest_reset == ckind = "pkttest" /\ (Exchange("idle") \/ Clear(pkttest_reset(Former)))

CInit == \/ heavychange_univmon_init \/ heavychange_revsketch_init
         \/ heavychange_minhash_init \/ heavychange_pkttest_init

CNext == \/ heavychange_univmon_execute \/ heavychange_univmon_reset
         \/ heavychange_revsketch_execute \/ heavychange_revsketch_reset
         \/ heavychange_minhash_execute \/ heavychange_minhash_reset
         \/ heavychange_pkttest_execute \/ heavychange_pkttest_reset

CSpec == CInit /\ [][CNext]_cvars

-----------------------------------------------------------------------------
(* Properties *)

CSettled(b) == crx.pkts = <<>> /\ b \notin ccut

Packets(log, P(_)) == Len(SelectSeq(log, P))
SeenIn(b, k) == Packets(clog[b], LAMBDA x : x = k)

\* The hash table of a count heap maps every flow of the heap to its slot, and
\* no other flow to any slot.
SlotsAgree(ch) ==
    /\ \A i \in 0..ch.num-1 : query_hash(ch, ch.heap[i].flowid) = i
    /\ \A k \in Key : LET p == query_hash(ch, k)
                      IN  p # -1 => p < ch.num /\ ch.heap[p].flowid = k

Leftover(ht) == \E r \in DOMAIN ht : ht[r].key # 0

\* Between two batches the hash table of univmon's count heap is the inverse of
\* its heap, through sifting, replacement of the root and tombstones, as long
\* as the table started empty.
PositionsAgree ==
    ckind = "univmon" => \A b \in 1..2 :
        CSettled(b) /\ ~ Leftover(cleft[b].ht) => SlotsAgree(sketch[b])

\* The same, also after a reset.
PositionsAgreeAfterReset ==
    ckind = "univmon" => \A b \in 1..2 : CSettled(b) => SlotsAgree(sketch[b])

\* A flow of the heap is never given fewer packets than it sent, and the heap is
\* ordered except at slot 1, which is not compared with the root.
TrackedNeverUnder ==
    ckind = "univmon" => \A b \in 1..2 :
        CSettled(b) /\ ~ Leftover(cleft[b].ht) =>
            \A i \in 0..sketch[b].num-1 :
                /\ sketch[b].heap[i].freq >= SeenIn(b, sketch[b].heap[i].flowid)
                /\ i > 1 => sketch[b].heap[(i - 1) \div 2].freq <= sketch[b].heap[i].freq

\* A flow is marked as changed exactly when, at its last packet, the packets of
\* its counter so far differ by more than DELTA from those of the whole epoch
\* before.  Packets of a batch that is still running when its row is copied are
\* missing from that comparison, and the row that a clearing leaves keeps its
\* mark.
ChangesFlagged ==
    ckind = "revsketch" => \A b \in 1..2, k \in Flow :
        CSettled(b) /\ cst.pc = "idle" /\ b = cactive /\ SeenIn(b, k) > 0
                    /\ ~ Leftover(cleft[b].ht) =>
            LET last == SelectLastInSeq(clog[b], LAMBDA x : x = k)
                same(x) == col(x) = col(k)
                now  == Packets(SubSeq(clog[b], 1, last), same)
                then == Packets(cprev[b], same)
                row  == sketch[b].ht[HL!hashmap_linear_get_nocopy_key(sketch[b].ht, k)]
            IN  (row.key = k /\ row.val = CHANGED) <=>
                    now - then > DELTA \/ then - now > DELTA

\* pkttest keeps the packets of the epoch in order; the counters of minhash hold
\* as many packets as the epoch has, plus what its last row kept.
EpochLogged ==
    \A b \in 1..2 : CSettled(b) =>
        /\ ckind = "pkttest" => sketch[b] = clog[b]
        /\ ckind = "minhash" => \A r \in DOMAIN sketch[b] :
              sketch[b][r].val = cleft[b][r].val + Packets(clog[b], LAMBDA x : HM!home(x) = r)
=============================================================================

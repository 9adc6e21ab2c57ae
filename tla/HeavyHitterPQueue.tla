------------------------- MODULE HeavyHitterPQueue --------------------------
(***************************************************************************)
(* modules/heavyhitter/pqueue.c: the flows with the largest counts, kept   *)
(* in two priority queues.  The rx core holds a spinlock for its batch; it *)
(* reads the active queue twice per packet, once to count and once to      *)
(* restore the heap.  The stats core exchanges the queues and saves the    *)
(* old one without the lock and takes the lock to clear it.  Here the      *)
(* reporter is used by the stats core only.                                *)
(***************************************************************************)
EXTENDS Integers, Sequences, FiniteSetsExt

CONSTANTS Key,        \* numbers above 0
          SIZE,       \* slots of a queue
          THRESHOLD, REPORTER_SIZE,
          PQ_BURST,   \* packets of a batch
          PQ_PKTS,    \* bound on the packets received
          PQ_RESETS   \* bound on the resets

VARIABLES pqueue,   \* the two queues
          qactive,  \* the active one: 1 or 2
          lock,     \* who holds the spinlock
          qrx,      \* the rx core: the packets left of its batch, the queue it loaded
          qst,      \* the stats core
          file,     \* the flows of the report being written
          qsent,    \* packets received
          qseen,    \* history: packets counted per queue since it was cleared
          touched   \* history: the rx core has used the queue being saved

qvars == <<pqueue, qactive, lock, qrx, qst, file, qsent, qseen, touched>>

-----------------------------------------------------------------------------
(* dss/pqueue.c: a bounded heap of pointers to the value nodes of a hash   *)
(* table.  A queue is a record: node, the value node of each key (external *)
(* rte_hash gives each key a node of its own); heap, the key of the node   *)
(* each slot points to; last_index, the used slots.  A node keeps the slot *)
(* it is in and the key and count words that its user writes.              *)

BlankNode == [used |-> FALSE, new |-> FALSE, index |-> 0, key |-> 0, n |-> 0]

pqueue_create == [node |-> [k \in Key |-> BlankNode], heap |-> [i \in 0..SIZE-1 |-> 0],
                  last_index |-> 0]

pqueue_reset(pq) == pqueue_create

pqueue_set_heap(pq, idx, k) == [pq EXCEPT !.heap[idx] = k]
pqueue_get_heap(pq, idx) == pq.node[pq.heap[idx]]

\* A new key of a full queue takes over the node contents of the root.  The
\* key given to rte_hash_del_key is the root's node, not its key, so the hash
\* table keeps the root's key and its node stays used.
take_root(pq, k) ==
    pqueue_set_heap([pq EXCEPT !.node[k] = pqueue_get_heap(pq, 0)], 0, k)

\* The entries of the hash table are never freed one by one.  rte_hash_add_key
\* fails when all are taken; its result, not tested, then leads outside the
\* nodes, which is not modelled.
pq_hash_entries(size) == 8 * size
HashRoom(pq, k) ==
    pq.node[k].used \/ Cardinality({x \in Key : pq.node[x].used}) < pq_hash_entries(SIZE)

not_found_always(pq, k) == TRUE
\* the node that rte_hash_add_key gives the key is not in use
not_found(pq, k) == ~ pq.node[k].used

pqueue_get_copy_key(pq, k) ==
    LET fresh == not_found(pq, k)
        full  == fresh /\ pq.last_index >= SIZE
        q     == IF full THEN take_root(pq, k) ELSE pq
        isnew == fresh /\ ~ full
        idx   == IF isnew THEN q.last_index ELSE q.node[k].index
        q1    == [q EXCEPT !.node[k].index = idx, !.node[k].used = TRUE,
                           !.node[k].new = isnew,
                           !.last_index = IF isnew THEN @ + 1 ELSE @]
    IN  [idx |-> idx, pq |-> pqueue_set_heap(q1, idx, k)]

pq_parent(idx) == (idx - 1) \div 2
pq_left(idx) == 2 * idx + 1
pq_right(idx) == 2 * idx + 2

\* counter_comp: what it compares is the first word of the cell, the key
less(pq, a, b) == pqueue_get_heap(pq, a).key < pqueue_get_heap(pq, b).key

pqueue_swap_heap_only(pq, a, b) ==
    [pq EXCEPT !.heap[a] = pq.heap[b], !.heap[b] = pq.heap[a]]
pqueue_swap(pq, a, b) ==
    [pq EXCEPT !.heap[a] = pq.heap[b], !.heap[b] = pq.heap[a],
               !.node[pq.heap[a]].index = b, !.node[pq.heap[b]].index = a]

RECURSIVE pqueue_swim(_, _)
pqueue_swim(pq, idx) ==
    IF idx = 0 \/ ~ less(pq, idx, pq_parent(idx)) THEN pq
    ELSE pqueue_swim(pqueue_swap(pq, idx, pq_parent(idx)), pq_parent(idx))

\* With two children the smaller one goes up when it is below the node (the
\* right one only if it is strictly smaller).  With a left child only, the
\* test is the other way round.
RECURSIVE pqueue_sift(_, _)
pqueue_sift(pq, idx) ==
    LET l == pq_left(idx)
        r == pq_right(idx)
        child == IF less(pq, l, idx) /\ ~ (less(pq, r, idx) /\ less(pq, r, l)) THEN l ELSE r
    IN  IF idx >= pq.last_index \/ l >= pq.last_index THEN pq
        ELSE IF r >= pq.last_index
             THEN IF less(pq, idx, l) THEN pqueue_swap(pq, l, idx) ELSE pq
        ELSE IF ~ less(pq, l, idx) /\ ~ less(pq, r, idx) THEN pq
        ELSE pqueue_sift(pqueue_swap(pq, idx, child), child)

pqueue_heapify_index(pq, idx) ==
    IF idx >= pq.last_index THEN pq
    ELSE IF pqueue_get_heap(pq, idx).new THEN pqueue_swim(pq, idx)
    ELSE pqueue_sift(pq, idx)

pqueue_iterate_ends_early(pq, idx) == idx + 1 >= pq.last_index
\* pqueue_iterate: the cell at idx, as long as there is one
pqueue_iterate_ends(pq, idx) == idx >= pq.last_index

\* pqueue_assert_correctness: a node with two children is not above either
pqueue_assert_correctness(pq) ==
    \A i \in 0..SIZE-1 : pq_right(i) < pq.last_index =>
        ~ less(pq, pq_left(i), i) /\ ~ less(pq, pq_right(i), i)
-----------------------------------------------------------------------------
(* The module *)

RxIdle == [pc |-> "idle", pkts |-> <<>>, q |-> 0, idx |-> 0]

heavyhitter_pqueue_init ==
    /\ pqueue = <<pqueue_create, pqueue_create>>
    /\ qactive = 1
    /\ lock = "none"
    /\ qrx = RxIdle
    /\ qst = [pc |-> "idle", prev |-> 0, idx |-> 0, resets |-> 0]
    /\ file = <<>>
    /\ qsent = 0
    /\ qseen = [b \in 1..2 |-> [k \in Key |-> 0]]
    /\ touched = FALSE

\* execute: lock; per packet get, copy and count, then heapify; unlock.  Each of
\* the two calls loads the active queue before it runs.
Lock ==
    /\ lock = "none"
    /\ \E pkts \in UNION {[1..m -> Key] : m \in 1..PQ_BURST} :
          /\ qsent + Len(pkts) <= PQ_PKTS
          /\ qsent' = qsent + Len(pkts)
          /\ qrx' = [qrx EXCEPT !.pkts = pkts, !.q = qactive, !.pc = "count"]
    /\ lock' = "rx"
    /\ UNCHANGED <<pqueue, qactive, qst, file, qseen, touched>>

Count ==
    LET k == Head(qrx.pkts)
        g == pqueue_get_copy_key(pqueue[qrx.q], k)
    IN  /\ qrx.pc = "count"
        /\ HashRoom(pqueue[qrx.q], k)
        /\ pqueue' = [pqueue EXCEPT ![qrx.q] =
                         [g.pq EXCEPT !.node[k].key = k, !.node[k].n = @ + 1]]
        /\ qrx' = [qrx EXCEPT !.pc = "load", !.idx = g.idx]
        /\ qseen' = [qseen EXCEPT ![qrx.q][k] = @ + 1]
        /\ touched' = (touched \/ qrx.q = qst.prev)
        /\ UNCHANGED <<qactive, lock, qst, file, qsent>>

Load ==
    /\ qrx.pc = "load"
    /\ qrx' = [qrx EXCEPT !.pc = "heapify", !.q = qactive]
    /\ UNCHANGED <<pqueue, qactive, lock, qst, file, qsent, qseen, touched>>

Heapify ==
    /\ qrx.pc = "heapify"
    /\ pqueue' = [pqueue EXCEPT ![qrx.q] = pqueue_heapify_index(@, qrx.idx)]
    /\ IF Len(qrx.pkts) = 1
       THEN qrx' = RxIdle /\ lock' = "none"
       ELSE qrx' = [pc |-> "count", pkts |-> Tail(qrx.pkts), q |-> qactive, idx |-> 0]
            /\ UNCHANGED lock
    /\ touched' = (touched \/ qrx.q = qst.prev)
    /\ UNCHANGED <<qactive, qst, file, qsent, qseen>>

heavyhitter_pqueue_execute == Lock \/ Count \/ Load \/ Heapify

\* reset: exchange, save_heavy_hitters cell by cell, clear under the lock
Exchange ==
    /\ qst.pc = "idle" /\ qst.resets < PQ_RESETS
    /\ qactive' = 3 - qactive
    /\ qst' = [pc |-> "save", prev |-> qactive, idx |-> 0, resets |-> qst.resets + 1]
    /\ file' = <<>>
    /\ touched' = FALSE
    /\ UNCHANGED <<pqueue, lock, qrx, qsent, qseen>>

save_heavy_hitters ==
    LET pq   == pqueue[qst.prev]
        cell == pqueue_get_heap(pq, qst.idx)
    IN  /\ qst.pc = "save"
        /\ IF pqueue_iterate_ends(pq, qst.idx)
           THEN qst' = [qst EXCEPT !.pc = "clear"] /\ UNCHANGED file
           ELSE /\ qst' = [qst EXCEPT !.idx = @ + 1]
                /\ file' = IF cell.n > THRESHOLD /\ Len(file) < REPORTER_SIZE
                           THEN Append(file, cell.key) ELSE file
        /\ UNCHANGED <<pqueue, qactive, lock, qrx, qsent, qseen, touched>>

Clear ==
    /\ qst.pc = "clear" /\ lock = "none"
    /\ pqueue' = [pqueue EXCEPT ![qst.prev] = pqueue_reset(@)]
    /\ qseen' = [qseen EXCEPT ![qst.prev] = [k \in Key |-> 0]]
    /\ qst' = [qst EXCEPT !.pc = "idle", !.prev = 0, !.idx = 0]
    /\ UNCHANGED <<qactive, lock, qrx, file, qsent, touched>>

heavyhitter_pqueue_reset == Exchange \/ save_heavy_hitters \/ Clear

QInit == heavyhitter_pqueue_init
QNext == heavyhitter_pqueue_execute \/ heavyhitter_pqueue_reset
QSpec == QInit /\ [][QNext]_qvars

-----------------------------------------------------------------------------
\* Every slot of the heap in use points to a node that records this slot, so
\* no two slots share a node: through exchanges of nodes, the takeover of the
\* root, a node that comes back after its slot was taken over, and a heapify
\* that runs on the other queue because the queues were exchanged in between.
HeapIndex ==
    \A b \in 1..2 : \A i \in 0..pqueue[b].last_index-1 :
        /\ pqueue[b].heap[i] \in Key
        /\ pqueue_get_heap(pqueue[b], i).index = i

\* The count of a node is never below the packets of its flow in the epoch,
\* also when the node was taken over, or was left in the table and came back.
QueueNeverUnder ==
    \A b \in 1..2, k \in Key : pqueue[b].node[k].used => pqueue[b].node[k].n >= qseen[b][k]

\* The report lists every flow of the saved queue whose count is above THRESHOLD
\* once, in the order of the heap and up to the size of the reporter, unless the
\* rx core was still moving the nodes of that queue while it was saved.
QueueReportExact ==
    qst.pc = "clear" /\ ~ touched =>
        LET pq == pqueue[qst.prev]
            heavy == SelectSeq([i \in 1..pq.last_index |-> pqueue_get_heap(pq, i - 1)],
                               LAMBDA c : c.n > THRESHOLD)
        IN  file = [i \in 1..Min({Len(heavy), REPORTER_SIZE}) |-> heavy[i].key]

\* pqueue_assert_correctness holds of the active queue between two batches.
AssertCorrectness == lock = "none" => pqueue_assert_correctness(pqueue[qactive])
=============================================================================

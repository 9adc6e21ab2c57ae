---------------------------- MODULE HeavyHitters ----------------------------
(***************************************************************************)
(* The counting modules of modules/heavyhitter and modules/superspreader.  *)
(* An experiment configures one of them (kind).  Its execute function runs *)
(* on the rx core: it looks up the rows of a whole batch, then counts the  *)
(* packets through the pointers it got and hands the flows that reach the  *)
(* threshold to the reporter.  Its reset function runs on the stats core,  *)
(* without a lock: it ticks the reporter, exchanges the two tables and     *)
(* clears the one that was active.  One step is one packet's lookup, one   *)
(* packet's count, one memory access of the reporter or of the counter of  *)
(* the value array, or one store or one clearing of the reset.  The value  *)
(* array and its counter are exchanged in one step, and the rte_hash       *)
(* module loads its two pointers in one.  Search statistics are left out.  *)
(***************************************************************************)
EXTENDS Integers, SequencesExt

CONSTANTS Key,            \* flow keys (nonzero)
          Dst,            \* destinations, for the superspreader modules
          FewKey,         \* the flow keys that the superspreader and pointer modules are given
          SIZE,           \* rows of a table
          ENTRIES,        \* entries of a bucket
          TRIES,          \* rounds of displacement before the code gives up
          dss_hash(_), hash_sec(_), cms_hash(_, _),
          bf_bits(_),     \* the three filter bits of a destination
          THRESHOLD,      \* HEAVYHITTER_THRESHOLD, SUPERSPREADER_THRESHOLD
          REPORTER_SIZE,
          BURST,          \* packets of a batch
          MAX_PKTS,       \* bound on the packets received
          MAX_RESETS      \* bound on the resets

VARIABLES kind,    \* the module that runs
          map,     \* its two tables
          vals,    \* their value arrays (rte_hash and pointer modules)
          index,   \* the next free element of each value array
          active,  \* the active table: 1 or 2
          vactive, \* the active value array and counter: 1 or 2
          rx,      \* the rx core's batch: program counter and locals
          rep,     \* the reporter
          st,      \* the stats core's reset: program counter and locals
          sent,    \* packets received so far
          seen,    \* history: packets counted per table since it was cleared
          hits,    \* history: flows that reached the threshold per table
          kept,    \* history: what the last clearing left in each table
          cut,     \* history: what a batch and a reset that overlapped have spoilt:
                   \* b a table, array(b) a value array, 0 the counter of a pointer module
          moved,   \* history: tables with a batch that displaced its own rows
          due,     \* history: flows added since the last tick, and before it
          raced    \* history: an addition has overlapped an exchange

history == <<seen, hits, kept, cut, moved, due, raced>>
vars == <<kind, map, vals, index, active, vactive, rx, rep, st, sent, history>>

Zero == [n |-> 0, bf |-> {}, ptr |-> <<>>]

HM == INSTANCE HashMap
HC == INSTANCE HashMapCuckoo WITH MAX_TRIES <- TRIES
HB == INSTANCE HashMapCuckooBucket WITH BUCKET_TRIES <- TRIES, dss_hash_2 <- hash_sec
CM == INSTANCE CountMin
R  == INSTANCE Reporter

\* Only the superspreader modules look at the destination.
SuperSpreader == {"ss_hashmap", "ss_hashmap_linear", "ss_cuckoo_local", "ss_cuckoo_bucket"}
Cuckoo == {"cuckoo_local", "cuckoo_local_ptr", "cuckoo_bucket", "ss_cuckoo_local",
           "ss_cuckoo_bucket"}

Pointed == {"hashmap_linear_ptr", "cuckoo_local_ptr"}

Packet == IF kind \in SuperSpreader THEN [key : FewKey, dst : Dst]
          ELSE [key : IF kind \in Pointed THEN FewKey ELSE Key, dst : {0}]
Batches == UNION {[1..n -> Packet] : n \in 1..BURST}

-----------------------------------------------------------------------------
\* External: rte_hash gives a key the index it has, or the next unused one;
\* it fails (with a negative index) when all are used.
rte_hash_create == [i \in 0..SIZE-1 |-> 0]
rte_hash_add_key(t, k) ==
    LET i == Min({j \in DOMAIN t : t[j] \in {0, k}})
    IN  [pos |-> i, tbl |-> [t EXCEPT ![i] = k]]
rte_hash_has_room(t, k) == \E j \in DOMAIN t : t[j] \in {0, k}
rte_hash_reset(t) == rte_hash_create

bloomfilter_is_member(bf, d) == bf_bits(d) \subseteq bf
bloomfilter_add_key(bf, d) == bf \cup bf_bits(d)

copy_and_inc_at_least(c, p) ==
    [cell |-> [c EXCEPT !.n = @ + 1], hit |-> c.n + 1 >= THRESHOLD]
\* A counter after the packet, and whether it has just reached the threshold.
heavyhitter_copy_and_inc(c, p) ==
    [cell |-> [c EXCEPT !.n = @ + 1], hit |-> c.n + 1 = THRESHOLD]

superspreader_copy_and_inc(c, p) ==
    LET new == ~ bloomfilter_is_member(c.bf, p.dst)
        n   == IF new THEN c.n + 1 ELSE c.n
    IN  [cell |-> [c EXCEPT !.n = n, !.bf = bloomfilter_add_key(@, p.dst)],
         hit  |-> new /\ n = THRESHOLD]

-----------------------------------------------------------------------------
(* The rx core: execute *)

\* el is the element of the packet, ld a loaded value of a counter
Idle == [pc |-> "idle", h |-> 0, v |-> 0, pkts |-> <<>>, ptrs |-> <<>>, i |-> 0, ld |-> 0,
         el |-> <<>>]

NoneSeen == [p \in Packet |-> 0]
NoneHit == [k \in Key |-> 0]
NoneDue == <<<<>>, <<>>>>

InitWith(kd, table) ==
    /\ kind = kd
    /\ map = <<table, table>>
    /\ vals = [b \in 1..2 |-> [i \in 0..SIZE-1 |-> Zero]]
    /\ index = <<0, 0>>
    /\ active = 1 /\ vactive = 1
    /\ rx = Idle
    /\ rep = R!reporter_init
    /\ st = [pc |-> "idle", prev |-> 0, resets |-> 0]
    /\ sent = 0
    /\ seen = <<NoneSeen, NoneSeen>>
    /\ hits = <<NoneHit, NoneHit>>
    /\ kept = map
    /\ cut = {} /\ moved = {}
    /\ due = NoneDue
    /\ raced = FALSE

\* The module's pointers are loaded once for the batch.
Begin(first) ==
    /\ rx.pc = "idle"
    /\ \E pkts \in Batches :
          /\ sent + Len(pkts) <= MAX_PKTS
          /\ sent' = sent + Len(pkts)
          /\ rx' = [Idle EXCEPT !.pc = first, !.h = active, !.pkts = pkts, !.i = 1,
                                !.v = IF kind = "cuckoo" THEN vactive ELSE 0]
    /\ UNCHANGED <<kind, map, vals, index, active, vactive, rep, st, history>>

\* The table of the batch, the packet at hand, and the value of its row.
Table == map[rx.h]
Pkt == rx.pkts[rx.i]
RowValue == Table[rx.ptrs[rx.i]].val

\* The lookup loop: got is the row of the packet's key and the table with the
\* key in it, ends whether the search for a row ends.  A probe that
\* finds no row goes round until a reset frees one; a cuckoo table that cannot
\* place a row fails an assertion.  The index of a failed
\* rte_hash_add_key points outside the array: not modelled further.
Lookup(got, ends) ==
    LET last == rx.i = Len(rx.pkts)
    IN  /\ rx.pc = "get"
        /\ ends
        /\ map' = [map EXCEPT ![rx.h] = got.tbl]
        /\ rx' = [rx EXCEPT !.ptrs = Append(@, got.pos), !.i = IF last THEN 1 ELSE @ + 1,
                            !.pc = IF last THEN "count" ELSE "get"]
        /\ moved' = IF kind \in Cuckoo /\ \E p \in Range(rx.ptrs) : got.tbl[p].key # Table[p].key
                    THEN moved \cup {rx.h} ELSE moved
        /\ UNCHANGED <<kind, vals, index, active, vactive, rep, st, sent, seen, hits, kept, cut,
                       due, raced>>

\* After a packet: to the reporter when its counter has reached the threshold,
\* else to the next packet.
Rest(s) == SubSeq(s, 2, Len(s))
NextPacket == IF Len(rx.pkts) = 1 THEN Idle
              ELSE [rx EXCEPT !.pc = "count", !.pkts = Rest(@), !.ptrs = Rest(@), !.ld = 0,
                              !.el = <<>>]

array(b) == b + 2
\* A batch that uses a table with the array of another epoch spoils both.
Mixed(v) == IF v = rx.h THEN cut ELSE cut \cup {rx.h, array(v)}

Spoilt(b, marks) == marks \cap {b, array(b)} # {}

\* The history of a table is dropped, until it is cleared, once it is spoilt.
Counted(hit, v) ==
    /\ cut' = Mixed(v)
    /\ seen' = [b \in 1..2 |-> IF Spoilt(b, cut') THEN NoneSeen
                              ELSE IF b = rx.h THEN [seen[b] EXCEPT ![Pkt] = @ + 1] ELSE seen[b]]
    /\ hits' = [b \in 1..2 |-> IF Spoilt(b, cut') THEN NoneHit
                              ELSE IF b = rx.h /\ hit THEN [hits[b] EXCEPT ![Pkt.key] = @ + 1]
                              ELSE hits[b]]
    /\ rx' = IF hit THEN [rx EXCEPT !.pc = "add", !.el = <<>>] ELSE NextPacket
    /\ UNCHANGED <<kind, active, vactive, rep, st, sent, kept, moved, due, raced>>

\* The counter is the value of the row; r is the counter after the packet.
CountInRow(r) ==
    /\ rx.pc = "count"
    /\ map' = [map EXCEPT ![rx.h][rx.ptrs[rx.i]].val = r.cell]
    /\ UNCHANGED <<vals, index>>
    /\ Counted(r.hit, rx.h)

\* The counter is the element of the value array at the index of the key.
CountAtIndex ==
    LET r == heavyhitter_copy_and_inc(vals[rx.v][rx.ptrs[rx.i]], Pkt)
    IN  /\ rx.pc = "count"
        /\ vals' = [vals EXCEPT ![rx.v][rx.ptrs[rx.i]] = r.cell]
        /\ UNCHANGED <<map, index>>
        /\ Counted(r.hit, rx.v)

\* The row holds a pointer to an element of a value array, given out when the
\* row is first counted: the next element of the array active by then.  The
\* counter of the elements is loaded, the pointer stored, and the counter
\* incremented, with the value loaded before or with one loaded again.
SetPointer(ptr) == map' = [map EXCEPT ![rx.h][rx.ptrs[rx.i]].val.ptr = ptr]

GivePointer ==
    /\ \/ /\ rx.pc = "count" /\ RowValue.ptr = <<>>
          /\ rx' = [rx EXCEPT !.pc = "give", !.ld = index[1]]
          \* the counter is zeroed, and the array still the one of this epoch
          /\ cut' = IF rx.h = st.prev /\ st.pc \in {"swap", "swap_vals"} THEN cut \cup {rx.h}
                                                                        ELSE cut
          /\ UNCHANGED <<map, index>>
       \/ /\ rx.pc = "give"
          /\ SetPointer(<<vactive, rx.ld>>)
          /\ \E n \in {rx.ld, index[1]} :
                rx' = [rx EXCEPT !.pc = "store_index", !.ld = n, !.el = <<vactive, rx.ld>>]
          /\ UNCHANGED <<index, cut>>
       \/ /\ rx.pc = "store_index"
          /\ index' = [index EXCEPT ![1] = rx.ld + 1]
          /\ rx' = [rx EXCEPT !.pc = "at", !.ld = 0]
          \* an element that is not the table's is counted, or the zeroing undone
          /\ cut' = IF rx.h # active \/ st.pc = "swap" THEN cut \cup {0} ELSE cut
          /\ UNCHANGED map
    /\ UNCHANGED <<kind, vals, active, vactive, rep, st, sent, seen, hits, kept, moved, due,
                   raced>>

\* The count goes through the pointer in the row; one just given is still at
\* hand when the row is cleared.  The memory beyond an array is not modelled.
Element == IF rx.pc = "at" THEN rx.el ELSE RowValue.ptr
PointedValue == vals[Element[1]][Element[2]]

CountAtPointer(r) ==
    /\ rx.pc = "at" \/ (rx.pc = "count" /\ Element # <<>>)
    /\ Element[2] < SIZE
    /\ vals' = [vals EXCEPT ![Element[1]][Element[2]] = r.cell]
    /\ UNCHANGED <<map, index>>
    /\ Counted(r.hit, Element[1])

\* The row holds the number of an element, from the counter of the active
\* array, which is incremented (a load and a store) and then read; the array
\* is the active one at each use.  Number 0 is no number: a counter read as 0
\* after a clearing leads outside the array, which is not modelled.
GiveNumber ==
    /\ \/ /\ rx.pc = "count" /\ RowValue.ptr = <<>>
          /\ rx' = [rx EXCEPT !.pc = "store_index", !.v = vactive, !.ld = index[vactive]]
          /\ cut' = Mixed(vactive)
          /\ UNCHANGED <<map, index>>
       \/ /\ rx.pc = "store_index"
          /\ index' = [index EXCEPT ![rx.v] = rx.ld + 1]
          /\ rx' = [rx EXCEPT !.pc = "give"]
          /\ UNCHANGED <<map, cut>>
       \/ /\ rx.pc = "give"
          /\ \E n \in {rx.ld + 1, index[rx.v], index[vactive]} \ {0} :
                /\ SetPointer(<<n - 1>>)
                /\ rx' = [rx EXCEPT !.pc = "at", !.v = 0, !.ld = 0, !.el = <<n - 1>>]
          /\ cut' = Mixed(vactive)
          /\ UNCHANGED index
    /\ UNCHANGED <<kind, vals, active, vactive, rep, st, sent, seen, hits, kept, moved, due,
                   raced>>

NumberedValue == vals[vactive][Element[1]]

CountAtNumber(r) ==
    /\ rx.pc = "at" \/ (rx.pc = "count" /\ Element # <<>>)
    /\ Element[1] < SIZE
    /\ vals' = [vals EXCEPT ![vactive][Element[1]] = r.cell]
    /\ UNCHANGED <<map, index>>
    /\ Counted(r.hit, vactive)

\* No lookup: the counters of the key are incremented at once.
CountInSketch(r) ==
    /\ rx.pc = "count"
    /\ map' = [map EXCEPT ![rx.h] = r.tbl]
    /\ UNCHANGED <<vals, index>>
    /\ Counted(r.hit, rx.h)

\* reporter_add_entry, called with the key of the packet
Exchanging == st.pc \in {"clear_idx", "exchange"}

AddEntry ==
    LET k == Pkt.key
    IN  /\ raced' = (raced \/ Exchanging)
        /\ \/ /\ rx.pc = "add" /\ R!RoomLeft(rep)
              /\ rep' = R!add_copy(rep, k)
              /\ rx' = [rx EXCEPT !.pc = "load"]
              /\ due' = IF raced' THEN NoneDue ELSE [due EXCEPT ![1] = Append(@, k)]
           \/ /\ rx.pc = "add" /\ ~ R!RoomLeft(rep)
              /\ rx' = NextPacket
              /\ due' = IF raced' THEN NoneDue ELSE [due EXCEPT ![1] = Append(@, k)]
              /\ UNCHANGED rep
           \/ /\ rx.pc = "load"
              /\ rx' = [rx EXCEPT !.pc = "store", !.ld = rep.idx]
              /\ UNCHANGED <<rep, due>>
           \/ /\ rx.pc = "store"
              /\ rep' = R!add_store(rep, rx.ld)
              /\ rx' = NextPacket
              /\ UNCHANGED due
        /\ UNCHANGED <<kind, map, vals, index, active, vactive, st, sent, seen, hits, kept, cut,
                       moved>>

-----------------------------------------------------------------------------
(* The stats core: reset *)

Busy(b) == rx.pc # "idle" /\ b \in {rx.h, rx.v}

\* reporter_tick: reporter_swap, then reporter_save and reporter_reset
Tick(next) ==
    /\ \/ /\ st.pc = "idle" /\ st.resets < MAX_RESETS
          /\ rep' = R!swap_offline_idx(rep)
          /\ raced' = (raced \/ rx.pc \in {"load", "store"})
          /\ due' = IF raced' THEN NoneDue ELSE <<<<>>, due[1]>>
          /\ st' = [pc |-> "clear_idx", prev |-> active, resets |-> st.resets + 1]
       \/ /\ st.pc = "clear_idx"
          /\ rep' = R!swap_clear_idx(rep)
          /\ st' = [st EXCEPT !.pc = "exchange"]
          /\ raced' = (raced \/ rx.pc \in {"load", "store"})
          /\ UNCHANGED due
       \/ /\ st.pc = "exchange"
          /\ rep' = R!swap_exchange(rep)
          /\ st' = [st EXCEPT !.pc = "save"]
          /\ raced' = (raced \/ rx.pc \in {"load", "store"})
          /\ UNCHANGED due
       \/ /\ st.pc = "save"
          /\ rep' = R!reporter_reset(rep)
          /\ st' = [st EXCEPT !.pc = next]
          /\ due' = [due EXCEPT ![2] = <<>>]
          /\ UNCHANGED raced
    /\ UNCHANGED <<kind, map, vals, index, active, vactive, rx, sent, seen, hits, kept, cut,
                   moved>>

Swap(next) ==
    /\ st.pc = "swap"
    /\ active' = 3 - active
    /\ st' = [st EXCEPT !.pc = next]
    /\ UNCHANGED <<kind, map, vals, index, vactive, rx, rep, sent, history>>

SwapVals(next) ==
    /\ st.pc = "swap_vals"
    /\ vactive' = 3 - vactive
    /\ st' = [st EXCEPT !.pc = next]
    /\ UNCHANGED <<kind, map, vals, index, active, rx, rep, sent, history>>

ZeroIndex_missing ==
    /\ st.pc = "index"
    /\ st' = [st EXCEPT !.pc = "swap"]
    /\ UNCHANGED <<kind, map, vals, index, active, vactive, rx, rep, sent, history>>
\* the pointer modules have one counter, zeroed before the exchange
ZeroIndex ==
    /\ st.pc = "index"
    /\ index' = [index EXCEPT ![1] = 0]
    /\ cut' = cut \ {0}
    /\ st' = [st EXCEPT !.pc = "swap"]
    /\ UNCHANGED <<kind, map, vals, active, vactive, rx, rep, sent, seen, hits, kept, moved, due,
                   raced>>

\* The table that was active until the exchange becomes cleared.
Former == map[st.prev]

ClearMap(cleared, next) ==
    LET b == st.prev
    IN  /\ st.pc = "clear"
        /\ map' = [map EXCEPT ![b] = cleared]
        /\ kept' = [kept EXCEPT ![b] = cleared]
        /\ seen' = [seen EXCEPT ![b] = NoneSeen]
        /\ hits' = [hits EXCEPT ![b] = NoneHit]
        /\ cut' = IF Busy(b) THEN cut \cup {b} ELSE cut \ {b}
        /\ moved' = moved \ {b}
        /\ st' = [st EXCEPT !.pc = next]
        /\ UNCHANGED <<kind, vals, index, active, vactive, rx, rep, sent, due, raced>>

ClearVals(next, ownIndex) ==
    LET b == st.prev
    IN  /\ st.pc = "clear_vals"
        /\ vals' = [vals EXCEPT ![b] = [i \in 0..SIZE-1 |-> Zero]]
        /\ index' = IF ownIndex THEN [index EXCEPT ![b] = 0] ELSE index
        /\ cut' = IF Busy(b) THEN cut \cup {array(b)} ELSE cut \ {array(b)}
        /\ st' = [st EXCEPT !.pc = next]
        /\ UNCHANGED <<kind, map, active, vactive, rx, rep, sent, seen, hits, kept, moved, due,
                       raced>>

-----------------------------------------------------------------------------
(* The modules, one per source file *)

CuckooFits(t, k) == HC!find_or_insert_key(t, k).ok
BucketFits(t, k) == HB!find_or_insert_key_bucket(t, k).ok

\* the increment before the call: cuckoo_local_ptr counts a packet twice
inc_then_copy_and_inc(c, p) == heavyhitter_copy_and_inc([c EXCEPT !.n = @ + 1], p)

heavyhitter_hashmap_init == InitWith("hashmap", HM!hashmap_create)
heavyhitter_hashmap_execute ==
    /\ kind = "hashmap"
    /\ \/ Begin("get")
       \/ Lookup(HM!hashmap_get_copy_key(Table, Pkt.key), TRUE)
       \/ CountInRow(heavyhitter_copy_and_inc(RowValue, Pkt)) \/ AddEntry
heavyhitter_hashmap_reset ==
    /\ kind = "hashmap"
    /\ Tick("swap") \/ Swap("clear") \/ ClearMap(HM!hashmap_reset(Former), "idle")

heavyhitter_hashmap_linear_init == InitWith("hashmap_linear", HM!hashmap_linear_create)
heavyhitter_hashmap_linear_execute ==
    /\ kind = "hashmap_linear"
    /\ \/ Begin("get")
       \/ Lookup(HM!hashmap_linear_get_copy_key(Table, Pkt.key), HM!ProbeEnds(Table, Pkt.key))
       \/ CountInRow(heavyhitter_copy_and_inc(RowValue, Pkt)) \/ AddEntry
heavyhitter_hashmap_linear_reset ==
    /\ kind = "hashmap_linear"
    /\ Tick("swap") \/ Swap("clear") \/ ClearMap(HM!hashmap_linear_reset(Former), "idle")

heavyhitter_cuckoo_local_init == InitWith("cuckoo_local", HC!hashmap_cuckoo_create)
heavyhitter_cuckoo_local_execute ==
    /\ kind = "cuckoo_local"
    /\ \/ Begin("get")
       \/ Lookup(HC!hashmap_cuckoo_get_copy_key(Table, Pkt.key), CuckooFits(Table, Pkt.key))
       \/ CountInRow(heavyhitter_copy_and_inc(RowValue, Pkt)) \/ AddEntry
heavyhitter_cuckoo_local_reset ==
    /\ kind = "cuckoo_local"
    /\ Tick("swap") \/ Swap("clear") \/ ClearMap(HC!hashmap_cuckoo_reset(Former), "idle")

heavyhitter_hashmap_linear_ptr_init == InitWith("hashmap_linear_ptr", HM!hashmap_linear_create)
heavyhitter_hashmap_linear_ptr_execute ==
    /\ kind = "hashmap_linear_ptr"
    /\ \/ Begin("get")
       \/ Lookup(HM!hashmap_linear_get_copy_key(Table, Pkt.key), HM!ProbeEnds(Table, Pkt.key))
       \/ GivePointer \/ CountAtPointer(heavyhitter_copy_and_inc(PointedValue, Pkt)) \/ AddEntry
heavyhitter_hashmap_linear_ptr_reset ==
    /\ kind = "hashmap_linear_ptr"
    /\ \/ Tick("index") \/ ZeroIndex \/ Swap("swap_vals") \/ SwapVals("clear_vals")
       \/ ClearVals("clear", FALSE) \/ ClearMap(HM!hashmap_linear_reset(Former), "idle")

heavyhitter_cuckoo_local_ptr_init == InitWith("cuckoo_local_ptr", HC!hashmap_cuckoo_create)
heavyhitter_cuckoo_local_ptr_execute ==
    /\ kind = "cuckoo_local_ptr"
    /\ \/ Begin("get")
       \/ Lookup(HC!hashmap_cuckoo_get_copy_key(Table, Pkt.key), CuckooFits(Table, Pkt.key))
       \/ GivePointer \/ CountAtPointer(inc_then_copy_and_inc(PointedValue, Pkt)) \/ AddEntry
heavyhitter_cuckoo_local_ptr_reset ==
    /\ kind = "cuckoo_local_ptr"
    /\ \/ Tick("index") \/ ZeroIndex \/ Swap("swap_vals") \/ SwapVals("clear_vals")
       \/ ClearVals("clear", FALSE) \/ ClearMap(HC!hashmap_cuckoo_reset(Former), "idle")

heavyhitter_cuckoo_bucket_init == InitWith("cuckoo_bucket", HB!hashmap_cuckoo_bucket_create)
heavyhitter_cuckoo_bucket_execute ==
    /\ kind = "cuckoo_bucket"
    /\ \/ Begin("get")
       \/ Lookup(HB!hashmap_cuckoo_bucket_get_copy_key(Table, Pkt.key), BucketFits(Table, Pkt.key))
       \/ GiveNumber \/ CountAtNumber(heavyhitter_copy_and_inc(NumberedValue, Pkt)) \/ AddEntry
heavyhitter_cuckoo_bucket_reset ==
    /\ kind = "cuckoo_bucket"
    /\ \/ Tick("swap") \/ Swap("swap_vals") \/ SwapVals("clear")
       \/ ClearMap(HB!hashmap_cuckoo_bucket_reset(Former), "clear_vals") \/ ClearVals("idle", TRUE)

heavyhitter_cuckoo_init == InitWith("cuckoo", rte_hash_create)
heavyhitter_cuckoo_execute ==
    /\ kind = "cuckoo"
    /\ \/ Begin("get")
       \/ Lookup(rte_hash_add_key(Table, Pkt.key), rte_hash_has_room(Table, Pkt.key))
       \/ CountAtIndex \/ AddEntry
heavyhitter_cuckoo_reset ==
    /\ kind = "cuckoo"
    /\ \/ Tick("swap") \/ Swap("swap_vals") \/ SwapVals("clear")
       \/ ClearMap(rte_hash_reset(Former), "clear_vals") \/ ClearVals("idle", TRUE)

heavyhitter_countmin_init == InitWith("countmin", CM!countmin_create)
heavyhitter_countmin_execute ==
    /\ kind = "countmin"
    /\ Begin("count") \/ CountInSketch(CM!countmin_inc(Table, Pkt.key, THRESHOLD)) \/ AddEntry
heavyhitter_countmin_reset ==
    /\ kind = "countmin"
    /\ Tick("swap") \/ Swap("clear") \/ ClearMap(CM!countmin_reset(Former), "idle")

heavyhitter_countarray_init == InitWith("countarray", CM!countarray_create)
heavyhitter_countarray_execute ==
    /\ kind = "countarray"
    /\ Begin("count") \/ CountInSketch(CM!countarray_inc(Table, Pkt.key, THRESHOLD)) \/ AddEntry
heavyhitter_countarray_reset ==
    /\ kind = "countarray"
    /\ Tick("swap") \/ Swap("clear") \/ ClearMap(CM!countarray_reset(Former), "idle")

superspreader_hashmap_init == InitWith("ss_hashmap", HM!hashmap_create)
superspreader_hashmap_execute ==
    /\ kind = "ss_hashmap"
    /\ \/ Begin("get")
       \/ Lookup(HM!hashmap_get_copy_key(Table, Pkt.key), TRUE)
       \/ CountInRow(superspreader_copy_and_inc(RowValue, Pkt)) \/ AddEntry
superspreader_hashmap_reset ==
    /\ kind = "ss_hashmap"
    /\ Tick("swap") \/ Swap("clear") \/ ClearMap(HM!hashmap_reset(Former), "idle")

superspreader_hashmap_linear_init == InitWith("ss_hashmap_linear", HM!hashmap_linear_create)
superspreader_hashmap_linear_execute ==
    /\ kind = "ss_hashmap_linear"
    /\ \/ Begin("get")
       \/ Lookup(HM!hashmap_linear_get_copy_key(Table, Pkt.key), HM!ProbeEnds(Table, Pkt.key))
       \/ CountInRow(superspreader_copy_and_inc(RowValue, Pkt)) \/ AddEntry
superspreader_hashmap_linear_reset ==
    /\ kind = "ss_hashmap_linear"
    /\ Tick("swap") \/ Swap("clear") \/ ClearMap(HM!hashmap_linear_reset(Former), "idle")

superspreader_cuckoo_local_init == InitWith("ss_cuckoo_local", HC!hashmap_cuckoo_create)
superspreader_cuckoo_local_execute ==
    /\ kind = "ss_cuckoo_local"
    /\ \/ Begin("get")
       \/ Lookup(HC!hashmap_cuckoo_get_copy_key(Table, Pkt.key), CuckooFits(Table, Pkt.key))
       \/ CountInRow(superspreader_copy_and_inc(RowValue, Pkt)) \/ AddEntry
superspreader_cuckoo_local_reset ==
    /\ kind = "ss_cuckoo_local"
    /\ Tick("swap") \/ Swap("clear") \/ ClearMap(HC!hashmap_cuckoo_reset(Former), "idle")

superspreader_cuckoo_bucket_init == InitWith("ss_cuckoo_bucket", HB!hashmap_cuckoo_bucket_create)
superspreader_cuckoo_bucket_execute ==
    /\ kind = "ss_cuckoo_bucket"
    /\ \/ Begin("get")
       \/ Lookup(HB!hashmap_cuckoo_bucket_get_copy_key(Table, Pkt.key), BucketFits(Table, Pkt.key))
       \/ GiveNumber \/ CountAtNumber(superspreader_copy_and_inc(NumberedValue, Pkt)) \/ AddEntry
superspreader_cuckoo_bucket_reset ==
    /\ kind = "ss_cuckoo_bucket"
    /\ \/ Tick("swap") \/ Swap("swap_vals") \/ SwapVals("clear")
       \/ ClearMap(HB!hashmap_cuckoo_bucket_reset(Former), "clear_vals") \/ ClearVals("idle", TRUE)

-----------------------------------------------------------------------------
Init ==
    \/ heavyhitter_hashmap_init \/ heavyhitter_hashmap_linear_init
    \/ heavyhitter_cuckoo_local_init \/ heavyhitter_hashmap_linear_ptr_init
    \/ heavyhitter_cuckoo_local_ptr_init \/ heavyhitter_cuckoo_bucket_init
    \/ heavyhitter_cuckoo_init \/ heavyhitter_countmin_init
    \/ heavyhitter_countarray_init \/ superspreader_hashmap_init
    \/ superspreader_hashmap_linear_init \/ superspreader_cuckoo_local_init
    \/ superspreader_cuckoo_bucket_init

RxStep ==
    \/ heavyhitter_hashmap_execute \/ heavyhitter_hashmap_linear_execute
    \/ heavyhitter_cuckoo_local_execute \/ heavyhitter_hashmap_linear_ptr_execute
    \/ heavyhitter_cuckoo_local_ptr_execute \/ heavyhitter_cuckoo_bucket_execute
    \/ heavyhitter_cuckoo_execute \/ heavyhitter_countmin_execute
    \/ heavyhitter_countarray_execute \/ superspreader_hashmap_execute
    \/ superspreader_hashmap_linear_execute \/ superspreader_cuckoo_local_execute
    \/ superspreader_cuckoo_bucket_execute

StatsStep ==
    \/ heavyhitter_hashmap_reset \/ heavyhitter_hashmap_linear_reset
    \/ heavyhitter_cuckoo_local_reset \/ heavyhitter_hashmap_linear_ptr_reset
    \/ heavyhitter_cuckoo_local_ptr_reset \/ heavyhitter_cuckoo_bucket_reset
    \/ heavyhitter_cuckoo_reset \/ heavyhitter_countmin_reset
    \/ heavyhitter_countarray_reset \/ superspreader_hashmap_reset
    \/ superspreader_hashmap_linear_reset \/ superspreader_cuckoo_local_reset
    \/ superspreader_cuckoo_bucket_reset

Next == RxStep \/ StatsStep

Spec == Init /\ [][Next]_vars

-----------------------------------------------------------------------------
(* Properties *)

InRow == {"hashmap", "hashmap_linear", "cuckoo_local"} \cup (SuperSpreader \ {"ss_cuckoo_bucket"})
Numbered == {"cuckoo_bucket", "ss_cuckoo_bucket"}
Sketch == {"countmin", "countarray"}

\* a table that no reset has cut into, between two batches and not half cleared
Settled(b) == /\ rx.pc = "idle" /\ ~ Spoilt(b, cut)
              /\ ~ (st.prev = b /\ st.pc \in {"clear", "clear_vals"})

Weight == IF kind = "cuckoo_local_ptr" THEN 2 ELSE 1

SeenOf(b, K) == FoldSet(LAMBDA p, n : n + seen[b][p], 0, {p \in Packet : p.key \in K})
Seen(b, k) == SeenOf(b, {k})
SeenAll(b) == SeenOf(b, Key)
Dsts(b, k) == {p.dst : p \in {q \in Packet : q.key = k /\ seen[b][q] > 0}}

\* the packets in the counters of a table or of a value array
Total(t) == FoldSet(LAMBDA p, n : n + t[p].val.n, 0, DOMAIN t)
TotalVals(v) == FoldSet(LAMBDA j, n : n + v[j].n, 0, DOMAIN v)

\* Every packet of a batch adds one to exactly one counter of the table of its
\* epoch: rows that are displaced, shared, overwritten or left over from an
\* earlier epoch lose and gain none.  cuckoo_local_ptr
\* counts each packet twice.
PacketsInTable ==
    \A b \in 1..2 : Settled(b) =>
        /\ kind \in InRow \ SuperSpreader => Total(map[b]) = Total(kept[b]) + SeenAll(b)
        /\ kind \in {"cuckoo", "cuckoo_bucket"} \cup Pointed
              => TotalVals(vals[b]) = Weight * SeenAll(b)

\* where execute would find the row of k
RowOf(b, k) ==
    IF kind \in {"hashmap_linear", "hashmap_linear_ptr", "ss_hashmap_linear"}
    THEN HM!find_key(map[b], k)
    ELSE IF kind \in Numbered THEN HB!find_or_insert_key_bucket(map[b], k).pos
    ELSE HC!find_or_insert_key(map[b], k).pos

Keyed == Cuckoo \cup {"hashmap_linear", "hashmap_linear_ptr", "ss_hashmap_linear"}

\* the counter of k, wherever the module keeps it
CounterOf(b, k) ==
    LET row == map[b][RowOf(b, k)]
    IN  IF kind \in InRow THEN row.val
        ELSE IF kind \in Pointed THEN vals[row.val.ptr[1]][row.val.ptr[2]]
        ELSE vals[b][row.val.ptr[1]]

\* what the counter of k holds from before the clearing of the table
Before(b, k) == IF kind \in InRow THEN kept[b][RowOf(b, k)].val.n ELSE 0

\* the pointer modules keep a dangling pointer in the row that is not cleared
Dangling(b) == kind \in Pointed /\ \E p \in DOMAIN kept[b] : kept[b][p].key # 0

Exact(b) == kind \in Keyed /\ Settled(b) /\ b \notin moved /\ ~ Dangling(b)

\* Between two batches the row a lookup finds for a flow holds that flow's own
\* counter: the packets counted in the epoch, plus what the last row of a
\* linear table kept from before.  For a superspreader it is the number of
\* destinations, short only by false positives of the filter.  A row of hashmap.c
\* and a cell of a sketch hold the packets of all the flows that hash to it,
\* plus what the clearing left there.
CountersExact ==
    /\ \A b \in {c \in 1..2 : Exact(c)}, k \in Key : Seen(b, k) > 0 =>
        /\ map[b][RowOf(b, k)].key = k
        /\ LET n == CounterOf(b, k).n - Before(b, k)
           IN  IF kind \in SuperSpreader
               THEN n <= Cardinality(Dsts(b, k)) /\ (Before(b, k) = 0 => n > 0)
               ELSE n = Weight * Seen(b, k)
    /\ \A b \in 1..2 : Settled(b) =>
        /\ kind = "hashmap" => \A r \in DOMAIN map[b] :
              map[b][r].val.n = kept[b][r].val.n + SeenOf(b, {k \in Key : HM!home(k) = r})
        /\ kind \in Sketch => \A c \in DOMAIN map[b] :
              map[b][c] = kept[b][c] + SeenOf(b, {k \in Key : CM!cell(c[1], k) = c})

\* A flow is handed to the reporter once per epoch, when its counter passes the
\* threshold, and not before; a counter that starts above it never reports.
ReportedOnce ==
    \A b \in {c \in 1..2 : Exact(c)}, k \in Key : Seen(b, k) > 0 =>
        hits[b][k] = IF CounterOf(b, k).n >= THRESHOLD /\ Before(b, k) < THRESHOLD THEN 1 ELSE 0

\* No two flows of the active table share an element of a value array, whatever
\* batch overlapped the reset before: an element given to the old table after
\* the exchange, and a zeroing of the counter lost between the load and the
\* store of an increment, leave gaps and nothing more.  Without such an overlap
\* the counter is the number of flows, so SIZE elements are enough for SIZE
\* flows.
ElementsPerFlow ==
    LET b == active
        rows == {p \in DOMAIN map[b] : map[b][p].key # 0 /\ map[b][p].val.ptr # <<>>}
        flows == {k \in Key : Seen(b, k) > 0}
    IN  kind \in Pointed \cup Numbered /\ st.pc # "swap" /\ b \notin cut /\ ~ Dangling(b) =>
          /\ \A p, q \in rows : p # q => map[b][p].val.ptr # map[b][q].val.ptr
          /\ Exact(b) /\ b = vactive /\ 0 \notin cut =>
                index[IF kind \in Pointed THEN 1 ELSE b] = Cardinality(flows)

\* The file saved at a tick lists the flows that were added since the previous
\* one, in order, up to the size of the reporter, as long as no addition has
\* overlapped the exchange of the buffers.  After such an overlap a file may
\* miss, repeat or misplace flows, but never has more than REPORTER_SIZE.
FileExactUnlessRaced ==
    st.pc = "save" =>
        IF raced THEN Len(R!reporter_save(rep)) <= REPORTER_SIZE
        ELSE R!reporter_save(rep) = SubSeq(due[2], 1, Min({Len(due[2]), REPORTER_SIZE}))
=============================================================================

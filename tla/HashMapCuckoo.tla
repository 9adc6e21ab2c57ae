---------------------------- MODULE HashMapCuckoo ----------------------------
(***************************************************************************)
(* dss/hashmap_cuckoo.c: a primary and a secondary table of SIZE rows each. *)
(* A position is <<table, row>>.  A row keeps the hash of its key, from    *)
(* which its other position is computed when it is displaced.              *)
(***************************************************************************)
EXTENDS Naturals

CONSTANTS SIZE,         \* rows of each of the two tables, a power of two
          MAX_TRIES,    \* HASHMAP_CUCKOO_MAX_TRIES
          dss_hash(_),
          hash_sec(_),  \* the hash for the secondary table, from the first one
          Zero

EmptyRow == [key |-> 0, hash |-> 0, val |-> Zero]

hashmap_cuckoo_create == [p \in {"pri", "sec"} \X (0..SIZE-1) |-> EmptyRow]

hashmap_cuckoo_reset(t) == [p \in DOMAIN t |-> EmptyRow]

pri(h) == <<"pri", h % SIZE>>
sec(h) == <<"sec", hash_sec(h) % SIZE>>

displace_none(t, k, pos, s1, ret, i) == [ok |-> TRUE, pos |-> pos, tbl |-> [t EXCEPT ![pos] = s1]]
\* The do-while loop: put s1 at pos in the primary table, its former row at
\* its place in the secondary table, the row found there back at its place in
\* the primary table, until a free row takes one.  ret follows the key k.
RECURSIVE displace(_, _, _, _, _, _)
displace(t, k, pos, s1, ret, i) ==
    LET s2   == t[pos]
        t1   == [t EXCEPT ![pos] = s1]
        ret1 == IF s1.key = k THEN pos ELSE ret
        pos2 == sec(s2.hash)
        s1b  == t1[pos2]
        t2   == [t1 EXCEPT ![pos2] = s2]
        ret2 == IF s2.key = k THEN pos2 ELSE ret1
    IN  IF s2.key = 0 THEN [ok |-> TRUE, pos |-> ret1, tbl |-> t1]
        ELSE IF s1b.key = 0 THEN [ok |-> TRUE, pos |-> ret2, tbl |-> t2]
        ELSE IF i + 1 < MAX_TRIES
             THEN displace(t2, k, pri(s1b.hash), s1b, ret2, i + 1)
             ELSE [ok |-> FALSE, pos |-> ret2, tbl |-> t2]     \* assert(0)

find_or_insert_key(t, k) ==
    LET h == dss_hash(k)
    IN  IF t[pri(h)].key = k THEN [ok |-> TRUE, pos |-> pri(h), tbl |-> t]
        ELSE IF t[sec(h)].key = k THEN [ok |-> TRUE, pos |-> sec(h), tbl |-> t]
        ELSE displace(t, k, pri(h), [key |-> k, hash |-> h, val |-> Zero], pri(h), 0)

hashmap_cuckoo_get_copy_key(t, k) == find_or_insert_key(t, k)
=============================================================================

------------------------- MODULE HashMapCuckooBucket -------------------------
(***************************************************************************)
(* dss/hashmap_cuckoo_bucket.c: cuckoo hashing over buckets of ENTRIES     *)
(* entries (one cache line, 16 words).  A position is <<table, bucket,     *)
(* entry>>.  The two tables are the halves of one allocation of SIZE rows  *)
(* each.  They are apart when a row has 1, 2, 4, 8 or 16 words, as in the  *)
(* experiments (4); for other row sizes the buckets of a half reach beyond *)
(* it, which is not modelled.                                              *)
(***************************************************************************)
EXTENDS Naturals, Bitwise, FiniteSetsExt

CONSTANTS SIZE,          \* the size asked for, a power of two
          ENTRIES,       \* entries_per_bucket
          BUCKET_TRIES,  \* HASHMAP_CUCKOO_BUCKET_MAX_TRIES
          dss_hash(_),
          dss_hash_2(_),
          Zero

EmptyRow == [key |-> 0, hash |-> 0, val |-> Zero]

\* ptr->size / entries_per_bucket, used as the mask of a hash
num_buckets == (SIZE - 1) \div ENTRIES

hash_offset(h) == h & num_buckets

hashmap_cuckoo_bucket_create ==
    [p \in {"pri", "sec"} \X (0..num_buckets) \X (1..ENTRIES) |-> EmptyRow]

hashmap_cuckoo_bucket_reset(t) == [p \in DOMAIN t |-> EmptyRow]

is_entry_empty(t, tb, b, e) == t[<<tb, b, e>>].hash = 0

\* The entry at which the scan of a bucket ends: the key's, or a free one
\* that takes the key.  0 when the bucket is full of other keys.
ScanEnd(t, k, tb, b) ==
    LET ends == {e \in 1..ENTRIES : t[<<tb, b, e>>].key = k \/ is_entry_empty(t, tb, b, e)}
    IN  IF ends = {} THEN 0 ELSE Min(ends)

find_or_insert_key_in_bucket(t, k, tb, b, h) ==
    LET p == <<tb, b, ScanEnd(t, k, tb, b)>>
    IN  [ok |-> TRUE, pos |-> p, tbl |-> [t EXCEPT ![p].key = k, ![p].hash = h]]

find_empty_or_return_first(t, tb, b) ==
    LET free == {e \in 1..ENTRIES : is_entry_empty(t, tb, b, e)}
    IN  <<tb, b, IF free = {} THEN 1 ELSE Min(free)>>

\* The do-while loop.  Here a row is free when its first key word is 0.
RECURSIVE displace_bucket(_, _, _, _, _, _)
displace_bucket(t, k, pos, s1, ret, i) ==
    LET s2   == t[pos]
        t1   == [t EXCEPT ![pos] = s1]
        ret1 == IF s1.key = k THEN pos ELSE ret
        pos2 == find_empty_or_return_first(t1, "sec", hash_offset(dss_hash_2(s2.hash)))
        s1b  == t1[pos2]
        t2   == [t1 EXCEPT ![pos2] = s2]
        ret2 == IF s2.key = k THEN pos2 ELSE ret1
    IN  IF s2.key = 0 THEN [ok |-> TRUE, pos |-> ret1, tbl |-> t1]
        ELSE IF s1b.key = 0 THEN [ok |-> TRUE, pos |-> ret2, tbl |-> t2]
        ELSE IF i + 1 < BUCKET_TRIES
             THEN displace_bucket(t2, k,
                      find_empty_or_return_first(t2, "pri", hash_offset(s1b.hash)),
                      s1b, ret2, i + 1)
             ELSE [ok |-> FALSE, pos |-> ret2, tbl |-> t2]     \* assert(0)

\* The primary bucket, then the secondary one, then the first entry of the
\* primary one is displaced.
find_or_insert_key_bucket(t, k) ==
    LET h  == dss_hash(k)
        b1 == hash_offset(h)
        b2 == hash_offset(dss_hash_2(h))
    IN  IF ScanEnd(t, k, "pri", b1) # 0
        THEN find_or_insert_key_in_bucket(t, k, "pri", b1, h)
        ELSE IF ScanEnd(t, k, "sec", b2) # 0
        THEN find_or_insert_key_in_bucket(t, k, "sec", b2, h)
        ELSE displace_bucket(t, k, <<"pri", b1, 1>>,
                 [key |-> k, hash |-> h, val |-> Zero], <<"pri", b1, 1>>, 0)

hashmap_cuckoo_bucket_get_copy_key(t, k) == find_or_insert_key_bucket(t, k)
=============================================================================

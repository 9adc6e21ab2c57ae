------------------------------- MODULE HashMap -------------------------------
(***************************************************************************)
(* dss/hashmap.c: a table of SIZE rows without collision resolution.  A    *)
(* table is a function from row number to [key, val]; key 0 is the all-    *)
(* zero key of a row that nothing was copied into.                         *)
(***************************************************************************)
EXTENDS Naturals, FiniteSetsExt

CONSTANTS SIZE,         \* rows of the table, a power of two
          dss_hash(_),  \* the hash of a key (murmur3, external)
          Zero          \* the value words of a zeroed row

EmptyRow == [key |-> 0, val |-> Zero]

hashmap_create == [r \in 0..SIZE-1 |-> EmptyRow]

\* ptr->size is SIZE - 1, the mask of the hash
home(k) == dss_hash(k) % SIZE

\* The row of the hash takes the key whoever was there; its value stays.
hashmap_get_copy_key(t, k) ==
    [pos |-> home(k), tbl |-> [t EXCEPT ![home(k)].key = k]]

\* The memset covers ptr->size = SIZE - 1 rows.
hashmap_reset(t) == [r \in 0..SIZE-1 |-> IF r < SIZE - 1 THEN EmptyRow ELSE t[r]]
-----------------------------------------------------------------------------
(* dss/hashmap_linear.c: the same rows with linear probing.  A row whose   *)
(* (first) key word is 0 is free.                                          *)

hashmap_linear_create == [r \in 0..SIZE-1 |-> EmptyRow]

\* How many rows after its home row the probe for k ends: at a free row or at
\* k's own.  eot is the last row, so the probe visits every row; when no row
\* ends it the loop goes round for ever.
Probes(t, k) == {i \in 0..SIZE-1 : t[(home(k) + i) % SIZE].key \in {0, k}}

ProbeEnds(t, k) == Probes(t, k) # {}

find_key_at_home(t, k) == home(k)
find_key(t, k) == (home(k) + Min(Probes(t, k))) % SIZE

hashmap_linear_get_nocopy_key(t, k) == find_key(t, k)

hashmap_linear_get_copy_key(t, k) ==
    [pos |-> find_key(t, k), tbl |-> [t EXCEPT ![find_key(t, k)].key = k]]

\* The memset covers ptr->size = SIZE - 1 rows.
hashmap_linear_reset(t) ==
    [r \in 0..SIZE-1 |-> IF r < SIZE - 1 THEN EmptyRow ELSE t[r]]
=============================================================================

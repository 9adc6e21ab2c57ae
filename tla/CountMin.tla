------------------------------ MODULE CountMin -------------------------------
(***************************************************************************)
(* dss/countmin.c and dss/countarray.c: counters without keys.  A table is *)
(* a function from <<row, column>>; countarray is the one-row case.        *)
(***************************************************************************)
EXTENDS Naturals

CONSTANTS SIZE,          \* counters of a row, a power of two
          cms_hash(_, _) \* the hash of a key with the seed of a row (external)

cell(i, k) == <<i, cms_hash(i, k) % SIZE>>

\* the counters in memory order
Offset(c) == (c[1] - 1) * SIZE + c[2]

countmin_create == [c \in (1..3) \X (0..SIZE-1) |-> 0]

\* countmin_size is 3 * ptr->size, and ptr->size is SIZE - 1
countmin_reset(t) == [c \in DOMAIN t |-> IF Offset(c) < 3 * (SIZE - 1) THEN 0 ELSE t[c]]

Incremented(t, rows, k) ==
    [c \in DOMAIN t |-> IF c \in {cell(i, k) : i \in rows} THEN t[c] + 1 ELSE t[c]]

\* all rows at the threshold or above, and one of them exactly there
Crosses(t, rows, k, thr) ==
    /\ \A i \in rows : t[cell(i, k)] >= thr
    /\ \E i \in rows : t[cell(i, k)] = thr

countmin_inc(t, k, thr) ==
    LET t1 == Incremented(t, 1..3, k)
    IN  [tbl |-> t1, hit |-> Crosses(t1, 1..3, k, thr)]

countarray_create == [c \in {1} \X (0..SIZE-1) |-> 0]

countarray_reset(t) == [c \in DOMAIN t |-> IF Offset(c) < SIZE - 1 THEN 0 ELSE t[c]]

countarray_inc(t, k, thr) ==
    LET t1 == Incremented(t, {1}, k)
    IN  [tbl |-> t1, hit |-> Crosses(t1, {1}, k, thr)]
=============================================================================

------------------------------ MODULE Reporter -------------------------------
(***************************************************************************)
(* reporter.c: the flows found heavy in an epoch.  The rx core adds them to *)
(* the active buffer; the stats core exchanges the buffers at a tick and   *)
(* saves the other one.  There is no lock, so an addition is the three     *)
(* memory accesses of reporter_add_entry and the exchange the three of     *)
(* reporter_swap.  A blank entry is 0.                                     *)
(***************************************************************************)
EXTENDS Naturals, Sequences

CONSTANT REPORTER_SIZE

Blank == [i \in 0..REPORTER_SIZE-1 |-> 0]

reporter_init == [buf |-> <<Blank, Blank>>, active |-> 1, offline |-> 2,
                  idx |-> 0, offline_idx |-> 0, version |-> 0]

\* reporter_add_entry: the test of idx and the copy, then idx++, which is a
\* load (the caller keeps the value) and a store.
RoomLeft(rep) == rep.idx < REPORTER_SIZE
add_copy(rep, k) == [rep EXCEPT !.buf[rep.active][rep.idx] = k]
add_store(rep, loaded) == [rep EXCEPT !.idx = loaded + 1]

\* reporter_swap
swap_offline_idx(rep) == [rep EXCEPT !.offline_idx = rep.idx]
swap_clear_idx_missing(rep) == rep
swap_clear_idx(rep) == [rep EXCEPT !.idx = 0]
swap_exchange(rep) == [rep EXCEPT !.active = 3 - rep.active, !.offline = rep.active,
                                  !.version = rep.version + 1]

\* what reporter_save writes to the file: the first offline_idx entries
reporter_save(rep) == [i \in 1..rep.offline_idx |-> rep.buf[rep.offline][i - 1]]

\* reporter_reset
reporter_reset(rep) ==
    [rep EXCEPT !.buf[rep.offline] =
        [i \in DOMAIN Blank |-> IF i < rep.offline_idx THEN 0 ELSE @[i]]]
=============================================================================

------------------------------ MODULE RevSketch ------------------------------
(* SimdBatch::RevSketch (revsketch.c): in each of four rows the counter of *)
(* a flow is chosen by four small hashes put side by side.  They read      *)
(* keysize bytes of the flow id, one in the experiments: its first byte.   *)
EXTENDS Naturals, Sequences

CONSTANTS
  Flow, MaxPackets,
  Digit,           \* values of one small hash (& 0xF: 16)
  ByteMod,         \* values of a byte (256)
  Hash(_, _, _)    \* dss_hash_with_seed_rev(byte, seed of hash n of row r)

VARIABLES table, stats_search, report

RSRow == 1 .. 4
RSIndex == 0 .. Digit^4 - 1

revsketch_create == [r \in RSRow |-> [c \in RSIndex |-> 0]]

(* h1 | (h2 << 4) | (h3 << 8) | (h4 << 12) *)
index(f, r) ==
  LET h(n) == Hash(f % ByteMod, r, n) % Digit
  IN h(1) + h(2) * Digit + h(3) * Digit^2 + h(4) * Digit^3

revsketch_inc(t, f) == [r \in RSRow |-> [t[r] EXCEPT ![index(f, r)] = @ + 1]]

Sketch == INSTANCE DirectSketch WITH
  sketch <- table, EmptySketch <- revsketch_create, IncOne <- revsketch_inc,
  HandedOver <- LAMBDA s : {s}

revsketch_reset == Sketch!Reset

Init == Sketch!Init
Next == revsketch_reset \/ \E f \in Flow : Sketch!Inc(f)
Spec == Init /\ [][Next]_<<table, stats_search, report>>
=============================================================================

----------------------------- MODULE MCBackEnds -----------------------------
EXTENDS BackEnds

(* Rows agree on some pairs of flows and separate others. *)
SmallCMHash(k, r) == (k * r + k \div 3) % 7

(* Bit 0 is common, higher bits are rarer; key 0 hashes to zero. *)
SmallFMHash(k, r) == (k * (2 * r - 1)) % 8

(* Flows share bits in some rows and not in others. *)
SmallLCHash(k, r) == k * r + k \div 2

(* Spreads the flows over the virtual positions 0 .. 8 * Size - 1. *)
SmallMRHash(k) == 5 * k + 1

SmallRSHash(byte, r, n) == byte * r + n

(* The first Bloom filter bit of a flow is its own; cells collide, also    *)
(* the four cells of one flow.                                             *)
ExactHash(k, n) == IF n = 1 THEN k ELSE k * n + k \div 4

(* Flows share all their Bloom filter bits with others. *)
CollidingHash(k, n) == IF n <= 4 THEN (k % 3) + (n % 2) ELSE k + n

(* Rows 1 and 2 separate the flows of a bucket, rows 3 and 4 mix them. *)
SmallCSHash(r, k) == IF r <= 2 THEN k * r + k \div 3 ELSE k

(* Flows that share a cell add to it or take away from it. *)
SmallPolar(r, k) == (k \div 2 + r) % 2

SmallLevel(n, k) == (k \div 2^n) % 2
=============================================================================

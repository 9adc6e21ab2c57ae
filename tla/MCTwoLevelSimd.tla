--------------------------- MODULE MCTwoLevelSimd ---------------------------
EXTENDS TwoLevelSimd, Bitwise

(* In bucket 0 <<1, 3>> and <<4, 6>> have the same fp, <<2, 2>> has the fp *)
(* of an empty slot; <<1, 2>> is alone in bucket 1.                        *)
Pairs == {<<1, 3>>, <<4, 6>>, <<1, 5>>, <<1, 7>>, <<2, 2>>, <<1, 2>>}

WordXor(a, b) == a ^^ b
SmallRevHash(src, r) == (src + r) % 2
SmallCMHash(src, r) == (src * r) % 4
SmallBit(dst) == dst
=============================================================================

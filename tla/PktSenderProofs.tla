-------------------------- MODULE PktSenderProofs ---------------------------
(* Proofs about the sending core, for any trace, number of passes, burst   *)
(* and width of the counters, and any interference of the master core.     *)
EXTENDS PktSender, TLAPS

(* The arguments of the sender: sizes are numbers, traces are not empty.   *)
Configured ==
  /\ NB_BURST \in Nat /\ UINT \in Nat \ {0}
  /\ Traces \subseteq Nat \ {0} /\ PktTimes \subseteq Nat \ {0}

total == total_trace * pkt_times

(* What the proofs use of the remainder of an unsigned division. *)
LEMMA Remainder ==
  ASSUME NEW a \in Int, NEW b \in Nat \ {0}
  PROVE  a % b \in 0 .. b - 1 /\ (a >= 0 => a % b <= a)
OBVIOUS

LEMMA Total == ASSUME IInv PROVE total \in Nat \ {0}
BY DEF IInv, total

LEMMA SmallRemainder ==
  ASSUME NEW b \in Nat \ {0}, NEW a \in 0 .. b - 1
  PROVE  a % b = a
OBVIOUS

(* A burst is only generated and sent while packets are missing. *)
LEMMA SendedBelow == ASSUME IInv, Configured, pc = "adjust" PROVE sended < total
<1>1. total \in Nat \ {0}
  BY Total
<1>2. total % UINT <= total /\ total % UINT \in Nat
  BY <1>1, Remainder DEF Configured
<1>3. sended = 0 \/ sended < total % UINT
  BY DEF IInv, total
<1> QED BY <1>1, <1>2, <1>3 DEF IInv

(* One iteration of the loop of send_pkt_rate stays in the trace. *)
LEMMA GenerateStep == ASSUME IInv, Configured, generate PROVE IInv'
<1>1. CASE count < NB_BURST /\ wrap_last
  BY <1>1 DEF IInv, Configured, generate, wrap_last, StopsWithinBurst
<1>2. CASE count < NB_BURST /\ wrap
  BY <1>2 DEF IInv, Configured, generate, wrap, StopsWithinBurst
<1>3. CASE count < NB_BURST /\ generate_mbuf
  BY <1>3 DEF IInv, Configured, generate, generate_mbuf, StopsWithinBurst
<1>4. CASE count = NB_BURST /\ pc' = "tx" /\ UNCHANGED <<trace_idx, index, count>>
  BY <1>4 DEF IInv, Configured, generate, StopsWithinBurst
<1> QED BY <1>1, <1>2, <1>3, <1>4 DEF generate

LEMMA TxStep ==
  ASSUME IInv, Configured, NEW n \in 0 .. count, rte_eth_tx_burst(n)
  PROVE  IInv'
BY DEF IInv, Configured, rte_eth_tx_burst, StopsWithinBurst

(* The wind back is a remainder, whatever main did to trace_idx since it   *)
(* was loaded.  sended was below the total, and a burst is added to it.    *)
LEMMA AdjustStep == ASSUME IInv, Configured, adjust PROVE IInv'
<1>1. trace_idx' \in 0 .. total_trace - 1
  <2> DEFINE a == loaded + total_trace - count + ret
  <2>1. a \in Int
    BY DEF IInv, Configured
  <2>2. a % UINT \in Int
    BY <2>1, Remainder DEF Configured
  <2>3. (a % UINT) % total_trace \in 0 .. total_trace - 1
    BY <2>2, Remainder DEF IInv
  <2> QED BY <2>3 DEF adjust, rewound
<1>2. sended' \in Nat /\ sended' <= sended + ret
  <2>1. sended + ret \in Int /\ sended + ret >= 0
    BY DEF IInv, Configured
  <2>2. (sended + ret) % UINT \in 0 .. UINT - 1 /\ (sended + ret) % UINT <= sended + ret
    BY <2>1, Remainder DEF Configured
  <2> QED BY <2>2 DEF adjust, Configured
<1>3. sended < total
  BY SendedBelow DEF adjust
<1>4. sended' < total + NB_BURST
  <2>1. total \in Nat
    BY Total
  <2> QED BY <1>2, <1>3, <2>1 DEF IInv, Configured
<1>5. StopsWithinBurst'
  BY <1>4 DEF StopsWithinBurst, adjust, total
<1> QED BY <1>1, <1>2, <1>5 DEF IInv, Configured, adjust

(* Another burst is generated only while sended is below the total. *)
LEMMA CheckStep == ASSUME IInv, Configured, check PROVE IInv'
<1>1. total % UINT \in Int
  BY Total, Remainder DEF Configured
<1>2. pc' = "generate" => sended < total % UINT
  BY <1>1 DEF IInv, check, finished, total
<1> QED BY <1>2 DEF IInv, Configured, check, StopsWithinBurst, total

LEMMA ResetStep == ASSUME IInv, Configured, lc_args_reset PROVE IInv'
BY DEF IInv, Configured, lc_args_reset, StopsWithinBurst

LEMMA InitIInv == ASSUME Configured, Init PROVE IInv
<1>1. total_trace \in Nat \ {0} /\ pkt_times \in Nat \ {0}
  BY DEF Init, Configured
<1>2. total_trace * pkt_times \in Nat \ {0}
  BY <1>1
<1>3. StopsWithinBurst
  BY <1>2 DEF Init, StopsWithinBurst, Configured
<1> QED BY <1>1, <1>3 DEF Init, IInv, Configured

(* The invariant holds in every state of the sending core: the burst that  *)
(* send_pkt_rate generates starts inside the trace, and only while fewer   *)
(* than total_trace * pkt_times packets were sent.                         *)
THEOREM SenderInvariant == ASSUME Configured PROVE Spec => []IInv
<1>1. Init => IInv
  BY InitIInv
<1>2. IInv /\ [Next]_vars => IInv'
  <2> SUFFICES ASSUME IInv, [Next]_vars PROVE IInv'
    OBVIOUS
  <2>1. CASE UNCHANGED vars
    BY <2>1 DEF IInv, vars, StopsWithinBurst
  <2>2. CASE Next
    BY <2>2, GenerateStep, TxStep, AdjustStep, CheckStep, ResetStep DEF Next, send_pkt_rate
  <2> QED BY <2>1, <2>2
<1> QED BY <1>1, <1>2, PTL DEF Spec

(* send_pkt_rate never generates a packet from beyond the trace, although  *)
(* main writes trace_idx while the burst is generated and wound back.      *)
THEOREM StaysInTrace == ASSUME Configured PROVE Spec => []InTrace
<1>1. IInv => InTrace
  BY DEF IInv, InTrace
<1> QED BY <1>1, SenderInvariant, PTL

(* The sender stops within one burst of pkt_times passes over the trace,   *)
(* although index is counted twice for passes that are wound back.         *)
THEOREM SendsAtMostABurstMore == ASSUME Configured PROVE Spec => []StopsWithinBurst
<1>1. IInv => StopsWithinBurst
  BY DEF IInv
<1> QED BY <1>1, SenderInvariant, PTL

-----------------------------------------------------------------------------
(* Two positions of the endlessly repeated trace are the same packet. *)
SamePacket(a, b) == \E k \in Int : a = b + k * total_trace

(* The product that ends the program, and the sum of the wind back, fit    *)
(* the width of the counters.                                              *)
NoWrap ==
  \A t \in Traces, n \in PktTimes : t * n + NB_BURST <= UINT /\ 2 * t < UINT

(* The invariant behind InOrder: until main restarts the trace, trace_idx  *)
(* is where the packets sent and the burst being generated have led.       *)
OInv ==
  /\ IInv
  /\ total_trace \in Traces /\ pkt_times \in PktTimes
  /\ ~restarted /\ total_trace >= NB_BURST =>
       /\ pc \in {"generate", "tx", "adjust"} => SamePacket(trace_idx, sended + count)
       /\ pc = "adjust" => loaded = trace_idx
       /\ pc = "check" => SamePacket(trace_idx, sended)

(* The numbers below n that differ by a multiple of n are equal. *)
LEMMA OneMultiple ==
  ASSUME NEW n \in Nat \ {0}, NEW a \in 0 .. n - 1, NEW b \in 0 .. n - 1,
         NEW k \in Int, a = b + k * n
  PROVE  a = b
<1>1. CASE k >= 1
  <2>1. k * n >= n
    BY <1>1
  <2> QED BY <2>1
<1>2. CASE k <= -1
  <2>1. k * n <= -n
    BY <1>2
  <2> QED BY <2>1
<1>3. CASE k = 0
  BY <1>3
<1> QED BY <1>1, <1>2, <1>3

LEMMA Quotient ==
  ASSUME NEW a \in Int, NEW n \in Nat \ {0}
  PROVE  \E q \in Int : a % n = a + q * n
<1>1. a = n * (a \div n) + (a % n) /\ a \div n \in Int /\ a % n \in Int
  OBVIOUS
<1>2. -(a \div n) \in Int /\ a % n = a + (-(a \div n)) * n
  BY <1>1
<1> QED BY <1>2

(* The packet after a sum is determined by the packets of its parts. *)
LEMMA SameAfter ==
  ASSUME IInv, NEW a \in Int, NEW b \in Int, NEW d \in Int, SamePacket(a, b)
  PROVE  SamePacket(a + d, b + d)
<1>1. PICK k \in Int : a = b + k * total_trace
  BY DEF SamePacket
<1>2. a + d = b + d + k * total_trace
  BY <1>1 DEF IInv
<1> QED BY <1>2 DEF SamePacket

(* A whole pass more or less is the same packet. *)
LEMMA SamePass ==
  ASSUME IInv, NEW a \in Int, NEW b \in Int, SamePacket(a, b)
  PROVE  SamePacket(a - total_trace, b) /\ SamePacket(a + total_trace, b)
<1>1. PICK k \in Int : a = b + k * total_trace
  BY DEF SamePacket
<1>2. k - 1 \in Int /\ a - total_trace = b + (k - 1) * total_trace
  BY <1>1 DEF IInv
<1>3. k + 1 \in Int /\ a + total_trace = b + (k + 1) * total_trace
  BY <1>1 DEF IInv
<1> QED BY <1>2, <1>3 DEF SamePacket

LEMMA SameRemainder ==
  ASSUME IInv, NEW a \in Int, NEW b \in Int, SamePacket(a, b)
  PROVE  SamePacket(a % total_trace, b)
<1>1. PICK k \in Int : a = b + k * total_trace
  BY DEF SamePacket
<1>2. PICK q \in Int : a % total_trace = a + q * total_trace
  BY Quotient DEF IInv
<1>3. k + q \in Int /\ a % total_trace = b + (k + q) * total_trace
  BY <1>1, <1>2 DEF IInv
<1> QED BY <1>3 DEF SamePacket

LEMMA OrderInit == ASSUME Configured, Init PROVE OInv
<1>1. IInv
  BY InitIInv
<1>2. 0 \in Int /\ trace_idx = sended + count + 0 * total_trace
  BY <1>1 DEF Init, IInv
<1> QED BY <1>1, <1>2 DEF OInv, Init, SamePacket

(* Generating a packet moves trace_idx by one, or from the end to 1. *)
LEMMA OrderGenerate == ASSUME OInv, Configured, generate PROVE OInv'
<1> DEFINE Intact == ~restarted /\ total_trace >= NB_BURST
<1>1. IInv /\ IInv' /\ UNCHANGED <<total_trace, pkt_times, restarted, sended>>
  BY GenerateStep DEF OInv, generate
<1>2. trace_idx \in Int /\ sended + count \in Int /\ total_trace \in Int
  BY <1>1 DEF IInv, Configured
<1>3. pc = "generate" /\ (Intact => SamePacket(trace_idx, sended + count))
  BY DEF OInv, generate
<1>4. pc' \in {"generate", "tx"}
  BY <1>3 DEF generate, wrap_last, wrap, generate_mbuf
<1>5. Intact => SamePacket(trace_idx', sended + count')
  <2> SUFFICES ASSUME Intact PROVE SamePacket(trace_idx', sended + count')
    OBVIOUS
  <2>1. SamePacket(trace_idx, sended + count)
    BY <1>3
  <2>2. CASE wrap_last
    <3>1. trace_idx' = trace_idx - total_trace /\ count' = count
      BY <1>2, <2>2 DEF wrap_last
    <3>2. SamePacket(trace_idx - total_trace, sended + count)
      BY <1>1, <1>2, <2>1, SamePass
    <3> QED BY <3>1, <3>2
  <2>3. CASE wrap
    <3>1. trace_idx' = (trace_idx - total_trace) + 1 /\ sended + count' = (sended + count) + 1
      BY <1>1, <1>2, <2>3 DEF wrap, IInv, Configured
    <3>2. SamePacket(trace_idx - total_trace, sended + count)
      BY <1>1, <1>2, <2>1, SamePass
    <3>3. SamePacket((trace_idx - total_trace) + 1, (sended + count) + 1)
      <4> DEFINE a == trace_idx - total_trace
                 b == sended + count
      <4>1. a \in Int /\ b \in Int /\ 1 \in Int /\ SamePacket(a, b)
        BY <1>2, <3>2
      <4> HIDE DEF a, b
      <4>2. SamePacket(a + 1, b + 1)
        BY <1>1, <4>1, SameAfter
      <4> QED BY <4>2 DEF a, b
    <3> QED BY <3>1, <3>3
  <2>4. CASE generate_mbuf
    <3>1. trace_idx' = trace_idx + 1 /\ sended + count' = (sended + count) + 1
      BY <1>1, <1>2, <2>4 DEF generate_mbuf, IInv, Configured
    <3>2. SamePacket(trace_idx + 1, (sended + count) + 1)
      BY <1>1, <1>2, <2>1, SameAfter
    <3> QED BY <3>1, <3>2
  <2>5. CASE UNCHANGED <<trace_idx, index, count>>
    BY <2>1, <2>5
  <2> QED BY <2>2, <2>3, <2>4, <2>5 DEF generate
<1> QED BY <1>1, <1>4, <1>5 DEF OInv, SamePacket

LEMMA OrderTx ==
  ASSUME OInv, Configured, NEW n \in 0 .. count, rte_eth_tx_burst(n)
  PROVE  OInv'
<1>1. IInv'
  BY TxStep DEF OInv
<1> QED BY <1>1 DEF OInv, rte_eth_tx_burst, SamePacket

(* The wind back takes away exactly the packets that the NIC refused. *)
LEMMA OrderAdjust == ASSUME OInv, Configured, NoWrap, adjust PROVE OInv'
<1> DEFINE Intact == ~restarted /\ total_trace >= NB_BURST
           back == loaded + total_trace - count + ret
<1>1. IInv /\ IInv' /\ UNCHANGED <<total_trace, pkt_times, restarted>> /\ pc' = "check"
  BY AdjustStep DEF OInv, adjust
<1>2. Intact => SamePacket(trace_idx', sended')
  <2> SUFFICES ASSUME Intact PROVE SamePacket(trace_idx', sended')
    OBVIOUS
  <2>1. total \in Nat /\ total + NB_BURST <= UINT /\ 2 * total_trace < UINT
    BY <1>1, Total DEF OInv, NoWrap, total
  <2>2. sended' = sended + ret
    <3>1. sended < total
      BY <1>1, SendedBelow DEF adjust
    <3>2. sended + ret \in 0 .. UINT - 1
      BY <1>1, <2>1, <3>1 DEF IInv, Configured
    <3>3. (sended + ret) % UINT = sended + ret
      BY <3>2, SmallRemainder DEF Configured
    <3> QED BY <3>3 DEF adjust
  <2>3. back \in 0 .. UINT - 1
    BY <1>1, <2>1 DEF IInv, Configured
  <2>4. SamePacket(back, sended + ret)
    <3>1. SamePacket(loaded, sended + count)
      BY DEF OInv, adjust
    <3> DEFINE a == loaded + total_trace
               b == sended + count
               d == ret - count
    <3>2. a \in Int /\ b \in Int /\ d \in Int /\ loaded \in Int
      BY <1>1 DEF IInv, Configured
    <3>3. back = a + d /\ sended + ret = b + d
      BY <1>1 DEF IInv, Configured
    <3>4. SamePacket(a, b)
      BY <1>1, <3>1, <3>2, SamePass
    <3> HIDE DEF a, b, d, back
    <3>5. SamePacket(a + d, b + d)
      BY <1>1, <3>2, <3>4, SameAfter
    <3> QED BY <3>3, <3>5
  <2>5. trace_idx' = (back % UINT) % total_trace
    BY DEF adjust, rewound
  <2> HIDE DEF back
  <2>6. back % UINT = back
    BY <2>3, SmallRemainder DEF Configured
  <2>7. SamePacket(back % total_trace, sended + ret)
    BY <1>1, <2>3, <2>4, SameRemainder DEF IInv, Configured
  <2> QED BY <2>2, <2>5, <2>6, <2>7
<1> QED BY <1>1, <1>2 DEF OInv, SamePacket

LEMMA OrderCheck == ASSUME OInv, Configured, check PROVE OInv'
<1>1. IInv'
  BY CheckStep DEF OInv
<1>2. count' = 0 /\ sended + 0 = sended
  BY DEF check, OInv, IInv
<1> QED BY <1>1, <1>2 DEF OInv, check, SamePacket

LEMMA OrderReset == ASSUME OInv, Configured, lc_args_reset PROVE OInv'
<1>1. IInv'
  BY ResetStep DEF OInv
<1> QED BY <1>1 DEF OInv, lc_args_reset

(* Between two bursts trace_idx is inside the trace, where only one index  *)
(* is the packet after the ones that were sent.                            *)
LEMMA OrderImpliesInOrder == OInv => InOrder
<1> SUFFICES ASSUME OInv, pc = "generate", count = 0, ~restarted, total_trace >= NB_BURST
             PROVE  trace_idx = sended % total_trace
  BY DEF InOrder
<1>1. IInv /\ total_trace \in Nat \ {0} /\ sended \in Int
  BY DEF OInv, IInv
<1>2. trace_idx \in 0 .. total_trace - 1
  BY DEF OInv, IInv
<1>3. PICK k \in Int : trace_idx = sended + k * total_trace
  BY <1>1 DEF OInv, SamePacket
<1>4. PICK q \in Int : sended % total_trace = sended + q * total_trace
  BY <1>1, Quotient
<1>5. sended % total_trace \in 0 .. total_trace - 1
  BY <1>1, Remainder
<1>6. k - q \in Int /\ trace_idx = (sended % total_trace) + (k - q) * total_trace
  BY <1>1, <1>3, <1>4
<1> QED BY <1>1, <1>2, <1>5, <1>6, OneMultiple

(* The trace is sent in order, no packet skipped or repeated, however the  *)
(* NIC cuts the bursts, until main restarts it: for every trace of at      *)
(* least a burst and every number of passes that the counters can hold.    *)
THEOREM SentInOrder == ASSUME Configured, NoWrap PROVE Spec => []InOrder
<1>1. Init => OInv
  BY OrderInit
<1>2. OInv /\ [Next]_vars => OInv'
  <2> SUFFICES ASSUME OInv, [Next]_vars PROVE OInv'
    OBVIOUS
  <2>1. CASE UNCHANGED vars
    BY <2>1 DEF OInv, IInv, vars, StopsWithinBurst, SamePacket
  <2>2. CASE Next
    BY <2>2, OrderGenerate, OrderTx, OrderAdjust, OrderCheck, OrderReset
       DEF Next, send_pkt_rate
  <2> QED BY <2>1, <2>2
<1> QED BY <1>1, <1>2, OrderImpliesInOrder, PTL DEF Spec
=============================================================================

------------------------------ MODULE PktSender ------------------------------
(***************************************************************************)
(* The slave core of the packet sender: the timer calls send_pkt_rate,     *)
(* which generates a burst from the trace, hands it to the NIC, winds      *)
(* trace_idx back over what the NIC refused, and ends the program once the *)
(* trace has been sent pkt_times times.  The master core writes trace_idx  *)
(* too, without a lock: main zeroes it in every round of the rate search.  *)
(*                                                                         *)
(* The uint32_t arithmetic on trace_idx is kept, at the width UINT.        *)
(* restarted is a history variable.                                        *)
(***************************************************************************)
EXTENDS Integers

CONSTANTS
  NB_BURST,      \* packets per burst (32)
  UINT,          \* 2^32 in the code
  Traces,        \* lengths of a trace
  PktTimes,      \* values of -T
  MaxRestarts    \* bound: rounds of the master core

VARIABLES
  pc,            \* "generate", "tx", "adjust", "check", "exit"
  total_trace, pkt_times,
  trace_idx, index,
  count, ret, sended,
  loaded,        \* the trace_idx that the adjustment has read
  restarts, restarted

vars == <<pc, total_trace, pkt_times, trace_idx, index, count, ret, sended, loaded,
          restarts, restarted>>

Init ==
  /\ pc = "generate"
  /\ total_trace \in Traces /\ pkt_times \in PktTimes
  /\ trace_idx = 0 /\ index = 0
  /\ count = 0 /\ ret = 0 /\ sended = 0 /\ loaded = 0
  /\ restarts = 0 /\ restarted = FALSE

(* index++.  It is only compared with pkt_times, and once above it only    *)
(* 2^32 passes bring it back: those are left out.                          *)
passed == IF index > pkt_times THEN index ELSE index + 1

(* One iteration of the for loop: the end of the trace wraps around, and   *)
(* ends the burst when it was the last pass.  A write of main within an    *)
(* iteration has the effect of one before or after it.                     *)
wrap_last ==
  /\ trace_idx = total_trace /\ index + 1 = pkt_times
  /\ trace_idx' = 0 /\ index' = passed
  /\ pc' = "tx" /\ UNCHANGED count
wrap ==
  /\ trace_idx = total_trace /\ index + 1 # pkt_times
  /\ trace_idx' = 1 /\ index' = passed
  /\ count' = count + 1 /\ UNCHANGED pc
generate_mbuf ==
  /\ trace_idx # total_trace
  /\ trace_idx' = trace_idx + 1 /\ UNCHANGED index
  /\ count' = count + 1 /\ UNCHANGED pc
generate ==
  /\ pc = "generate"
  /\ \/ count < NB_BURST /\ (wrap_last \/ wrap \/ generate_mbuf)
     \/ count = NB_BURST /\ pc' = "tx" /\ UNCHANGED <<trace_idx, index, count>>
  /\ UNCHANGED <<total_trace, pkt_times, ret, sended, loaded, restarts, restarted>>

(* rte_eth_tx_burst takes any part of the burst; trace_idx is read. *)
rte_eth_tx_burst(n) ==
  /\ pc = "tx"
  /\ ret' = n
  /\ loaded' = trace_idx
  /\ pc' = "adjust"
  /\ UNCHANGED <<total_trace, pkt_times, trace_idx, index, count, sended, restarts, restarted>>

rewound_whole(i) == (i + total_trace) % total_trace
(* (trace_idx + total_trace - count + ret) % total_trace in uint32_t. *)
rewound(i) == ((i + total_trace - count + ret) % UINT) % total_trace

(* trace_idx is wound back and the packets are counted. *)
adjust ==
  /\ pc = "adjust"
  /\ trace_idx' = rewound(loaded)
  /\ sended' = (sended + ret) % UINT
  /\ loaded' = 0
  /\ pc' = "check"
  /\ UNCHANGED <<total_trace, pkt_times, index, count, ret, restarts, restarted>>

finished_exactly == (total_trace * pkt_times) % UINT = sended
(* total_trace * pkt_times <= sended in uint32_t. *)
finished == (total_trace * pkt_times) % UINT <= sended

(* The refused packets are freed; the program ends when all were sent. *)
check ==
  /\ pc = "check"
  /\ pc' = IF finished THEN "exit" ELSE "generate"
  /\ count' = 0 /\ ret' = 0
  /\ UNCHANGED <<total_trace, pkt_times, trace_idx, index, sended, loaded, restarts, restarted>>

(* The master core starts a round of the rate search. *)
lc_args_reset ==
  /\ pc # "exit" /\ restarts < MaxRestarts
  /\ restarts' = restarts + 1
  /\ trace_idx' = 0
  /\ restarted' = TRUE
  /\ UNCHANGED <<pc, total_trace, pkt_times, index, count, ret, sended, loaded>>

send_pkt_rate ==
  \/ generate
  \/ \E n \in 0 .. count : rte_eth_tx_burst(n)
  \/ adjust
  \/ check

Next == send_pkt_rate \/ lc_args_reset

(* The timer keeps firing, and the NIC drains its ring: of the bursts      *)
(* offered again and again some are taken whole.                           *)
Fairness ==
  /\ WF_vars(send_pkt_rate)
  /\ SF_vars(rte_eth_tx_burst(count) /\ count > 0)
Spec == Init /\ [][Next]_vars /\ Fairness
-----------------------------------------------------------------------------
(* The rounds that main runs concurrently never move the packet to be      *)
(* generated out of the trace (pms[trace_idx]).                            *)
InTrace ==
  /\ trace_idx \in 0 .. total_trace
  /\ pc = "generate" /\ count = 0 => trace_idx # total_trace

(* A trace of at least a burst is sent in order, none of its packets       *)
(* skipped or repeated, however the NIC cuts the bursts and however often  *)
(* the wind back crosses the end of the trace, until main restarts it.     *)
InOrder ==
  pc = "generate" /\ count = 0 /\ ~restarted /\ total_trace >= NB_BURST =>
    trace_idx = sended % total_trace

(* The program stops within one burst of pkt_times passes: index, which    *)
(* ends the last burst early, may be counted twice for a pass that is      *)
(* wound back, and then never again equals pkt_times.                      *)
StopsWithinBurst == sended < total_trace * pkt_times + NB_BURST

(* The inductive invariant behind InTrace and StopsWithinBurst: a burst    *)
(* starts inside the trace and only while sended is short of the total,    *)
(* and a burst holds at most NB_BURST packets.                             *)
IInv ==
  /\ pc \in {"generate", "tx", "adjust", "check", "exit"}
  /\ total_trace \in Nat \ {0} /\ pkt_times \in Nat \ {0}
  /\ trace_idx \in 0 .. total_trace /\ loaded \in 0 .. total_trace
  /\ count \in 0 .. NB_BURST /\ ret \in 0 .. count /\ sended \in Nat
  /\ (pc = "generate" /\ count = 0) \/ pc = "check" => trace_idx # total_trace
  /\ pc \in {"generate", "tx", "adjust"} =>
       sended = 0 \/ sended < (total_trace * pkt_times) % UINT
  /\ StopsWithinBurst

(* The trace is sent to the end and the program exits ("Completed"),       *)
(* whatever the NIC refuses and wherever main restarts the trace.          *)
Completes == <>(pc = "exit")
=============================================================================

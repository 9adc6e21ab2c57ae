------------------------------ MODULE MCSender ------------------------------
(* The two cores of the packet sender, each against its surroundings: a    *)
(* behaviour is one of the master core's rate search, or one of the slave  *)
(* core's sending, in which the rounds of the master are lc_args_reset.    *)
EXTENDS RateSearch, FiniteSetsExt

CONSTANTS NB_BURST, UINT, Traces, PktTimes, MaxRestarts

VARIABLES
  core,
  slave_pc, total_trace, pkt_times, trace_idx, index, count, ret, sended, loaded, restarts,
  restarted

Slave == INSTANCE PktSender WITH pc <- slave_pc

slave_vars == <<slave_pc, total_trace, pkt_times, trace_idx, index, count, ret, sended, loaded,
                restarts, restarted>>

Started == total_trace = Min(Traces) /\ pkt_times = Min(PktTimes)

SInit ==
  \/ core = "slave" /\ Slave!Init /\ Init /\ capacity = Min(Capacity)
  \/ core = "master" /\ Init /\ Slave!Init /\ Started

OnMaster(A) == core = "master" /\ A /\ UNCHANGED <<core, slave_vars>>
OnSlave(A) == core = "slave" /\ A /\ UNCHANGED <<core, vars>>

SNext == OnMaster(Next) \/ OnSlave(Slave!Next)

all_vars == <<core, vars, slave_vars>>

(* The fairness of RateSearch and of PktSender. *)
SFairness ==
  /\ WF_all_vars(OnMaster(master))
  /\ WF_all_vars(OnSlave(Slave!send_pkt_rate))
  /\ SF_all_vars(OnSlave(Slave!rte_eth_tx_burst(count) /\ count > 0))

SSpec == SInit /\ [][SNext]_all_vars /\ SFairness
-----------------------------------------------------------------------------
(* A trace of at least a burst is sent in order until main restarts it. *)
InOrder == Slave!InOrder

(* The program stops within one burst of pkt_times passes. *)
StopsWithinBurst == Slave!StopsWithinBurst

(* The trace is sent to the end and the program exits. *)
Completes == core = "slave" => Slave!Completes
=============================================================================

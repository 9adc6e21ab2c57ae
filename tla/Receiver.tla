------------------------------ MODULE Receiver ------------------------------
(***************************************************************************)
(* The receiver process: one rx core per port (port_loop, rx_modules) and  *)
(* one stats core (stats_loop, expr_signal).  The rx core collects packets *)
(* until half of rx_bufs is full, hands the batch to every module of the   *)
(* port and then sets the tick of the port when the batch holds a report   *)
(* packet.  The stats core clears the tick and resets every module of the  *)
(* port.  A module owns two buffers: execute reads the active pointer once *)
(* per batch, reset swaps the pointer and then empties the buffer that was *)
(* active.  The cores share ticked, active and the buffers without locks.  *)
(*                                                                         *)
(* A packet is its pktid; a buffer is the set of packets counted in it.    *)
(* done, late and owed are history variables.                              *)
(***************************************************************************)
EXTENDS Integers, Sequences, FiniteSets

CONSTANTS
  NPorts,        \* ports, each with an rx core (2 in main.c)
  NConfigs,      \* modules of each port
  MAX_RX_BURST,  \* slots of rx_bufs
  NIC_BURST,     \* most packets that one rte_eth_rx_burst returns; the code asks for
                 \* rx_burst_size, which is all of MAX_RX_BURST
  RX_DESC,       \* packets that the NIC queue holds
  Report,        \* every Report-th pktid is a report packet (REPORT_THRESHOLD + 1)
  Sent           \* bound: [Port -> packets sent to the port]

Port == 0 .. NPorts - 1   \* in the order of port_modules

ASSUME ReceiverAssumption ==
  /\ NPorts \in Nat \ {0}
  /\ NConfigs \in Nat \ {0}
  /\ MAX_RX_BURST \in Nat \ {0} /\ MAX_RX_BURST % 2 = 0
  /\ NIC_BURST \in Nat \ {0}
  /\ RX_DESC \in Nat \ {0}
  /\ Report \in Nat \ {0}
  /\ Sent \in [Port -> Nat]

Config == 1 .. NConfigs
Buffer == {1, 2}

VARIABLES
  pktid,      \* [Port -> last pktid sent to the port]
  nic,        \* [Port -> packets in the NIC queue]
  rx_bufs,    \* [Port -> packets collected and not yet processed]
  rx_pc,      \* [Port -> where the rx core is]
  rx_m, rx_i, \* [Port -> module and packet it works on]
  rx_local,   \* [Port -> the buffer that execute read from the module]
  rx_packets, \* [Port -> packets processed], in pkt_stats
  ticked,     \* [Port -> BOOLEAN]
  active,     \* [Port -> [Config -> Buffer]]
  buffer,     \* [Port -> [Config -> [Buffer -> packets counted]]]
  st_pc, st_p, st_j, \* where the stats core is: step, port, module
  st_prev,    \* the buffer that reset swapped out
  done,       \* history: [Port -> [Config -> packets of closed epochs]]
  late,       \* history: [Port -> [Config -> packets of batches that a reset cut]]
  owed        \* history: [Port -> a tick was set and no reset has begun since]

rx_vars == <<rx_bufs, rx_pc, rx_m, rx_i, rx_local, rx_packets>>
st_vars == <<st_pc, st_p, st_j, st_prev>>
vars == <<pktid, nic, rx_vars, ticked, active, buffer, st_vars, done, late, owed>>

Init ==
  /\ pktid = [p \in Port |-> 0]
  /\ nic = [p \in Port |-> <<>>]
  /\ rx_bufs = [p \in Port |-> <<>>]
  /\ rx_pc = [p \in Port |-> "burst"]
  /\ rx_m = [p \in Port |-> 1] /\ rx_i = [p \in Port |-> 1]
  /\ rx_local = [p \in Port |-> 1] /\ rx_packets = [p \in Port |-> 0]
  /\ ticked = [p \in Port |-> FALSE]
  /\ active = [p \in Port |-> [j \in Config |-> 1]]
  /\ buffer = [p \in Port |-> [j \in Config |-> [b \in Buffer |-> {}]]]
  /\ st_pc = "ticked" /\ st_p = 0 /\ st_j = 1 /\ st_prev = 1
  /\ done = [p \in Port |-> [j \in Config |-> {}]]
  /\ late = [p \in Port |-> [j \in Config |-> {}]]
  /\ owed = [p \in Port |-> FALSE]
-----------------------------------------------------------------------------
(* A packet reaches the port; the NIC drops it when its queue is full. *)
Arrive(p) ==
  /\ pktid[p] < Sent[p]
  /\ pktid' = [pktid EXCEPT ![p] = @ + 1]
  /\ nic' = IF Len(nic[p]) < RX_DESC
            THEN [nic EXCEPT ![p] = Append(@, pktid[p] + 1)] ELSE nic
  /\ UNCHANGED <<rx_vars, ticked, active, buffer, st_vars, done, late, owed>>

(* port_loop: one rte_eth_rx_burst; rx_func runs when half of rx_bufs is   *)
(* in use.  Nothing keeps the burst within rx_bufs: here the packets are a *)
(* sequence, which may outgrow it.                                         *)
burst(p) == IF Len(nic[p]) < NIC_BURST THEN Len(nic[p]) ELSE NIC_BURST
port_loop(p) ==
  LET bufs == rx_bufs[p] \o SubSeq(nic[p], 1, burst(p))
  IN /\ rx_pc[p] = "burst"
     /\ burst(p) > 0
     /\ nic' = [nic EXCEPT ![p] = SubSeq(@, burst(p) + 1, Len(@))]
     /\ rx_bufs' = [rx_bufs EXCEPT ![p] = bufs]
     /\ IF Len(bufs) >= MAX_RX_BURST \div 2
        THEN /\ rx_pc' = [rx_pc EXCEPT ![p] = "execute"]
             /\ rx_m' = [rx_m EXCEPT ![p] = 1]
        ELSE UNCHANGED <<rx_pc, rx_m>>
     /\ UNCHANGED <<pktid, rx_i, rx_local, rx_packets, ticked, active, buffer, st_vars,
                    done, late, owed>>

(* port_exec_rx_modules, xx_execute: the pointer is read once per batch. *)
execute(p) ==
  /\ rx_pc[p] = "execute"
  /\ rx_local' = [rx_local EXCEPT ![p] = active[p][rx_m[p]]]
  /\ rx_i' = [rx_i EXCEPT ![p] = 1]
  /\ rx_pc' = [rx_pc EXCEPT ![p] = "inc"]
  /\ UNCHANGED <<pktid, nic, rx_bufs, rx_m, rx_packets, ticked, active, buffer, st_vars,
                 done, late, owed>>

(* xx_execute: one packet is counted in the buffer that was read. *)
next_module_same(p) == rx_m[p]
next_module(p) == rx_m[p] + 1
inc(p) ==
  /\ rx_pc[p] = "inc"
  /\ buffer' = [buffer EXCEPT ![p][rx_m[p]][rx_local[p]] = @ \cup {rx_bufs[p][rx_i[p]]}]
  /\ IF rx_i[p] < Len(rx_bufs[p])
     THEN /\ rx_i' = [rx_i EXCEPT ![p] = @ + 1]
          /\ UNCHANGED <<rx_pc, rx_m>>
     ELSE /\ rx_i' = [rx_i EXCEPT ![p] = 1]
          /\ IF rx_m[p] < NConfigs
             THEN /\ rx_pc' = [rx_pc EXCEPT ![p] = "execute"]
                  /\ rx_m' = [rx_m EXCEPT ![p] = next_module(p)]
             ELSE /\ rx_pc' = [rx_pc EXCEPT ![p] = "scan"]
                  /\ UNCHANGED rx_m
  /\ UNCHANGED <<pktid, nic, rx_bufs, rx_local, rx_packets, ticked, active, st_vars,
                 done, late, owed>>

(* rx_modules: after the modules, every packet is looked at for the report *)
(* mark and freed; port_loop then empties rx_bufs.                         *)
emptied_kept(p) == rx_bufs[p]
emptied(p) == <<>>
scan(p) ==
  /\ rx_pc[p] = "scan"
  /\ IF rx_bufs[p][rx_i[p]] % Report = 0
     THEN /\ ticked' = [ticked EXCEPT ![p] = TRUE]
          /\ owed' = [owed EXCEPT ![p] = TRUE]
     ELSE UNCHANGED <<ticked, owed>>
  /\ IF rx_i[p] < Len(rx_bufs[p])
     THEN /\ rx_i' = [rx_i EXCEPT ![p] = @ + 1]
          /\ UNCHANGED <<rx_bufs, rx_pc, rx_packets>>
     ELSE /\ rx_packets' = [rx_packets EXCEPT ![p] = @ + Len(rx_bufs[p])]
          /\ rx_bufs' = [rx_bufs EXCEPT ![p] = emptied(p)]
          /\ rx_pc' = [rx_pc EXCEPT ![p] = "burst"]
          /\ UNCHANGED rx_i
  /\ UNCHANGED <<pktid, nic, rx_m, rx_local, active, buffer, st_vars, done, late>>

rx_core(p) == port_loop(p) \/ execute(p) \/ inc(p) \/ scan(p)
-----------------------------------------------------------------------------
(* expr_signal, one port: has the port ticked? *)
next_port_same == st_p
next_port == (st_p + 1) % NPorts
port_has_ticked ==
  /\ st_pc = "ticked"
  /\ IF ticked[st_p]
     THEN st_pc' = "clear" /\ UNCHANGED st_p
     ELSE st_p' = next_port /\ UNCHANGED st_pc
  /\ UNCHANGED <<pktid, nic, rx_vars, ticked, active, buffer, st_j, st_prev,
                 done, late, owed>>

(* expr_signal: the tick is cleared before the modules are reset. *)
port_clear_tick ==
  /\ st_pc = "clear"
  /\ ticked' = [ticked EXCEPT ![st_p] = FALSE]
  /\ st_j' = 1
  /\ st_pc' = "swap"
  /\ UNCHANGED <<pktid, nic, rx_vars, active, buffer, st_p, st_prev, done, late, owed>>

(* Module reset, first part: the other buffer becomes active. *)
swap ==
  /\ st_pc = "swap"
  /\ st_prev' = active[st_p][st_j]
  /\ active' = [active EXCEPT ![st_p][st_j] = 3 - @]
  /\ st_pc' = "reset"
  /\ owed' = IF st_j = 1 THEN [owed EXCEPT ![st_p] = FALSE] ELSE owed
  /\ UNCHANGED <<pktid, nic, rx_vars, ticked, buffer, st_p, st_j, done, late>>

(* The packets that the rx core still has to count in buffer b. *)
cut(p, j, b) ==
  IF rx_pc[p] = "inc" /\ rx_m[p] = j /\ rx_local[p] = b
  THEN {rx_bufs[p][i] : i \in rx_i[p] .. Len(rx_bufs[p])} ELSE {}

(* Module reset, second part: xx_reset empties the swapped out buffer. *)
emptied_buffer_active == active[st_p][st_j]
emptied_buffer == st_prev
reset ==
  /\ st_pc = "reset"
  /\ done' = [done EXCEPT ![st_p][st_j] = @ \cup buffer[st_p][st_j][emptied_buffer]]
  /\ buffer' = [buffer EXCEPT ![st_p][st_j][emptied_buffer] = {}]
  /\ late' = [late EXCEPT ![st_p][st_j] = @ \cup cut(st_p, st_j, st_prev)]
  /\ IF st_j < NConfigs
     THEN st_j' = st_j + 1 /\ st_pc' = "swap" /\ UNCHANGED st_p
     ELSE st_pc' = "ticked" /\ st_p' = next_port /\ UNCHANGED st_j
  /\ UNCHANGED <<pktid, nic, rx_vars, ticked, active, st_prev, owed>>

stats_core == port_has_ticked \/ port_clear_tick \/ swap \/ reset

Next == stats_core \/ \E p \in Port : Arrive(p) \/ rx_core(p)

(* Each core runs its own endless loop. *)
Fairness == WF_vars(stats_core) /\ \A p \in Port : WF_vars(rx_core(p))

Spec == Init /\ [][Next]_vars /\ Fairness
-----------------------------------------------------------------------------
TypeOK ==
  /\ pktid \in [Port -> Nat]
  /\ nic \in [Port -> Seq(Nat)]
  /\ rx_bufs \in [Port -> Seq(Nat)]
  /\ rx_pc \in [Port -> {"burst", "execute", "inc", "scan"}]
  /\ rx_m \in [Port -> Config]
  /\ rx_i \in [Port -> Nat \ {0}]
  /\ rx_local \in [Port -> Buffer]
  /\ rx_packets \in [Port -> Nat]
  /\ ticked \in [Port -> BOOLEAN]
  /\ active \in [Port -> [Config -> Buffer]]
  /\ buffer \in [Port -> [Config -> [Buffer -> SUBSET Nat]]]
  /\ st_pc \in {"ticked", "clear", "swap", "reset"}
  /\ st_p \in Port /\ st_j \in Config /\ st_prev \in Buffer
  /\ done \in [Port -> [Config -> SUBSET Nat]]
  /\ late \in [Port -> [Config -> SUBSET Nat]]
  /\ owed \in [Port -> BOOLEAN]

(* A burst is appended to less than half of rx_bufs, so rx_bufs never      *)
(* holds half of its slots and a burst more; a packet that a module or the *)
(* scan reads is one that was received.                                    *)
RxBufsBounded ==
  \A p \in Port :
    /\ Len(rx_bufs[p]) < MAX_RX_BURST \div 2 + NIC_BURST
    /\ rx_pc[p] = "burst" => Len(rx_bufs[p]) < MAX_RX_BURST \div 2
    /\ rx_pc[p] \in {"inc", "scan"} => rx_i[p] <= Len(rx_bufs[p])

(* port_loop does not write behind the end of rx_bufs. *)
RxBufsInRange == \A p \in Port : Len(rx_bufs[p]) <= MAX_RX_BURST

(* What this needs of the driver, and the code does not see to: one call   *)
(* returns at most one packet more than half of rx_bufs.                   *)
BurstFits == NIC_BURST <= MAX_RX_BURST \div 2 + 1

(* No tick is lost although the stats core may clear one that was set      *)
(* after it looked: the reset that has not begun yet serves both.          *)
TickNotLost ==
  \A p \in Port : owed[p] =>
    \/ ticked[p]
    \/ st_p = p /\ st_pc \in {"clear", "swap"} /\ (st_pc = "swap" => st_j = 1)

(* Between batches every module has counted exactly the packets that the   *)
(* port statistics count: none is skipped, none is counted twice.          *)
AllCounted ==
  \A p \in Port, j \in Config : rx_pc[p] = "burst" =>
    Cardinality(done[p][j] \cup buffer[p][j][1] \cup buffer[p][j][2]) = rx_packets[p]

InReset(p, j) == st_pc = "reset" /\ st_p = p /\ st_j = j

(* A reset that cuts a batch in two leaves at most that batch behind in    *)
(* the buffer that will become active next; any other leaves it empty.     *)
StaleIsOneBatch ==
  \A p \in Port, j \in Config : ~ InReset(p, j) =>
    LET stale == buffer[p][j][3 - active[p][j]]
    IN /\ stale \subseteq late[p][j]
       /\ Cardinality(stale) < MAX_RX_BURST \div 2 + NIC_BURST

(* Epochs are closed in the order of the packets: a packet is still        *)
(* uncounted in a closed epoch after a younger one was handed over only if *)
(* a reset had cut its batch.                                              *)
EpochOrder ==
  \A p \in Port, j \in Config :
    \A y \in (buffer[p][j][1] \cup buffer[p][j][2]) \ late[p][j] :
      \A x \in done[p][j] : x < y

(* The stats core never empties the buffer that execute would read next. *)
ActiveNeverEmptied ==
  [][\A p \in Port, j \in Config :
       buffer[p][j][active[p][j]] \subseteq buffer'[p][j][active[p][j]]]_vars

(* The inductive invariant: the two properties above, that a batch is not  *)
(* empty, and that the buffer being emptied is the inactive one.           *)
IInv ==
  /\ TypeOK
  /\ RxBufsBounded
  /\ TickNotLost
  /\ \A p \in Port : rx_pc[p] # "burst" => Len(rx_bufs[p]) >= 1
  /\ st_pc = "reset" => st_prev = 3 - active[st_p][st_j]

(* Every tick is followed by a reset of the port. *)
TickServed == \A p \in Port : owed[p] ~> ~ owed[p]

(* A full half of rx_bufs is always processed, and the NIC queue drained;  *)
(* fewer packets may wait in rx_bufs for ever.                             *)
Drained == \A p \in Port : <>[](nic[p] = <<>> /\ rx_pc[p] = "burst")
=============================================================================

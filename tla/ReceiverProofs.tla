--------------------------- MODULE ReceiverProofs ---------------------------
(* Proofs about the receiver, for any number of ports and modules, any     *)
(* burst sizes and any traffic.                                            *)
EXTENDS Receiver, SequenceTheorems, TLAPS

half == MAX_RX_BURST \div 2

LEMMA Half == half \in Nat /\ half >= 1 /\ MAX_RX_BURST = 2 * half
<1>1. MAX_RX_BURST \in Nat \ {0} /\ MAX_RX_BURST % 2 = 0
  BY ReceiverAssumption
<1> QED BY <1>1 DEF half

LEMMA NextPort == ASSUME st_p \in Port PROVE next_port \in Port
BY ReceiverAssumption DEF next_port, Port

THEOREM InitIInv == Init => IInv
<1> SUFFICES ASSUME Init PROVE IInv
  OBVIOUS
<1>1. TypeOK
  BY ReceiverAssumption DEF Init, TypeOK, Port, Config, Buffer
<1>2. RxBufsBounded
  BY Half, ReceiverAssumption DEF Init, RxBufsBounded, half
<1>3. TickNotLost
  BY DEF Init, TickNotLost
<1> QED BY <1>1, <1>2, <1>3 DEF Init, IInv

(* A packet that arrives only changes the NIC queue. *)
LEMMA ArriveStep ==
  ASSUME IInv, NEW p \in Port, Arrive(p)
  PROVE  IInv'
<1>1. TypeOK'
  <2>1. pktid[p] + 1 \in Nat /\ Append(nic[p], pktid[p] + 1) \in Seq(Nat)
    BY AppendProperties DEF IInv, TypeOK
  <2>2. pktid' \in [Port -> Nat] /\ nic' \in [Port -> Seq(Nat)]
    BY <2>1 DEF IInv, TypeOK, Arrive
  <2> QED BY <2>2 DEF IInv, TypeOK, Arrive, rx_vars, st_vars
<1>2. RxBufsBounded' /\ TickNotLost'
  BY DEF IInv, RxBufsBounded, TickNotLost, Arrive, rx_vars, st_vars
<1> QED BY <1>1, <1>2 DEF IInv, Arrive, rx_vars, st_vars

(* Fewer than half of rx_bufs is in use when a burst is asked for. *)
LEMMA PortLoopStep ==
  ASSUME IInv, NEW p \in Port, port_loop(p)
  PROVE  IInv'
<1> DEFINE n == burst(p)
           bufs == rx_bufs[p] \o SubSeq(nic[p], 1, n)
           rest == SubSeq(nic[p], n + 1, Len(nic[p]))
<1>1. nic[p] \in Seq(Nat) /\ rx_bufs[p] \in Seq(Nat)
  BY DEF IInv, TypeOK
<1>2. n \in Nat /\ n >= 1 /\ n <= NIC_BURST /\ n <= Len(nic[p])
  BY <1>1, ReceiverAssumption DEF port_loop, burst
<1>3. SubSeq(nic[p], 1, n) \in Seq(Nat) /\ Len(SubSeq(nic[p], 1, n)) = n
  <2>1. \A i \in 1 .. n : nic[p][i] \in Nat
    BY <1>1, <1>2
  <2> HIDE DEF n
  <2> QED BY <1>2, <2>1, SubSeqProperties
<1>4. rest \in Seq(Nat)
  <2>1. \A i \in n + 1 .. Len(nic[p]) : nic[p][i] \in Nat
    BY <1>1, <1>2
  <2>2. Len(nic[p]) \in Nat
    BY <1>1
  <2> HIDE DEF n
  <2> QED BY <1>2, <2>1, <2>2, SubSeqProperties
<1>5. bufs \in Seq(Nat) /\ Len(bufs) = Len(rx_bufs[p]) + n
  <2> DEFINE s == SubSeq(nic[p], 1, n)
  <2> HIDE DEF s
  <2>1. s \in Seq(Nat) /\ Len(s) = n
    BY <1>3 DEF s
  <2>2. rx_bufs[p] \o s \in Seq(Nat) /\ Len(rx_bufs[p] \o s) = Len(rx_bufs[p]) + Len(s)
    BY <1>1, <2>1, ConcatProperties
  <2> QED BY <2>1, <2>2 DEF s
<1>6. Len(bufs) < half + NIC_BURST /\ Len(bufs) >= 1
  <2>1. Len(rx_bufs[p]) < half /\ Len(rx_bufs[p]) \in Nat
    BY <1>1 DEF IInv, RxBufsBounded, port_loop, half
  <2> HIDE DEF n, bufs
  <2> QED BY <1>2, <1>5, <2>1, Half, ReceiverAssumption
<1>7. /\ rx_bufs' = [rx_bufs EXCEPT ![p] = bufs]
      /\ nic' = [nic EXCEPT ![p] = rest]
      /\ rx_pc[p] = "burst"
      /\ \/ /\ Len(bufs) >= half
            /\ rx_pc' = [rx_pc EXCEPT ![p] = "execute"]
            /\ rx_m' = [rx_m EXCEPT ![p] = 1]
         \/ Len(bufs) < half /\ UNCHANGED <<rx_pc, rx_m>>
      /\ UNCHANGED <<pktid, rx_i, rx_local, rx_packets, ticked, active, buffer,
                     st_pc, st_p, st_j, st_prev, done, late, owed>>
  <2>1. Len(bufs) \in Nat /\ half \in Nat
    BY <1>5, Half
  <2>2. /\ rx_bufs' = [rx_bufs EXCEPT ![p] = bufs]
        /\ nic' = [nic EXCEPT ![p] = rest]
        /\ rx_pc[p] = "burst"
    BY DEF port_loop
  <2>3. UNCHANGED <<pktid, rx_i, rx_local, rx_packets, ticked, active, buffer,
                    st_pc, st_p, st_j, st_prev, done, late, owed>>
    BY DEF port_loop, st_vars
  <2>4. IF Len(bufs) >= half
        THEN /\ rx_pc' = [rx_pc EXCEPT ![p] = "execute"]
             /\ rx_m' = [rx_m EXCEPT ![p] = 1]
        ELSE UNCHANGED <<rx_pc, rx_m>>
    BY DEF port_loop, half
  <2> HIDE DEF n, bufs, rest, half
  <2>5. CASE Len(bufs) >= half
    BY <2>2, <2>3, <2>4, <2>5
  <2>6. CASE Len(bufs) < half
    <3>1. ~ (Len(bufs) >= half)
      BY <2>1, <2>6
    <3> QED BY <2>2, <2>3, <2>4, <2>6, <3>1
  <2> QED BY <2>1, <2>5, <2>6
<1> HIDE DEF n, bufs, rest
<1>8. TypeOK'
  <2>1. nic' \in [Port -> Seq(Nat)] /\ rx_bufs' \in [Port -> Seq(Nat)]
    BY <1>4, <1>5, <1>7 DEF IInv, TypeOK
  <2>2. rx_pc' \in [Port -> {"burst", "execute", "inc", "scan"}]
    BY <1>7 DEF IInv, TypeOK
  <2>3. rx_m' \in [Port -> Config]
    <3>1. 1 \in Config /\ rx_m \in [Port -> Config]
      BY ReceiverAssumption DEF IInv, TypeOK, Config
    <3>2. rx_m' = rx_m \/ rx_m' = [rx_m EXCEPT ![p] = 1]
      BY <1>7
    <3> QED BY <3>1, <3>2
  <2> QED BY <1>7, <2>1, <2>2, <2>3 DEF IInv, TypeOK
<1>9. RxBufsBounded'
  <2> SUFFICES ASSUME NEW q \in Port
               PROVE  /\ Len(rx_bufs'[q]) < MAX_RX_BURST \div 2 + NIC_BURST
                      /\ rx_pc'[q] = "burst" => Len(rx_bufs'[q]) < MAX_RX_BURST \div 2
                      /\ rx_pc'[q] \in {"inc", "scan"} => rx_i'[q] <= Len(rx_bufs'[q])
    BY DEF RxBufsBounded
  <2>1. CASE q = p
    BY <1>6, <1>7, <2>1 DEF IInv, TypeOK, half
  <2>2. CASE q # p
    BY <1>7, <2>2 DEF IInv, TypeOK, RxBufsBounded
  <2> QED BY <2>1, <2>2
<1>10. TickNotLost'
  BY <1>7 DEF IInv, TickNotLost
<1>11. \A q \in Port : rx_pc'[q] # "burst" => Len(rx_bufs'[q]) >= 1
  BY <1>6, <1>7 DEF IInv, TypeOK
<1> QED BY <1>7, <1>8, <1>9, <1>10, <1>11 DEF IInv

LEMMA ExecuteStep ==
  ASSUME IInv, NEW p \in Port, execute(p)
  PROVE  IInv'
<1>1. TypeOK'
  <2>1. active[p][rx_m[p]] \in Buffer
    BY DEF IInv, TypeOK
  <2>2. rx_local' \in [Port -> Buffer]
    BY <2>1 DEF IInv, TypeOK, execute
  <2>3. rx_i' \in [Port -> Nat \ {0}]
    BY DEF IInv, TypeOK, execute
  <2>4. rx_pc' \in [Port -> {"burst", "execute", "inc", "scan"}]
    BY DEF IInv, TypeOK, execute
  <2> QED BY <2>2, <2>3, <2>4 DEF IInv, TypeOK, execute, st_vars
<1>2. RxBufsBounded'
  BY DEF IInv, TypeOK, RxBufsBounded, execute
<1>3. TickNotLost'
  BY DEF IInv, TickNotLost, execute, st_vars
<1> QED BY <1>1, <1>2, <1>3 DEF IInv, TypeOK, execute, st_vars

(* The next packet, the next module, or the scan of the same batch. *)
LEMMA IncStep ==
  ASSUME IInv, NEW p \in Port, inc(p)
  PROVE  IInv'
<1>1. /\ rx_bufs[p] \in Seq(Nat) /\ Len(rx_bufs[p]) \in Nat
      /\ rx_i[p] \in Nat \ {0} /\ rx_i[p] <= Len(rx_bufs[p])
      /\ rx_m[p] \in Config /\ rx_local[p] \in Buffer
  BY DEF IInv, TypeOK, RxBufsBounded, inc
<1>2. \/ /\ rx_i[p] < Len(rx_bufs[p])
         /\ rx_i' = [rx_i EXCEPT ![p] = rx_i[p] + 1]
         /\ rx_pc' = rx_pc /\ rx_m' = rx_m
      \/ /\ rx_i' = [rx_i EXCEPT ![p] = 1]
         /\ rx_m[p] < NConfigs
         /\ rx_pc' = [rx_pc EXCEPT ![p] = "execute"]
         /\ rx_m' = [rx_m EXCEPT ![p] = rx_m[p] + 1]
      \/ /\ rx_i' = [rx_i EXCEPT ![p] = 1]
         /\ rx_pc' = [rx_pc EXCEPT ![p] = "scan"] /\ rx_m' = rx_m
  BY DEF inc, next_module
<1>3. /\ rx_pc[p] = "inc"
      /\ UNCHANGED <<pktid, nic, rx_bufs, rx_local, rx_packets, ticked, active,
                     st_pc, st_p, st_j, st_prev, done, late, owed>>
  BY DEF inc, st_vars
<1>4. buffer' \in [Port -> [Config -> [Buffer -> SUBSET Nat]]]
  <2> DEFINE x == rx_bufs[p][rx_i[p]]
  <2>1. x \in Nat
    BY <1>1
  <2>2. buffer' = [buffer EXCEPT ![p][rx_m[p]][rx_local[p]] = @ \cup {x}]
    BY DEF inc
  <2> HIDE DEF x
  <2>3. buffer[p][rx_m[p]][rx_local[p]] \cup {x} \in SUBSET Nat
    BY <1>1, <2>1 DEF IInv, TypeOK
  <2> QED BY <1>1, <2>2, <2>3 DEF IInv, TypeOK
<1>5. TypeOK'
  <2>1. rx_m' \in [Port -> Config]
    <3>1. rx_m[p] < NConfigs => rx_m[p] + 1 \in Config
      BY <1>1, ReceiverAssumption DEF Config
    <3>2. rx_m \in [Port -> Config]
      BY DEF IInv, TypeOK
    <3> QED BY <1>2, <3>1, <3>2
  <2>2. rx_i' \in [Port -> Nat \ {0}]
    <3>1. rx_i \in [Port -> Nat \ {0}] /\ rx_i[p] + 1 \in Nat \ {0} /\ 1 \in Nat \ {0}
      BY <1>1 DEF IInv, TypeOK
    <3> QED BY <1>2, <3>1
  <2>3. rx_pc' \in [Port -> {"burst", "execute", "inc", "scan"}]
    BY <1>2 DEF IInv, TypeOK
  <2> QED BY <1>3, <1>4, <2>1, <2>2, <2>3 DEF IInv, TypeOK
<1>6. RxBufsBounded'
  <2> SUFFICES ASSUME NEW q \in Port
               PROVE  /\ Len(rx_bufs'[q]) < MAX_RX_BURST \div 2 + NIC_BURST
                      /\ rx_pc'[q] = "burst" => Len(rx_bufs'[q]) < MAX_RX_BURST \div 2
                      /\ rx_pc'[q] \in {"inc", "scan"} => rx_i'[q] <= Len(rx_bufs'[q])
    BY DEF RxBufsBounded
  <2>1. CASE q = p
    BY <1>1, <1>2, <1>3, <2>1 DEF IInv, TypeOK, RxBufsBounded
  <2>2. CASE q # p
    BY <1>2, <1>3, <2>2 DEF IInv, TypeOK, RxBufsBounded
  <2> QED BY <2>1, <2>2
<1>7. TickNotLost'
  BY <1>3 DEF IInv, TickNotLost
<1>8. \A q \in Port : rx_pc'[q] # "burst" => Len(rx_bufs'[q]) >= 1
  BY <1>1, <1>2, <1>3 DEF IInv, TypeOK
<1> QED BY <1>3, <1>5, <1>6, <1>7, <1>8 DEF IInv

(* A report packet sets the tick; the last packet of the batch ends it. *)
LEMMA ScanStep ==
  ASSUME IInv, NEW p \in Port, scan(p)
  PROVE  IInv'
<1>1. /\ rx_bufs[p] \in Seq(Nat) /\ Len(rx_bufs[p]) \in Nat
      /\ rx_i[p] \in Nat \ {0} /\ rx_i[p] <= Len(rx_bufs[p])
  BY DEF IInv, TypeOK, RxBufsBounded, scan
<1>2. \/ /\ ticked' = [ticked EXCEPT ![p] = TRUE]
         /\ owed' = [owed EXCEPT ![p] = TRUE]
      \/ UNCHANGED <<ticked, owed>>
  BY DEF scan
<1>3. \/ /\ rx_i[p] < Len(rx_bufs[p])
         /\ rx_i' = [rx_i EXCEPT ![p] = rx_i[p] + 1]
         /\ UNCHANGED <<rx_bufs, rx_pc, rx_packets>>
      \/ /\ rx_packets' = [rx_packets EXCEPT ![p] = rx_packets[p] + Len(rx_bufs[p])]
         /\ rx_bufs' = [rx_bufs EXCEPT ![p] = <<>>]
         /\ rx_pc' = [rx_pc EXCEPT ![p] = "burst"]
         /\ UNCHANGED rx_i
  BY DEF scan, emptied
<1>4. /\ rx_pc[p] = "scan"
      /\ UNCHANGED <<pktid, nic, rx_m, rx_local, active, buffer,
                     st_pc, st_p, st_j, st_prev, done, late>>
  BY DEF scan, st_vars
<1>5. TypeOK'
  <2>1. rx_i' \in [Port -> Nat \ {0}]
    <3>1. rx_i \in [Port -> Nat \ {0}] /\ rx_i[p] + 1 \in Nat \ {0}
      BY <1>1 DEF IInv, TypeOK
    <3> QED BY <1>3, <3>1
  <2>2. rx_bufs' \in [Port -> Seq(Nat)]
    <3>1. <<>> \in Seq(Nat) /\ rx_bufs \in [Port -> Seq(Nat)]
      BY DEF IInv, TypeOK
    <3> QED BY <1>3, <3>1
  <2>3. rx_packets' \in [Port -> Nat]
    <3>1. rx_packets \in [Port -> Nat] /\ rx_packets[p] + Len(rx_bufs[p]) \in Nat
      BY <1>1 DEF IInv, TypeOK
    <3> QED BY <1>3, <3>1
  <2>4. rx_pc' \in [Port -> {"burst", "execute", "inc", "scan"}]
    BY <1>3 DEF IInv, TypeOK
  <2>5. ticked' \in [Port -> BOOLEAN] /\ owed' \in [Port -> BOOLEAN]
    BY <1>2 DEF IInv, TypeOK
  <2> QED BY <1>4, <2>1, <2>2, <2>3, <2>4, <2>5 DEF IInv, TypeOK
<1>6. RxBufsBounded'
  <2> SUFFICES ASSUME NEW q \in Port
               PROVE  /\ Len(rx_bufs'[q]) < MAX_RX_BURST \div 2 + NIC_BURST
                      /\ rx_pc'[q] = "burst" => Len(rx_bufs'[q]) < MAX_RX_BURST \div 2
                      /\ rx_pc'[q] \in {"inc", "scan"} => rx_i'[q] <= Len(rx_bufs'[q])
    BY DEF RxBufsBounded
  <2>1. CASE q = p /\ UNCHANGED rx_bufs
    BY <1>1, <1>3, <1>4, <2>1 DEF IInv, TypeOK, RxBufsBounded
  <2>2. CASE q = p /\ rx_bufs' = [rx_bufs EXCEPT ![p] = <<>>] /\ rx_pc' = [rx_pc EXCEPT ![p] = "burst"]
    <3>1. Len(rx_bufs'[q]) = 0 /\ rx_pc'[q] = "burst"
      BY <2>2 DEF IInv, TypeOK
    <3> QED BY <3>1, Half, ReceiverAssumption DEF half
  <2>3. CASE q # p
    BY <1>3, <1>4, <2>3 DEF IInv, TypeOK, RxBufsBounded
  <2> QED BY <1>3, <2>1, <2>2, <2>3
<1>7. TickNotLost'
  BY <1>2, <1>4 DEF IInv, TypeOK, TickNotLost
<1>8. \A q \in Port : rx_pc'[q] # "burst" => Len(rx_bufs'[q]) >= 1
  BY <1>3, <1>4 DEF IInv, TypeOK
<1> QED BY <1>4, <1>5, <1>6, <1>7, <1>8 DEF IInv

(* The stats core leaves the rx cores' own state alone. *)
LEMMA RxUntouched ==
  ASSUME IInv, UNCHANGED rx_vars
  PROVE  /\ RxBufsBounded'
         /\ \A p \in Port : rx_pc'[p] # "burst" => Len(rx_bufs'[p]) >= 1
BY DEF IInv, RxBufsBounded, rx_vars

LEMMA HasTickedStep ==
  ASSUME IInv, port_has_ticked
  PROVE  IInv'
<1>1. TypeOK'
  BY NextPort DEF IInv, TypeOK, port_has_ticked, rx_vars
<1>2. TickNotLost'
  BY DEF IInv, TypeOK, TickNotLost, port_has_ticked
<1>3. UNCHANGED rx_vars
  BY DEF port_has_ticked
<1> QED BY <1>1, <1>2, <1>3, RxUntouched DEF IInv, TypeOK, port_has_ticked

(* The tick that is cleared here may have been set after it was looked at: *)
(* it is served by the reset that follows.                                 *)
LEMMA ClearTickStep ==
  ASSUME IInv, port_clear_tick
  PROVE  IInv'
<1>1. TypeOK'
  <2>1. 1 \in Config
    BY ReceiverAssumption DEF Config
  <2> QED BY <2>1 DEF IInv, TypeOK, port_clear_tick, rx_vars
<1>2. TickNotLost'
  <2> SUFFICES ASSUME NEW p \in Port, owed'[p]
               PROVE  \/ ticked'[p]
                      \/ /\ st_p' = p /\ st_pc' \in {"clear", "swap"}
                         /\ st_pc' = "swap" => st_j' = 1
    BY DEF TickNotLost
  <2>1. CASE p = st_p
    BY <2>1 DEF port_clear_tick
  <2>2. CASE p # st_p
    BY <2>2 DEF IInv, TypeOK, TickNotLost, port_clear_tick
  <2> QED BY <2>1, <2>2
<1>3. UNCHANGED rx_vars
  BY DEF port_clear_tick
<1> QED BY <1>1, <1>2, <1>3, RxUntouched DEF IInv, TypeOK, port_clear_tick

LEMMA SwapStep ==
  ASSUME IInv, swap
  PROVE  IInv'
<1>1. st_p \in Port /\ st_j \in Config /\ active[st_p][st_j] \in Buffer
  BY DEF IInv, TypeOK
<1>2. 3 - active[st_p][st_j] \in Buffer
  BY <1>1 DEF Buffer
<1>3. active' = [active EXCEPT ![st_p][st_j] = 3 - active[st_p][st_j]]
  BY DEF swap
<1>4. TypeOK'
  <2>1. active' \in [Port -> [Config -> Buffer]]
    BY <1>1, <1>2, <1>3 DEF IInv, TypeOK
  <2>2. owed' \in [Port -> BOOLEAN]
    BY DEF IInv, TypeOK, swap
  <2> QED BY <1>1, <2>1, <2>2 DEF IInv, TypeOK, swap, rx_vars
<1>5. TickNotLost'
  <2> SUFFICES ASSUME NEW p \in Port, owed'[p] PROVE ticked'[p]
    BY DEF TickNotLost
  <2>1. CASE p = st_p
    BY <2>1 DEF IInv, TypeOK, TickNotLost, swap
  <2>2. CASE p # st_p
    BY <2>2 DEF IInv, TypeOK, TickNotLost, swap
  <2> QED BY <2>1, <2>2
<1>6. st_prev' = 3 - active'[st_p'][st_j']
  <2>1. active'[st_p][st_j] = 3 - active[st_p][st_j]
    BY <1>1, <1>3 DEF IInv, TypeOK
  <2>2. st_prev' = active[st_p][st_j] /\ st_p' = st_p /\ st_j' = st_j
    BY DEF swap
  <2> QED BY <1>1, <2>1, <2>2 DEF Buffer
<1>7. UNCHANGED rx_vars
  BY DEF swap
<1> QED BY <1>4, <1>5, <1>6, <1>7, RxUntouched DEF IInv

LEMMA ResetStep ==
  ASSUME IInv, reset
  PROVE  IInv'
<1>1. st_p \in Port /\ st_j \in Config /\ st_prev \in Buffer
  BY DEF IInv, TypeOK
<1>2. buffer' \in [Port -> [Config -> [Buffer -> SUBSET Nat]]]
  <2>1. buffer' = [buffer EXCEPT ![st_p][st_j][st_prev] = {}]
    BY DEF reset, emptied_buffer
  <2> QED BY <1>1, <2>1 DEF IInv, TypeOK
<1>3. done' \in [Port -> [Config -> SUBSET Nat]]
  <2>1. done' = [done EXCEPT ![st_p][st_j] = @ \cup buffer[st_p][st_j][st_prev]]
    BY DEF reset, emptied_buffer
  <2>2. done[st_p][st_j] \cup buffer[st_p][st_j][st_prev] \in SUBSET Nat
    BY <1>1 DEF IInv, TypeOK
  <2> QED BY <1>1, <2>1, <2>2 DEF IInv, TypeOK
<1>4. late' \in [Port -> [Config -> SUBSET Nat]]
  <2> DEFINE c == cut(st_p, st_j, st_prev)
  <2>1. c \in SUBSET Nat
    <3>1. \A i \in rx_i[st_p] .. Len(rx_bufs[st_p]) : rx_bufs[st_p][i] \in Nat
      <4>1. rx_bufs[st_p] \in Seq(Nat) /\ rx_i[st_p] \in Nat \ {0}
        BY <1>1 DEF IInv, TypeOK
      <4> QED BY <4>1
    <3> QED BY <3>1 DEF cut
  <2>2. late' = [late EXCEPT ![st_p][st_j] = @ \cup c]
    BY DEF reset
  <2> HIDE DEF c
  <2>3. late[st_p][st_j] \cup c \in SUBSET Nat
    BY <1>1, <2>1 DEF IInv, TypeOK
  <2> QED BY <1>1, <2>2, <2>3 DEF IInv, TypeOK
<1>5. /\ st_j' \in Config /\ st_p' \in Port /\ st_pc' \in {"ticked", "swap"}
      /\ st_pc' = "swap" => st_p' = st_p /\ st_j' # 1
  <2>1. st_j < NConfigs => st_j + 1 \in Config /\ st_j + 1 # 1
    BY <1>1, ReceiverAssumption DEF Config
  <2> QED BY <1>1, <2>1, NextPort DEF reset
<1>6. UNCHANGED <<pktid, nic, rx_vars, ticked, active, st_prev, owed>>
  BY DEF reset
<1>7. TypeOK'
  BY <1>2, <1>3, <1>4, <1>5, <1>6 DEF IInv, TypeOK, rx_vars
<1>8. TickNotLost'
  <2>1. \A p \in Port : owed[p] => ticked[p]
    BY DEF IInv, TickNotLost, reset
  <2> QED BY <1>6, <2>1 DEF TickNotLost
<1> QED BY <1>5, <1>6, <1>7, <1>8, RxUntouched DEF IInv

LEMMA Stuttering == ASSUME IInv, UNCHANGED vars PROVE IInv'
BY DEF IInv, TypeOK, RxBufsBounded, TickNotLost, vars, rx_vars, st_vars

THEOREM ReceiverInvariant == Spec => []IInv
<1>1. ASSUME IInv, [Next]_vars PROVE IInv'
  <2>1. CASE Next
    <3>1. CASE stats_core
      BY <1>1, <3>1, HasTickedStep, ClearTickStep, SwapStep, ResetStep DEF stats_core
    <3>2. CASE \E p \in Port : Arrive(p) \/ rx_core(p)
      <4>1. PICK p \in Port : Arrive(p) \/ rx_core(p)
        BY <3>2
      <4> QED BY <1>1, <4>1, ArriveStep, PortLoopStep, ExecuteStep, IncStep, ScanStep
              DEF rx_core
    <3> QED BY <2>1, <3>1, <3>2 DEF Next
  <2>2. CASE UNCHANGED vars
    BY <1>1, <2>2, Stuttering
  <2> QED BY <1>1, <2>1, <2>2
<1> QED BY <1>1, InitIInv, PTL DEF Spec

(* Whatever the driver returns, rx_bufs holds less than half of its slots  *)
(* and a burst, and nothing is read that was not received.                 *)
THEOREM RxBufsStayBounded == Spec => []RxBufsBounded
<1>1. IInv => RxBufsBounded
  BY DEF IInv
<1> QED BY <1>1, ReceiverInvariant, PTL

(* No burst is written behind the end of rx_bufs if the driver returns at  *)
(* most one packet more than half of it.                                   *)
THEOREM RxBufsStayInRange == BurstFits => (Spec => []RxBufsInRange)
<1> SUFFICES ASSUME BurstFits PROVE Spec => []RxBufsInRange
  OBVIOUS
<1>1. IInv => RxBufsInRange
  <2> SUFFICES ASSUME IInv, NEW p \in Port PROVE Len(rx_bufs[p]) <= MAX_RX_BURST
    BY DEF RxBufsInRange
  <2>1. Len(rx_bufs[p]) \in Nat /\ Len(rx_bufs[p]) < half + NIC_BURST
    BY DEF IInv, TypeOK, RxBufsBounded, half
  <2>2. NIC_BURST \in Nat /\ NIC_BURST <= half + 1
    BY ReceiverAssumption DEF BurstFits, half
  <2> QED BY <2>1, <2>2, Half
<1> QED BY <1>1, ReceiverInvariant, PTL

(* A tick that the stats core clears unseen is still followed by a reset. *)
THEOREM TicksAreNotLost == Spec => []TickNotLost
<1>1. IInv => TickNotLost
  BY DEF IInv
<1> QED BY <1>1, ReceiverInvariant, PTL

ActiveKept ==
  \A p \in Port, j \in Config :
    buffer[p][j][active[p][j]] \subseteq buffer'[p][j][active[p][j]]

(* Counting only adds packets. *)
LEMMA IncKeeps ==
  ASSUME TypeOK, NEW q \in Port, inc(q)
  PROVE  ActiveKept
<1> DEFINE x == {rx_bufs[q][rx_i[q]]}
<1>1. buffer' = [buffer EXCEPT ![q][rx_m[q]][rx_local[q]] = @ \cup x]
  BY DEF inc
<1> HIDE DEF x
<1> SUFFICES ASSUME NEW p \in Port, NEW j \in Config
             PROVE  buffer[p][j][active[p][j]] \subseteq buffer'[p][j][active[p][j]]
  BY DEF ActiveKept
<1>2. active[p][j] \in Buffer
  BY DEF TypeOK
<1>3. CASE p = q /\ j = rx_m[q] /\ active[p][j] = rx_local[q]
  BY <1>1, <1>2, <1>3 DEF TypeOK
<1>4. CASE ~ (p = q /\ j = rx_m[q] /\ active[p][j] = rx_local[q])
  BY <1>1, <1>2, <1>4 DEF TypeOK
<1> QED BY <1>3, <1>4

(* A reset empties the other buffer. *)
LEMMA ResetKeeps ==
  ASSUME IInv, reset
  PROVE  ActiveKept
<1>1. buffer' = [buffer EXCEPT ![st_p][st_j][st_prev] = {}]
  BY DEF reset, emptied_buffer
<1>2. /\ st_p \in Port /\ st_j \in Config /\ st_prev \in Buffer
      /\ active[st_p][st_j] \in Buffer /\ st_prev = 3 - active[st_p][st_j]
  BY DEF IInv, TypeOK, reset
<1>3. st_prev # active[st_p][st_j]
  BY <1>2 DEF Buffer
<1> SUFFICES ASSUME NEW p \in Port, NEW j \in Config
             PROVE  buffer'[p][j][active[p][j]] = buffer[p][j][active[p][j]]
  BY DEF ActiveKept
<1>4. active[p][j] \in Buffer
  BY DEF IInv, TypeOK
<1> QED BY <1>1, <1>2, <1>3, <1>4 DEF IInv, TypeOK

(* The stats core never empties the buffer that execute reads next. *)
THEOREM ActiveBufferIsKept == Spec => ActiveNeverEmptied
<1>1. ASSUME IInv, [Next]_vars PROVE [ActiveKept]_vars
  <2>1. CASE Next
    <3>1. CASE stats_core
      <4>1. CASE reset
        BY <1>1, <4>1, ResetKeeps
      <4>2. CASE port_has_ticked \/ port_clear_tick \/ swap
        BY <4>2 DEF port_has_ticked, port_clear_tick, swap, ActiveKept
      <4> QED BY <3>1, <4>1, <4>2 DEF stats_core
    <3>2. CASE \E p \in Port : Arrive(p) \/ rx_core(p)
      <4>1. PICK p \in Port : Arrive(p) \/ rx_core(p)
        BY <3>2
      <4>2. CASE inc(p)
        BY <1>1, <4>2, IncKeeps DEF IInv
      <4>3. CASE Arrive(p) \/ port_loop(p) \/ execute(p) \/ scan(p)
        BY <4>3 DEF Arrive, port_loop, execute, scan, ActiveKept
      <4> QED BY <4>1, <4>2, <4>3 DEF rx_core
    <3> QED BY <2>1, <3>1, <3>2 DEF Next
  <2> QED BY <1>1, <2>1
<1> QED BY <1>1, ReceiverInvariant, PTL DEF Spec, ActiveNeverEmptied, ActiveKept
=============================================================================

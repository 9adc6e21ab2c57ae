-------------------------- MODULE RateSearchProofs --------------------------
(***************************************************************************)
(* The rate search of the sender, proved for every interval, every         *)
(* precision and every receiver.                                           *)
(***************************************************************************)
EXTENDS RateSearch, TLAPS

(* The midpoint main computes lies in the interval. *)
LEMMA HalfBetween ==
  ASSUME NEW d \in Nat, NEW u \in Nat, d <= u
  PROVE  /\ half(d, u) \in Nat
         /\ d <= half(d, u) /\ half(d, u) <= u
         /\ u <= half(d, u) + (u - d + 1) \div 2
  BY DEF half

(* The state main starts the search in satisfies the invariant. *)
THEOREM InitIInv == Init => IInv
  <1> SUFFICES ASSUME Init PROVE IInv
    OBVIOUS
  <1>1. half(DOWN_RATE, UP_RATE) \in Nat
    BY RateAssumption, HalfBetween
  <1>2. TypeOK
    BY <1>1, RateAssumption DEF Init, TypeOK
  <1>3. Bracket
    BY RateAssumption DEF Init, Bracket
  <1>4. Measured /\ SettlesLossless
    BY DEF Init, Measured, SettlesLossless, Settled
  <1> QED BY <1>2, <1>3, <1>4 DEF IInv

(* The part of the state that a round of main narrows. *)
LEMMA LowerKeeps ==
  ASSUME IInv, pc = "judge", lost, lower
  PROVE  /\ up_rate' \in Nat /\ down_rate' \in Nat /\ Mbps' \in Nat
         /\ DOWN_RATE <= down_rate' /\ down_rate' <= up_rate' /\ up_rate' <= UP_RATE
         /\ Mbps' = half(down_rate', up_rate')
         /\ ~blind => down_rate' <= DOWN_RATE \/ down_rate' <= capacity
         /\ ~tailed => up_rate' > capacity
  <1>1. down_rate <= Mbps /\ Mbps <= up_rate
    BY HalfBetween DEF IInv, TypeOK, Bracket
  <1>2. half(down_rate, Mbps) \in Nat
    BY <1>1, HalfBetween DEF IInv, TypeOK
  <1> QED BY <1>1, <1>2, RateAssumption DEF IInv, TypeOK, Bracket, Measured, lower

LEMMA RaiseKeeps ==
  ASSUME IInv, pc = "judge", ~lost, raise
  PROVE  /\ up_rate' \in Nat /\ down_rate' \in Nat /\ Mbps' \in Nat
         /\ DOWN_RATE <= down_rate' /\ down_rate' <= up_rate' /\ up_rate' <= UP_RATE
         /\ Mbps' = half(down_rate', up_rate')
         /\ ~blind => down_rate' <= capacity
         /\ ~tailed => up_rate' = UP_RATE \/ up_rate' > capacity
  <1>1. down_rate <= Mbps /\ Mbps <= up_rate
    BY HalfBetween DEF IInv, TypeOK, Bracket
  <1>2. half(Mbps, up_rate) \in Nat
    BY <1>1, HalfBetween DEF IInv, TypeOK
  <1> QED BY <1>1, <1>2, RateAssumption DEF IInv, TypeOK, Bracket, Measured, raise

(* Every step of main and of the receiver keeps the invariant. *)
LEMMA NextKeepsIInv == IInv /\ [Next]_vars => IInv'
  <1> SUFFICES ASSUME IInv, [Next]_vars PROVE IInv'
    OBVIOUS
  <1> USE DEF IInv
  <1>1. CASE print_stats
    BY <1>1, RateAssumption
    DEF print_stats, TypeOK, Bracket, Measured, SettlesLossless, Settled
  <1>2. CASE recv
    <2> USE <1>2
    <2>1. pc = "recv" /\ pc' = "judge" /\ ~Settled
      BY DEF recv, Measured, TypeOK
    <2>2. UNCHANGED <<up_rate, down_rate, Mbps, speed, print_num, first, alive, capacity>>
      BY DEF recv
    <2>3. unread' \in Nat /\ known' \in BOOLEAN /\ lost' \in BOOLEAN
      <3>1. unread' = 0 \/ unread' = unread
        BY DEF recv
      <3>2. (known' = TRUE \/ known' = known) /\ (lost' = TRUE \/ lost' = FALSE)
        BY DEF recv
      <3>3. unread' \in Nat
        BY <3>1 DEF TypeOK
      <3>4. known' \in BOOLEAN /\ lost' \in BOOLEAN
        BY <3>2, Zenon DEF TypeOK
      <3> QED BY <3>3, <3>4
    <2>4. tailed' \in BOOLEAN /\ blind' \in BOOLEAN
      BY DEF recv, TypeOK
    <2>5. (~blind' => ~blind) /\ (~tailed' => ~tailed)
      BY DEF recv
    <2>6. ~blind' /\ ~lost' => speed <= capacity
      BY DEF recv, TypeOK, Measured
    <2>7. ~tailed' /\ lost' => speed > capacity
      BY DEF recv, TypeOK
    <2>8. TypeOK'
      BY <2>1, <2>2, <2>3, <2>4 DEF TypeOK
    <2>9. Bracket'
      BY <2>2, <2>5 DEF Bracket
    <2>10. Measured' /\ SettlesLossless'
      BY <2>1, <2>2, <2>6, <2>7 DEF Measured, SettlesLossless, Settled
    <2> QED BY <2>8, <2>9, <2>10
  <1>3. CASE judge
    <2> USE <1>3
    <2>1. CASE first /\ UNCHANGED <<up_rate, down_rate, Mbps, print_num>>
      BY <2>1 DEF judge, TypeOK, Bracket, Measured, SettlesLossless, Settled
    <2>2. CASE ~first /\ lost /\ lower
      <3>1. ~Settled'
        BY <2>2 DEF judge, lower, Measured, Settled, TypeOK
      <3>2. pc' = "change_rate" /\ first' \in BOOLEAN
        BY DEF judge, TypeOK
      <3>3. UNCHANGED <<speed, known, lost, unread, alive, capacity, tailed, blind, print_num>>
        BY <2>2 DEF judge, lower
      <3>4. pc = "judge"
        BY DEF judge
      <3> QED BY <2>2, <3>1, <3>2, <3>3, <3>4, LowerKeeps
              DEF TypeOK, Bracket, Measured, SettlesLossless
    <2>3. CASE ~first /\ ~lost /\ raise
      <3>1. ~Settled'
        BY <2>3 DEF judge, raise, Measured, Settled, TypeOK
      <3>2. pc' = "change_rate" /\ first' \in BOOLEAN
        BY DEF judge, TypeOK
      <3>3. UNCHANGED <<speed, known, lost, unread, alive, capacity, tailed, blind, print_num>>
        BY <2>3 DEF judge, raise
      <3>4. pc = "judge"
        BY DEF judge
      <3> QED BY <2>3, <3>1, <3>2, <3>3, <3>4, RaiseKeeps
              DEF TypeOK, Bracket, Measured, SettlesLossless
    <2>4. CASE ~first /\ ~lost /\ settle
      BY <2>4 DEF judge, settle, TypeOK, Bracket, Measured, SettlesLossless, Settled
    <2> QED BY <2>1, <2>2, <2>3, <2>4 DEF judge
  <1>4. CASE cmd_change_rate
    BY <1>4, RateAssumption
    DEF cmd_change_rate, TypeOK, Bracket, Measured, SettlesLossless, Settled
  <1>5. CASE Tail
    BY <1>5, RateAssumption DEF Tail, TypeOK, Bracket, Measured, SettlesLossless, Settled
  <1>6. CASE disconnected
    BY <1>6, RateAssumption DEF disconnected, TypeOK, Bracket, Measured, SettlesLossless, Settled
  <1>7. CASE UNCHANGED vars
    BY <1>7 DEF vars, TypeOK, Bracket, Measured, SettlesLossless, Settled
  <1> QED BY <1>1, <1>2, <1>3, <1>4, <1>5, <1>6, <1>7 DEF Next, master

(* The measurements of main stay consistent with the interval it keeps. *)
THEOREM SearchInvariant == Spec => []IInv
  <1> QED BY InitIInv, NextKeepsIInv, PTL DEF Spec

(* The rate that main settles on loses no packets, for every receiver that *)
(* keeps reporting.                                                        *)
THEOREM SettledIsLossless == Spec => []SettlesLossless
  <1>1. IInv => SettlesLossless
    BY DEF IInv
  <1> QED BY <1>1, SearchInvariant, PTL

(* When no misses are attributed to the wrong rate, main settles within    *)
(* half of NEAR of the highest rate without loss.                          *)
THEOREM SettledIsNearMaximum == Spec => []NearMaximum
  <1>1. IInv => NearMaximum
    <2> SUFFICES ASSUME IInv, ~tailed, Settled
                 PROVE  \/ capacity <= Mbps + (NEAR + 1) \div 2
                        \/ UP_RATE <= Mbps + (NEAR + 1) \div 2
      BY DEF NearMaximum, Maximal
    <2>1. up_rate <= Mbps + (up_rate - down_rate + 1) \div 2
      BY HalfBetween DEF IInv, TypeOK, Bracket
    <2>2. up_rate - down_rate <= NEAR
      BY DEF IInv, Measured
    <2>3. (up_rate - down_rate + 1) \div 2 <= (NEAR + 1) \div 2
      BY <2>2, RateAssumption DEF IInv, TypeOK
    <2> QED BY <2>1, <2>3, RateAssumption DEF IInv, TypeOK, Bracket
  <1> QED BY <1>1, SearchInvariant, PTL
=============================================================================

----------------------------- MODULE RateSearch -----------------------------
(***************************************************************************)
(* The master core of the packet sender (main of mypktgen) searches for    *)
(* the highest rate at which the receiver misses nothing.  It halves the   *)
(* interval down_rate .. up_rate on the misses that port_print_stats       *)
(* reports over TCP.                                                       *)
(*                                                                         *)
(* A miss counter is only ever compared with the one of the previous       *)
(* round, so the model keeps the difference, in units of more than 1024    *)
(* packets: unread counts the misses since the report that last_miss came  *)
(* from.  The receiver misses packets exactly while it is sent more than   *)
(* capacity.  tailed and blind are history variables.                      *)
(***************************************************************************)
EXTENDS Integers

CONSTANTS
  UP_RATE, DOWN_RATE,   \* the first interval (10000, 200)
  NEAR,                 \* the interval at which the search settles (100)
  Capacity              \* rates up to which a receiver may keep up

ASSUME RateAssumption ==
  /\ UP_RATE \in Nat /\ DOWN_RATE \in Nat /\ NEAR \in Nat
  /\ DOWN_RATE <= UP_RATE
  /\ Capacity \subseteq Nat

VARIABLES
  pc,                         \* step of the master core
  up_rate, down_rate, Mbps,
  speed,                      \* largs->speed, the rate in use
  print_num,                  \* "two" prints, or "forever" (1 << 30)
  first, known,               \* last_miss = -1, now_miss # -1
  lost,                       \* now_miss - last_miss > 1024
  unread,                     \* units missed since the last report read
  alive,                      \* the receiver still reports
  capacity,                   \* the rate this receiver keeps up with
  tailed,                     \* history: misses of one rate judged another
  blind                       \* history: a round was judged without a report

vars == <<pc, up_rate, down_rate, Mbps, speed, print_num, first, known, lost, unread, alive,
          capacity, tailed, blind>>

half_up(d, u) == (d + u + 1) \div 2
half(d, u) == (d + u) \div 2

Init ==
  /\ pc = "print_stats"
  /\ up_rate = UP_RATE /\ down_rate = DOWN_RATE
  /\ Mbps = half(DOWN_RATE, UP_RATE) /\ speed = half(DOWN_RATE, UP_RATE)
  /\ print_num = "two"
  /\ first = TRUE /\ known = FALSE /\ lost = FALSE /\ unread = 0
  /\ alive = TRUE
  /\ capacity \in Capacity
  /\ tailed = FALSE /\ blind = FALSE

print_stats_short ==
  /\ pc = "print_stats" /\ print_num = "two"
  /\ pc' = "recv"
  /\ UNCHANGED <<up_rate, down_rate, Mbps, speed, print_num, first, known, lost, unread, alive,
                 capacity, tailed, blind>>
(* print_stats sleeps for print_num times PRINT_GAP while the slave sends. *)
print_stats ==
  /\ pc = "print_stats" /\ print_num = "two"
  /\ pc' = "recv"
  /\ unread' = IF alive /\ speed > capacity THEN unread + 1 ELSE unread
  /\ UNCHANGED <<up_rate, down_rate, Mbps, speed, print_num, first, known, lost, alive, capacity,
                 tailed, blind>>

(* Old reports are discarded, then the next one is awaited.  A receiver    *)
(* that is gone leaves now_miss as it was.                                 *)
recv ==
  /\ pc = "recv"
  /\ pc' = "judge"
  /\ \/ /\ alive
        /\ \/ unread = 0 /\ lost' = FALSE /\ UNCHANGED tailed
           \/ unread > 0 /\ lost' = TRUE /\ speed > capacity /\ UNCHANGED tailed
           \/ unread > 0 /\ lost' = TRUE /\ speed <= capacity /\ tailed' = TRUE
        /\ unread' = 0
        /\ known' = TRUE
        /\ UNCHANGED blind
     \/ /\ ~alive
        /\ lost' = FALSE
        /\ blind' = TRUE
        /\ UNCHANGED <<unread, known, tailed>>
  /\ UNCHANGED <<up_rate, down_rate, Mbps, speed, print_num, first, alive, capacity>>

(* The rate lost packets: search below it. *)
lower ==
  /\ up_rate' = Mbps
  /\ Mbps' = half(down_rate, Mbps)
  /\ UNCHANGED <<down_rate, print_num>>

(* The rate lost none: search above it. *)
raise ==
  /\ up_rate - down_rate > NEAR
  /\ down_rate' = Mbps
  /\ Mbps' = half(Mbps, up_rate)
  /\ UNCHANGED <<up_rate, print_num>>

settle_early ==
  /\ up_rate - down_rate <= 4 * NEAR
  /\ print_num' = "forever"
  /\ UNCHANGED <<up_rate, down_rate, Mbps>>
(* The rate lost none and the interval is small: stay. *)
settle ==
  /\ up_rate - down_rate <= NEAR
  /\ print_num' = "forever"
  /\ UNCHANGED <<up_rate, down_rate, Mbps>>

(* The first report has nothing to be compared with. *)
judge ==
  /\ pc = "judge"
  /\ pc' = "change_rate"
  /\ \/ first /\ UNCHANGED <<up_rate, down_rate, Mbps, print_num>>
     \/ ~first /\ lost /\ lower
     \/ ~first /\ ~lost /\ (raise \/ settle)
  /\ first' = ~known
  /\ UNCHANGED <<speed, known, lost, unread, alive, capacity, tailed, blind>>

(* cmd_change_rate: the slave takes the new rate over. *)
cmd_change_rate ==
  /\ pc = "change_rate"
  /\ pc' = "print_stats"
  /\ speed' = Mbps
  /\ UNCHANGED <<up_rate, down_rate, Mbps, print_num, first, known, lost, unread, alive, capacity,
                 tailed, blind>>

(* Between the report and the change of the rate the slave goes on at the  *)
(* old rate.                                                               *)
Tail ==
  /\ pc \in {"judge", "change_rate"}
  /\ alive /\ speed > capacity /\ unread = 0
  /\ unread' = 1
  /\ UNCHANGED <<pc, up_rate, down_rate, Mbps, speed, print_num, first, known, lost, alive, capacity,
                 tailed, blind>>

(* The receiver ends. *)
disconnected ==
  /\ alive
  /\ alive' = FALSE
  /\ UNCHANGED <<pc, up_rate, down_rate, Mbps, speed, print_num, first, known, lost, unread, capacity,
                 tailed, blind>>

master == print_stats \/ recv \/ judge \/ cmd_change_rate
Next == master \/ Tail \/ disconnected

(* The master core is never preempted for good: lcores are pinned, and the *)
(* receiver reports in every round of its stats loop.                      *)
Fairness == WF_vars(master)
Spec == Init /\ [][Next]_vars /\ Fairness
-----------------------------------------------------------------------------
TypeOK ==
  /\ pc \in {"print_stats", "recv", "judge", "change_rate"}
  /\ up_rate \in Nat /\ down_rate \in Nat /\ Mbps \in Nat /\ speed \in Nat
  /\ print_num \in {"two", "forever"}
  /\ first \in BOOLEAN /\ known \in BOOLEAN /\ lost \in BOOLEAN /\ alive \in BOOLEAN
  /\ unread \in Nat /\ capacity \in Nat
  /\ tailed \in BOOLEAN /\ blind \in BOOLEAN

Settled == print_num = "forever"

(* The search settles only on a rate at which the receiver misses nothing, *)
(* whatever misses were attributed to the wrong rate on the way, as long   *)
(* as every round was judged on a report.                                  *)
SettlesLossless == Settled /\ ~blind => Mbps <= capacity

Maximal ==
  Settled => \/ capacity <= Mbps + (NEAR + 1) \div 2
             \/ UP_RATE <= Mbps + (NEAR + 1) \div 2

(* When no misses are attributed to the wrong rate, the rate it settles on *)
(* is within half of NEAR of the highest one the receiver keeps up with.   *)
NearMaximum == ~tailed /\ ~blind => Maximal

(* "Sender will automatically adjust the sending rate to reach the maximum *)
(* value with no packet loss": while the receiver reports, the rate main   *)
(* settles on is within half of NEAR of the highest one.                   *)
ReachesMaximum == ~blind => Maximal

(* Both halves of the interval are justified by a measurement.             *)
Bracket ==
  /\ DOWN_RATE <= down_rate /\ down_rate <= up_rate /\ up_rate <= UP_RATE
  /\ Mbps = half(down_rate, up_rate)
  /\ ~blind => down_rate <= DOWN_RATE \/ down_rate <= capacity
  /\ ~tailed => up_rate = UP_RATE \/ up_rate > capacity

(* What the master core knows at each step. *)
Measured ==
  /\ pc \in {"print_stats", "recv", "judge"} => speed = Mbps
  /\ pc = "recv" /\ alive /\ speed > capacity => unread > 0
  /\ pc = "judge" /\ ~blind /\ ~lost => speed <= capacity
  /\ pc = "judge" /\ ~tailed /\ lost => speed > capacity
  /\ Settled => pc \in {"change_rate", "print_stats"} /\ up_rate - down_rate <= NEAR

(* The inductive invariant of the search: the measurements of main stay    *)
(* consistent with the interval that it keeps.                             *)
IInv == TypeOK /\ Bracket /\ Measured /\ SettlesLossless

(* With a receiver that keeps up with the lowest rate and has reported     *)
(* once, the search of main ends: each later round shrinks the interval.   *)
Settles == known /\ capacity >= DOWN_RATE ~> Settled
=============================================================================

----------------------------- MODULE MCFrontEnd -----------------------------
(* The front end before an exact counter, one count per key, in its two    *)
(* builds, GRR_ALL with flow id 0 among the flows and LRU_ALL without it,  *)
(* and the bucket search of both: a behaviour is one of them, and the      *)
(* state of the others stays as it is initially.                           *)
EXTENDS AggEvict

CONSTANTS KeyValue, flowid   \* the search

VARIABLES
  build,
  lkey, lvalue, lcurpos, lcurkick, lmyclock, ltime_now, lsketch, lstats_search, lreport, lseen,
  lsent,
  last,   \* history: the packet count at the last packet of each flow
  p_key_bucket

CountOf(s, k, v) == [s EXCEPT ![k] = @ + v]
NoCounts == [k \in Flow \cup {0} |-> 0]

LRU == INSTANCE AggEvict WITH
  GRR_ALL <- FALSE,
  key <- lkey, value <- lvalue, curpos <- lcurpos, curkick <- lcurkick, myclock <- lmyclock,
  time_now <- ltime_now, sketch <- lsketch, stats_search <- lstats_search, report <- lreport,
  seen <- lseen, sent <- lsent

SSE == INSTANCE SimdMatch

lru_vars == <<lkey, lvalue, lcurpos, lcurkick, lmyclock, ltime_now, lsketch, lstats_search,
              lreport, lseen, lsent, last>>

FInit ==
  /\ build \in {"grr", "lru", "search"}
  /\ Init
  /\ LRU!Init /\ last = [k \in Key |-> 0]
  /\ SSE!Init

LRUNext ==
  \/ LRU!Reset /\ last' = [k \in Key |-> 0]
  \/ \E f \in Flow \ {0} : LRU!Inc(f) /\ last' = [last EXCEPT ![f] = lstats_search']

FNext ==
  \/ build = "grr" /\ Next /\ UNCHANGED <<build, lru_vars, p_key_bucket>>
  \/ build = "lru" /\ LRUNext /\ UNCHANGED <<build, vars, p_key_bucket>>
  \/ build = "search" /\ SSE!Next /\ UNCHANGED <<build, vars, lru_vars>>

FSpec == FInit /\ [][FNext]_<<build, vars, lru_vars, p_key_bucket>>
-----------------------------------------------------------------------------
Direct == INSTANCE DirectSketch WITH
  IncOne <- LAMBDA s, k : CountOf(s, k, 1),
  HandedOver <- LAMBDA s : {s},
  sketch <- Flushed

LRUDirect == INSTANCE DirectSketch WITH
  IncOne <- LAMBDA s, k : CountOf(s, k, 1),
  HandedOver <- LAMBDA s : {s},
  sketch <- LRU!Flushed, stats_search <- lstats_search, report <- lreport

(* What the front end and the sketch behind it hold together is, after     *)
(* every packet, what the sketch alone would hold, and so is the report at *)
(* the end of an epoch.                                                    *)
ImplementsDirect == Direct!Spec

(* The same of the LRU_ALL build and the flows other than 0. *)
LRUImplementsDirect == LRUDirect!Spec

(* The flow that an eviction of the LRU_ALL build removes is the one of    *)
(* the bucket whose last packet is the oldest, whatever mixture of hits,   *)
(* fills and kicks went before (p_clock_bucket and the min_time search).   *)
LRUVictim ==
  [][\A f \in Flow : LRU!Kick(f) =>
       LET pairs == lkey[LRU!bucket_id(f)]
       IN \A j \in LRU!Slot :
            last[pairs[LRU!kick_index(LRU!bucket_id(f))]] <= last[pairs[j]]]_lru_vars

(* The SSE search of a bucket and the scalar one choose the same slot. *)
SearchesAgree == SSE!SearchesAgree
=============================================================================

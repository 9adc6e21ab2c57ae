------------------------------ MODULE SharedMap ------------------------------
(***************************************************************************)
(* modules/heavyhitter/sharedmap.c: the modules of all ports count in the  *)
(* same two hash maps (g_sh1, g_sh2).  A count is a load and a compare-    *)
(* and-swap, repeated until it succeeds, and a second load that is         *)
(* compared with the threshold.  Each port has its own active pointer and  *)
(* reporter; the reset of a port clears the map that it used, whether or   *)
(* not the others still count in it.  The keys of the rows are copied in   *)
(* one step for a batch: nothing reads them.                               *)
(***************************************************************************)
EXTENDS Integers, SequencesExt

CONSTANTS Key, SIZE, dss_hash(_),
          Port,
          THRESHOLD, REPORTER_SIZE,
          SH_BURST,    \* packets of a batch
          SH_PKTS,     \* bound on the packets received
          SH_RESETS    \* bound on the resets

VARIABLES smap,     \* the two maps
          sactive,  \* [Port -> the active one: 1 or 2]
          srx,      \* [Port -> its rx core: step, packets left, map, loaded count]
          sst,      \* the stats core's reset
          sfound,   \* [Port -> the flows in its reporter]
          ssent,    \* packets received
          slog,     \* history: the packets counted in each map since it was cleared
          sleft     \* history: what the last clearing left in each map

svars == <<smap, sactive, srx, sst, sfound, ssent, slog, sleft>>

HM == INSTANCE HashMap WITH Zero <- 0

RxIdle == [pc |-> "idle", pkts |-> <<>>, h |-> 0, val |-> 0]

heavyhitter_sharedmap_init ==
    /\ smap = <<HM!hashmap_create, HM!hashmap_create>>
    /\ sactive = [p \in Port |-> 1]
    /\ srx = [p \in Port |-> RxIdle]
    /\ sst = [pc |-> "idle", prev |-> 0, resets |-> 0]
    /\ sfound = [p \in Port |-> <<>>]
    /\ ssent = 0
    /\ slog = <<<<>>, <<>>>>
    /\ sleft = smap

\* execute: the rows of the batch are looked up, then counted one by one
Lookup(p) ==
    /\ srx[p].pc = "idle"
    /\ \E pkts \in UNION {[1..n -> Key] : n \in 1..SH_BURST} :
          /\ ssent + Len(pkts) <= SH_PKTS
          /\ ssent' = ssent + Len(pkts)
          /\ smap' = [smap EXCEPT ![sactive[p]] =
                         FoldLeft(LAMBDA t, k : HM!hashmap_get_copy_key(t, k).tbl, @, pkts)]
          /\ srx' = [srx EXCEPT ![p] = [pc |-> "load", pkts |-> pkts, h |-> sactive[p], val |-> 0]]
    /\ UNCHANGED <<sactive, sst, sfound, slog, sleft>>

bc(p) == smap[srx[p].h][HM!home(Head(srx[p].pkts))].val

Load(p) ==
    /\ srx[p].pc = "load"
    /\ srx' = [srx EXCEPT ![p].pc = "swap", ![p].val = bc(p)]
    /\ UNCHANGED <<smap, sactive, sst, sfound, ssent, slog, sleft>>

swaps_always(p) == TRUE
swaps(p) == bc(p) = srx[p].val

compare_and_swap(p) ==
    LET k == Head(srx[p].pkts)
    IN  /\ srx[p].pc = "swap"
        /\ IF swaps(p)
           THEN /\ smap' = [smap EXCEPT ![srx[p].h][HM!home(k)].val = srx[p].val + 1]
                /\ slog' = [slog EXCEPT ![srx[p].h] = Append(@, k)]
                /\ srx' = [srx EXCEPT ![p].pc = "check"]
           ELSE srx' = [srx EXCEPT ![p].pc = "load"] /\ UNCHANGED <<smap, slog>>
        /\ UNCHANGED <<sactive, sst, sfound, ssent, sleft>>

Check(p) ==
    /\ srx[p].pc = "check"
    /\ sfound' = IF bc(p) = THRESHOLD /\ Len(sfound[p]) < REPORTER_SIZE
                 THEN [sfound EXCEPT ![p] = Append(@, Head(srx[p].pkts))] ELSE sfound
    /\ srx' = [srx EXCEPT ![p] = IF Len(@.pkts) = 1 THEN RxIdle
                                 ELSE [@ EXCEPT !.pc = "load", !.pkts = Tail(@)]]
    /\ UNCHANGED <<smap, sactive, sst, ssent, slog, sleft>>

heavyhitter_sharedmap_execute(p) == Lookup(p) \/ Load(p) \/ compare_and_swap(p) \/ Check(p)

\* reset of one port: reporter_tick and the exchange, in one step, and the clearing
Exchange(p) ==
    /\ sst.pc = "idle" /\ sst.resets < SH_RESETS
    /\ sfound' = [sfound EXCEPT ![p] = <<>>]
    /\ sactive' = [sactive EXCEPT ![p] = 3 - @]
    /\ sst' = [pc |-> "clear", prev |-> sactive[p], resets |-> sst.resets + 1]
    /\ UNCHANGED <<smap, srx, ssent, slog, sleft>>

Clear ==
    LET cleared == HM!hashmap_reset(smap[sst.prev])
    IN  /\ sst.pc = "clear"
        /\ smap' = [smap EXCEPT ![sst.prev] = cleared]
        /\ sleft' = [sleft EXCEPT ![sst.prev] = cleared]
        /\ slog' = [slog EXCEPT ![sst.prev] = <<>>]
        /\ sst' = [sst EXCEPT !.pc = "idle", !.prev = 0]
        /\ UNCHANGED <<sactive, srx, sfound, ssent>>

heavyhitter_sharedmap_reset == Clear \/ \E p \in Port : Exchange(p)

SInit == heavyhitter_sharedmap_init
SNext == heavyhitter_sharedmap_reset \/ \E p \in Port : heavyhitter_sharedmap_execute(p)
SSpec == SInit /\ [][SNext]_svars

-----------------------------------------------------------------------------
\* However the ports interleave on a row, and whoever clears the map under
\* them, a row holds one count for every packet that a compare-and-swap has
\* counted in it since the clearing, beyond what the clearing left.
SharedCountsExact ==
    \A b \in 1..2 : \A r \in DOMAIN smap[b] :
        smap[b][r].val =
            sleft[b][r].val + Len(SelectSeq(slog[b], LAMBDA k : HM!home(k) = r))
=============================================================================

----------------------------- MODULE StoreStats -----------------------------
(***************************************************************************)
(* The statistics thread of nbd-vram.c beside the allocator: once a second *)
(* it looks at the heap's gauges and warns, with hysteresis, of a heap     *)
(* that fills up and of one that is committed but empty; every so often it *)
(* reports, for which it walks the extents under g_alloc_mu.               *)
(***************************************************************************)
EXTENDS ExtentAlloc

CONSTANTS NBINS,     \* buckets of fullness in the report
          Full,      \* the levels of warning, in percent (90, 95, 99)
          Calm,      \* below it a warning may be given anew (85)
          FragPct,   \* committed at least this much, with less than FragOcc
          FragOcc,   \*   of it occupied, is fragmentation (75, 50),
          SoundPct,  \*   until less than this is committed
          SoundOcc,  \*   or this much is occupied (65, 60)
          Interval   \* g_stats_interval

ASSUME StatsAssumption ==
  /\ {NBINS, Interval} \subseteq Nat \ {0}
  /\ Full \in [1..3 -> 1..100] /\ Full[1] <= Full[2] /\ Full[2] <= Full[3]
  /\ Calm \in Nat /\ Calm <= Full[1] /\ SoundPct <= FragPct /\ FragOcc <= SoundOcc

VARIABLES warned, frag_warned, tick,  \* of stats_worker
          said                        \* history: the highest level warned of since
                                      \* the heap was last below Calm

stats == <<warned, frag_warned, tick>>

(* The heap's size is that of its extents.                                 *)
Pct(used) == (100 * used) \div NExtents

Level(pct) == IF pct < Full[1] THEN 0 ELSE Max({l \in 1..3 : pct >= Full[l]})

(* heap_occupancy loads two gauges, and nothing holds them still between   *)
(* the loads: any reading, below, between or above the two bounds.         *)
Occupancies == {FragOcc - 1, FragOcc, SoundOcc}

(* A variant without hysteresis.                                           *)
RearmedAtOnce(level, pct) == level < warned

(* The warning may be given anew.                                          *)
Rearmed(level, pct) == level < warned /\ pct < Calm

StatsInit == Init /\ warned = 0 /\ frag_warned = 0 /\ tick = 0 /\ said = 0

(* One turn of the loop.  It reports, which changes nothing, when tick     *)
(* comes to 0.                                                             *)
stats_worker ==
  LET pct == Pct(extents_used)  level == Level(pct) IN
  /\ warned' = IF level > warned \/ Rearmed(level, pct) THEN level ELSE warned
  /\ \E occ \in Occupancies :
       frag_warned' = IF frag_warned = 0
                      THEN IF pct >= FragPct /\ occ < FragOcc THEN 1 ELSE 0
                      ELSE IF pct < SoundPct \/ occ >= SoundOcc THEN 0 ELSE 1
  /\ tick' = IF tick + 1 < Interval THEN tick + 1 ELSE 0
  /\ said' = IF warned' > warned THEN warned' ELSE said
  /\ UNCHANGED vars

Allocate ==
  /\ Next
  /\ said' = IF Pct(extents_used') < Calm THEN 0 ELSE said
  /\ UNCHANGED stats

StatsNext == Allocate \/ stats_worker

StatsSpec == StatsInit /\ [][StatsNext]_<<vars, stats, said>>

-----------------------------------------------------------------------------
(* extents_log.                                                            *)

(* A variant that gives an extent the bucket of its free slots.            *)
ext_bin_free(x) == NBINS - 1 - (x.nfree * NBINS) \div x.nslots

(* The bucket of an extent: 0 is the fullest.                              *)
ext_bin(x) ==
  LET q == ((x.nslots - x.nfree) * NBINS) \div x.nslots
  IN  NBINS - 1 - (IF q >= NBINS THEN NBINS - 1 ELSE q)

InUse   == {e \in Extents : ext[e].used = 1}
Partial == {e \in InUse : ext[e].nfree # 0}

extents_log ==
  [used |-> Cardinality(InUse), partial |-> Partial,
   classes |-> {ext[e].cls : e \in Partial},
   bin |-> [e \in Partial |-> ext_bin(ext[e])]]

-----------------------------------------------------------------------------
(* Properties.                                                             *)

(* A heap found at a level is warned of, once: after each turn a warning   *)
(* of at least its level has been given, and none is given twice unless    *)
(* the heap was well below in between, so that a level that flaps fills no *)
(* journal (stats_worker).                                                 *)
WarnsOnce ==
  [][stats_worker =>
       /\ warned' >= Level(Pct(extents_used))
       /\ warned' > warned => warned' > said]_<<vars, stats, said>>

(* The report agrees with what the allocator keeps: the gauges it divides  *)
(* are exact, and though the rest is derived anew by a walk, its extents   *)
(* in use are those of the gauge, its partial extents those the class      *)
(* lists hold, each in the bucket that says how much of it the slots       *)
(* handed out take (slot_alloc, slot_free, extents_log, ext_bin).          *)
ReportTrue ==
  LET r == extents_log
      listed(c) == LET f == Follow(c) IN {f[k] : k \in 0..NExtents} \ {EXT_NONE}
      taken(e)  == Cardinality({h \in held : h.grain \div EXT_GRAINS = e})
  IN
  /\ HeapGauges
  /\ r.used = extents_used
  /\ r.partial = UNION {listed(c) : c \in Classes}
  /\ r.classes = {c \in Classes : head[c] # EXT_NONE}
  /\ \A e \in r.partial :
       LET b == NBINS - 1 - r.bin[e] IN
       /\ b \in 0..(NBINS - 1)
       /\ (taken(e) * NBINS) \div ext[e].nslots = b

=============================================================================

----------------------------- MODULE StoreGauges -----------------------------
(* The gauges of the statistics line, against the index they summarise.    *)
EXTENDS BlockStore, FiniteSetsExt

(* What a worker between its publish and its bookkeeping has yet to add.   *)
Releasing(w) == pc[w] \in {"release", "trimRelease", "rmwRelease"}

NewLen(w) == IF pc[w] = "trimRelease" THEN 0 ELSE cstage[w][cur[w]].n

Count(n) == IF n = 0 THEN 0 ELSE 1

OwedLive(w) == IF Releasing(w) THEN Count(NewLen(w)) - Count(old[w].clen) ELSE 0

OwedBytes(w) == IF Releasing(w) THEN NewLen(w) - old[w].clen ELSE 0

LiveOf(b) == Count(index[b].clen)

LenOf(b) == index[b].clen

(* g_blocks_live and g_codec_bytes are, at every moment, the number of     *)
(* written blocks and the sum of their lengths less what the workers       *)
(* between publish and bookkeeping owe: however publishes, discards and    *)
(* partial writes race, the gauges never drift (wr_publish, rmw_block,     *)
(* trim_range).                                                            *)
GaugesAgree ==
  /\ live = MapThenSumSet(LiveOf, Blocks) - MapThenSumSet(OwedLive, Workers)
  /\ codec = MapThenSumSet(LenOf, Blocks) - MapThenSumSet(OwedBytes, Workers)

=============================================================================

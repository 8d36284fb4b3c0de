---------------------------- MODULE MCStoreStats ----------------------------
(* A heap of three extents of four grains, slots of one to three grains of *)
(* two bytes: the middle class leaves a whole bitmap word unused, the      *)
(* largest half a word as well.  Two extents in use are worth a warning of *)
(* the second level, three one of the third.                               *)
EXTENDS StoreStats

MCFull == <<60, 66, 99>>

(* What tells states apart.  Nothing else reads the peak or the warning of *)
(* fragmentation, and tick is 0 throughout with an interval of 1.          *)
Told == <<next, prev, head, ext, extents_used, slot_bytes, held, warned, said>>

=============================================================================

---------------------------- MODULE MCBlockStore ----------------------------
(* Small instances of BlockStore.                                          *)
EXTENDS StoreRefinesDevice, StoreGauges, FiniteSets, TLC

CONSTANTS b1, b2

(* Both blocks hash to one stripe lock, the contended case.                *)
OneStripe == [b \in Blocks |-> 1]

(* The page that is all ones does not compress; the others do.             *)
Ones == [h \in Parts |-> 1]
MCCompLen == [p \in AnyPage |-> IF p = Ones THEN CBLK_SIZE ELSE 1]

P(h, t) == ("head" :> h) @@ ("tail" :> t)

Symmetry == Permutations(Workers) \cup Permutations(Slots)

AskOf(cmd, b, p, part, r) ==
  [cmd |-> cmd, blk |-> b, page |-> p, part |-> part, req |-> r]

Read(b, r) == AskOf("READ", b, ZeroPage, {}, r)
Write(b, p, r) == AskOf("WRITE", b, p, Parts, r)
Discard(b) == AskOf("TRIM", b, ZeroPage, {}, 1)
Patch(b, h) == AskOf("RMW", b, Ones, {h}, 1)

PieceOf(skip, asks) ==
  [skip |-> skip,
   asks |-> [i \in Idx |-> IF i <= Len(asks) THEN asks[i] ELSE NoAsk]]

BatchOf(asks) == [via |-> "batch", pieces |-> <<PieceOf(0, asks)>>]
One(pieces) == [via |-> "one", pieces |-> pieces]

(* Readers, writers and discards of two blocks that share two slots.       *)
RaceJobs ==
  {BatchOf(<<Read(b1, 1)>>),
   BatchOf(<<Write(b1, P(1, 1), 1)>>),
   BatchOf(<<Write(b2, P(1, 0), 1)>>),
   One(<<PieceOf(0, <<Discard(b1)>>)>>)}

(* Partial writes of the two parts of one block, against a reader.         *)
PatchJobs ==
  {One(<<PieceOf(0, <<Patch(b1, h)>>)>>) : h \in Parts}
    \cup {One(<<PieceOf(1, <<Read(b1, 1)>>)>>)}

(* Requests of several ops and pieces.  Batches: one request of two blocks, *)
(* two requests on one block, a read behind a write.  The per-request path: *)
(* a misaligned write (head, whole block), one that is streamed in two      *)
(* windows, a read of two windows, a discard of a run.                      *)
RequestJobs ==
  {BatchOf(<<Write(b1, P(1, 1), 1), Write(b2, P(1, 0), 1)>>),
   BatchOf(<<Write(b1, P(1, 1), 1), Read(b1, 2)>>),
   One(<<PieceOf(0, <<Patch(b1, "tail")>>), PieceOf(0, <<Write(b2, P(1, 0), 1)>>)>>),
   One(<<PieceOf(0, <<Write(b1, P(1, 1), 1), Write(b2, P(0, 1), 1)>>),
         PieceOf(1, <<Patch(b1, "head")>>)>>),
   One(<<PieceOf(0, <<Read(b1, 1)>>), PieceOf(1, <<Read(b2, 1)>>)>>),
   One(<<PieceOf(0, <<Discard(b1), Discard(b2)>>)>>)}

(* A block rewritten by one worker while another reads it.                 *)
ChaseJobs ==
  {BatchOf(<<Read(b1, 1)>>), BatchOf(<<Write(b1, P(1, 1), 1)>>),
   One(<<PieceOf(0, <<Discard(b1)>>)>>)}

(* One batched write of two blocks.                                        *)
PairJobs == {BatchOf(<<Write(b1, P(1, 1), 1), Write(b2, P(1, 0), 1)>>)}

=============================================================================

------------------------------ MODULE ByteRange ------------------------------
(***************************************************************************)
(* The arithmetic of nbd-vram.c's per-request path: how handle_one cuts    *)
(* the byte range of a request into windows, and how store_range,          *)
(* load_range and trim_range cut a window into blocks.  Offsets and        *)
(* lengths have a width and wrap, as uint64_t and uint32_t do.  The device *)
(* is the one that start-up settled on.                                    *)
(***************************************************************************)
EXTENDS Startup, Sequences

CONSTANTS LEN_BITS,    \* the width of a length (32); an offset's is SIZE_BITS
          WINDOW       \* LEGACY_WINDOW_BLOCKS

ASSUME RangeAssumption == {WINDOW, LEN_BITS} \subseteq Nat \ {0}

IO_BUF_SIZE == WINDOW * CBLK_SIZE

Offsets == 0..(2^SIZE_BITS - 1)
Lengths == 0..(2^LEN_BITS - 1)
Plus(a, b) == Size(a + b)

VARIABLES cmd, offset, length,  \* the request
          voff, remaining,      \* what is left of it
          pc, error,
          pieces                \* the parts of blocks touched, in order

vars == <<cmd, offset, length, voff, remaining, pc, error, pieces>>

-----------------------------------------------------------------------------

(* A variant that adds first.                                              *)
oob_sum(off, len) == Plus(off, len) > g_disk_size

oob(off, len) == off > g_disk_size \/ len > g_disk_size - off

Smaller(a, b) == IF a < b THEN a ELSE b

(* A variant that cuts anywhere.                                           *)
ChunkAny(off, rest) == Smaller(rest, IO_BUF_SIZE)

(* A variant that goes back to the boundary though the sum has wrapped.    *)
ChunkBack(off, rest) ==
  LET chunk == Smaller(rest, IO_BUF_SIZE)
      sum   == Plus(off, chunk)
      end   == sum - (sum % CBLK_SIZE)
  IN  IF chunk < rest THEN end - off ELSE chunk

(* The next window: all but the last end on a block boundary.              *)
Chunk(off, rest) ==
  LET chunk == Smaller(rest, IO_BUF_SIZE)
      sum   == Plus(off, chunk)
      end   == sum - (sum % CBLK_SIZE)
  IN  IF chunk < rest /\ end > off THEN end - off ELSE chunk

Part(blk, at, cnt) == [blk |-> blk, at |-> at, cnt |-> cnt]

(* The bytes before the first block boundary.                              *)
Edge(off, n) ==
  IF off % CBLK_SIZE # 0 THEN Smaller(CBLK_SIZE - (off % CBLK_SIZE), n) ELSE 0

(* store_range and load_range: a part of a block, whole blocks, a part of  *)
(* one.                                                                    *)
Range(off, n) ==
  LET h    == Edge(off, n)
      off1 == Plus(off, h)
      nb   == (n - h) \div CBLK_SIZE
      off2 == Plus(off1, nb * CBLK_SIZE)
      rest == (n - h) - nb * CBLK_SIZE
  IN  (IF h # 0 THEN <<Part(off \div CBLK_SIZE, off % CBLK_SIZE, h)>> ELSE <<>>)
      \o [i \in 1..nb |-> Part(off1 \div CBLK_SIZE + i - 1, 0, CBLK_SIZE)]
      \o (IF rest # 0 THEN <<Part(off2 \div CBLK_SIZE, 0, rest)>> ELSE <<>>)

(* A variant that starts at the block the range starts in.                 *)
TrimFirstDown(off) == off \div CBLK_SIZE

TrimFirst(off) == Plus(off, CBLK_SIZE - 1) \div CBLK_SIZE

(* trim_range: the blocks the range covers.                                *)
Trimmed(off, len) ==
  LET b0 == TrimFirst(off)
      b1 == Smaller(Plus(off, len) \div CBLK_SIZE, g_nblocks)
  IN  [i \in 1..(b1 - b0) |-> Part(b0 + i - 1, 0, CBLK_SIZE)]

-----------------------------------------------------------------------------
(* handle_one.                                                             *)

Init ==
  /\ StartInit
  /\ cmd = "NONE" /\ offset = 0 /\ length = 0 /\ voff = 0 /\ remaining = 0
  /\ pc = "idle" /\ error = "ok" /\ pieces = <<>>

(* A request, once all the workers serve.                                  *)
Ask ==
  /\ pc = "idle" /\ \A t \in Threads : worker[t] = "serve"
  /\ cmd' \in {"READ", "WRITE", "TRIM"}
  /\ offset' \in Offsets /\ length' \in Lengths
  /\ voff' = offset' /\ remaining' = length'
  /\ pc' = "start"
  /\ UNCHANGED <<error, pieces>>

Start ==
  /\ pc = "start"
  /\ error' = IF oob(offset, length) THEN "EINVAL" ELSE "ok"
  /\ pc' = IF cmd = "TRIM" THEN "trim"
           ELSE IF cmd = "READ" /\ error' # "ok" THEN "done" ELSE "window"
  /\ UNCHANGED <<cmd, offset, length, voff, remaining, pieces>>

(* One window of a READ or a WRITE; that of a WRITE that failed is only    *)
(* received.                                                               *)
Window ==
  LET chunk == Chunk(voff, remaining) IN
  /\ pc = "window" /\ remaining > 0
  /\ pieces' = IF error = "ok" THEN pieces \o Range(voff, chunk) ELSE pieces
  /\ voff' = Plus(voff, chunk)
  /\ remaining' = remaining - chunk
  /\ UNCHANGED <<cmd, offset, length, pc, error>>

Finish ==
  /\ pc = "window" /\ remaining = 0
  /\ pc' = "done"
  /\ UNCHANGED <<cmd, offset, length, voff, remaining, error, pieces>>

Trim ==
  /\ pc = "trim"
  /\ pieces' = IF error = "ok" THEN Trimmed(offset, length) ELSE pieces
  /\ pc' = "done"
  /\ UNCHANGED <<cmd, offset, length, voff, remaining, error>>

(* Nothing is left of the request.                                         *)
Reply ==
  /\ pc = "done"
  /\ cmd' = "NONE" /\ offset' = 0 /\ length' = 0 /\ voff' = 0 /\ remaining' = 0
  /\ pc' = "idle" /\ error' = "ok" /\ pieces' = <<>>

handle_one == Start \/ Window \/ Finish \/ Trim \/ Reply

(* Workers come and go while no request is in hand: what a request         *)
(* computes here is its thread's own.                                      *)
Next ==
  \/ Main /\ UNCHANGED vars
  \/ pc = "idle" /\ (\E t \in Threads : Work(t)) /\ UNCHANGED vars
  \/ (Ask \/ handle_one) /\ UNCHANGED startvars
  \/ main = "exit" /\ UNCHANGED <<vars, startvars>>

(* main and the thread in handle_one run as long as they can.              *)
Spec ==
  /\ Init /\ [][Next]_<<vars, startvars>>
  /\ WF_<<vars, startvars>>(Main /\ UNCHANGED vars)
  /\ WF_<<vars, startvars>>(handle_one /\ UNCHANGED startvars)

-----------------------------------------------------------------------------
(* Properties.                                                             *)

BytesOf(p) == (p.blk * CBLK_SIZE + p.at)..(p.blk * CBLK_SIZE + p.at + p.cnt - 1)
Touched == UNION {BytesOf(pieces[i]) : i \in DOMAIN pieces}
Asked == offset..(offset + length - 1)

(* A request is refused exactly when some byte of it is past the device,   *)
(* for the offsets whose sum with the length wraps as well (oob).          *)
RefusedExactly == pc \notin {"idle", "start"} => (error = "EINVAL" <=> offset + length > g_disk_size)

(* A read or write touches exactly the bytes asked for, and no block       *)
(* twice: the pieces follow one another through the windows, so that a     *)
(* block is never split between two read-modify-writes; nothing outside    *)
(* the device is touched on the way, and no window is larger than the      *)
(* buffer it is staged in (handle_one's chunks, store_range, load_range,   *)
(* worker_init's iobuf).                                                   *)
TouchesExactly ==
  /\ pc = "done" /\ error = "ok" /\ cmd # "TRIM" => Touched = Asked
  /\ \A i, j \in DOMAIN pieces : i < j => pieces[i].blk < pieces[j].blk
  /\ Touched \subseteq 0..(g_disk_size - 1)
  /\ pc = "window" /\ remaining > 0 => Chunk(voff, remaining) <= IO_BUF_SIZE

(* A discard frees exactly the blocks that lie wholly in the range         *)
(* (trim_range).                                                           *)
TrimsWhole ==
  pc = "done" /\ error = "ok" /\ cmd = "TRIM" =>
    Touched = UNION {BytesOf(Part(b, 0, CBLK_SIZE)) :
                       b \in {c \in 0..(g_nblocks - 1) :
                                BytesOf(Part(c, 0, CBLK_SIZE)) \subseteq Asked}}

(* Coming up ends, in the wait for the workers or in an exit, as the       *)
(* retries are bounded and the back-off stops before the size wraps; and   *)
(* the loop over the windows ends for every request (main, handle_one).    *)
Ends ==
  /\ main = "cuda" ~> main \in {"join", "exit"}
  /\ pc = "start" ~> pc = "done"

=============================================================================

----------------------------- MODULE Connection -----------------------------
(***************************************************************************)
(* One client connection of nbd-vram.c, from the handshake on: how         *)
(* handle_client takes requests off the socket, gathers those that are     *)
(* already there into a batch, and answers them.                           *)
(*                                                                         *)
(* A request is two halves of a header, then, for a WRITE, a unit of       *)
(* payload per block; the client pushes these one at a time, so that the   *)
(* server may find any part of a request on the socket.  What the requests *)
(* do to the store is BlockStore's; here it only fails or succeeds.        *)
(***************************************************************************)
EXTENDS Integers, Sequences

CONSTANTS Kinds,              \* the requests the client may send
          MaxSent,            \* how many it sends
          BatchEnabled,       \* g_batch_enabled
          Depth,              \* g_batch_depth
          BATCH_BLOCKS,       \* blocks of the largest request that batches
          MAX_BATCH_COPIES,
          WINDOW              \* LEGACY_WINDOW_BLOCKS, the blocks of iobuf

(* magic: the header is well formed.  n: blocks, the payload of a WRITE.   *)
(* aligned: offset and length are multiples of the block.  oob: the range  *)
(* is not inside the device, for the commands that have one.  OTHER: a     *)
(* command nobody handles, which is answered all the same.                 *)
Kind == [cmd : {"READ", "WRITE", "TRIM", "FLUSH", "DISC", "OTHER"}, n : Nat,
         magic : BOOLEAN, aligned : BOOLEAN, oob : BOOLEAN]

ASSUME ConnectionAssumption ==
  /\ Kinds \subseteq Kind
  /\ \A k \in Kinds : k.oob => k.cmd \in {"READ", "WRITE", "TRIM"}
  /\ MaxSent \in Nat /\ BatchEnabled \in BOOLEAN
  /\ {Depth, BATCH_BLOCKS, MAX_BATCH_COPIES, WINDOW} \subseteq Nat \ {0}
  /\ BATCH_BLOCKS <= WINDOW

Larger(a, b) == IF a < b THEN b ELSE a
Smaller(a, b) == IF a < b THEN a ELSE b

(* worker_init, and the cap handle_client puts on a batch.                 *)
maxops   == Larger(Depth * BATCH_BLOCKS, WINDOW)
copy_cap == Smaller(maxops - BATCH_BLOCKS, MAX_BATCH_COPIES)

VARIABLES
  running,             \* g_running
  closed,              \* the client has closed its end
  sent,                \* the kinds of the requests sent; a request is its place here
  pushing,             \* what is left to push of the last of them
  wire,                \* pushed and not yet received
  pc, head,            \* of the server: where it is, the header it read last
  reqs, nops, trailer, \* the batch
  errs, left, err,     \* the errors of a batch; of handle_one
  taken,               \* history: the requests admitted or handed to handle_one
  replies              \* what the server has sent

client == <<closed, sent, pushing>>
batch  == <<reqs, nops, trailer, errs>>
one    == <<left, err>>
vars   == <<running, client, wire, pc, head, batch, one, taken, replies>>

nreq == Len(reqs)

Init ==
  /\ running = 1
  /\ closed = FALSE /\ sent = <<>> /\ pushing = <<>> /\ wire = <<>>
  /\ pc = "top" /\ head = 0
  /\ reqs = <<>> /\ nops = 0 /\ trailer = 0 /\ errs = <<>>
  /\ left = 0 /\ err = "ok"
  /\ taken = <<>> /\ replies = <<>>

-----------------------------------------------------------------------------
(* The client.                                                             *)

Part(k, i) == [part |-> k, id |-> i]

Frame(kind, i) ==
  <<Part("h1", i), Part("h2", i)>>
    \o [j \in 1..(IF kind.cmd = "WRITE" THEN kind.n ELSE 0) |-> Part("data", i)]

Ask(kind) ==
  /\ ~closed /\ pushing = <<>> /\ Len(sent) < MaxSent
  /\ sent' = Append(sent, kind)
  /\ pushing' = Frame(kind, Len(sent) + 1)
  /\ UNCHANGED <<running, closed, wire, pc, head, batch, one, taken, replies>>

Push ==
  /\ ~closed /\ pushing # <<>>
  /\ wire' = Append(wire, Head(pushing))
  /\ pushing' = Tail(pushing)
  /\ UNCHANGED <<running, closed, sent, pc, head, batch, one, taken, replies>>

Hangup ==
  /\ ~closed
  /\ closed' = TRUE
  /\ UNCHANGED <<running, sent, pushing, wire, pc, head, batch, one, taken, replies>>

(* The program ends (Drain).                                               *)
Stop ==
  /\ running = 1
  /\ running' = 0
  /\ UNCHANGED <<client, wire, pc, head, batch, one, taken, replies>>

-----------------------------------------------------------------------------
(* Receiving.  recv_all waits for all it asked for, or the end.            *)

Goto(l) == pc' = l

Has(k) == Len(wire) >= k
Short(k) == closed /\ Len(wire) < k
Drop(k) == wire' = SubSeq(wire, k + 1, Len(wire))

(* The first k things on the wire are the payload of request i.            *)
Payload(k, i) == \A j \in 1..k : wire[j] = Part("data", i)

(* The wire starts with a header, that of the next request.                *)
HeaderNext == wire[1].part = "h1" /\ wire[2].part = "h2"

of(i) == sent[i]

(* The connection ends: a socket error, or a header of the wrong magic.    *)
Lose(l, k) ==
  /\ pc = l /\ Short(k)
  /\ Goto("lost")
  /\ UNCHANGED <<running, client, wire, head, batch, one, taken, replies>>

(* while (g_running), and the first header of a batch.                     *)
Top ==
  /\ pc = "top"
  /\ Goto(IF running = 1 THEN "first" ELSE "stopped")
  /\ UNCHANGED <<running, client, wire, head, batch, one, taken, replies>>

(* The next two halves as a header.  Whatever else they are has the wrong  *)
(* magic, and so has a header the client got wrong.                        *)
Header(l, next) ==
  /\ pc = l /\ Has(2)
  /\ Drop(2)
  /\ head' = wire[1].id
  /\ Goto(IF ~HeaderNext THEN "misframed"
          ELSE IF ~of(wire[1].id).magic THEN "lost" ELSE next)
  /\ UNCHANGED <<running, client, batch, one, taken, replies>>

-----------------------------------------------------------------------------
(* batch_admit.                                                            *)

Batchable(r) ==
  r.cmd \in {"READ", "WRITE"} /\ r.n # 0 /\ r.n <= BATCH_BLOCKS /\ r.aligned

(* A variant that leaves the payload of a request that is out of bounds.   *)
PayloadDrop(r) == IF r.cmd = "WRITE" /\ ~r.oob THEN r.n ELSE 0

(* The payload is received even when it will not be used.                  *)
PayloadOf(r) == IF r.cmd = "WRITE" THEN r.n ELSE 0

Admit ==
  LET r == of(head) IN
  /\ reqs' = Append(reqs, head)
  /\ errs' = Append(errs, IF r.oob THEN "EINVAL" ELSE "ok")
  /\ nops' = nops + (IF r.oob THEN 0 ELSE r.n)
  /\ taken' = Append(taken, head)

(* What handle_client does with the first header.                          *)
First ==
  LET r == of(head) IN
  /\ pc = "judge"
  /\ \/ /\ r.cmd = "DISC"
        /\ Goto("bye")
        /\ UNCHANGED <<batch, one, taken>>
     \/ /\ r.cmd # "DISC" /\ BatchEnabled /\ Batchable(r)
        /\ Admit /\ Goto("payload")
        /\ UNCHANGED <<trailer, one>>
     \/ /\ r.cmd # "DISC" /\ ~(BatchEnabled /\ Batchable(r))
        /\ Goto("one") /\ left' = r.n /\ err' = IF r.oob THEN "EINVAL" ELSE "ok"
        /\ taken' = Append(taken, head)
        /\ UNCHANGED batch
  /\ UNCHANGED <<running, client, wire, head, replies>>

TakePayload ==
  LET k == PayloadOf(of(head)) IN
  /\ pc = "payload" /\ Has(k)
  /\ Goto(IF Payload(k, head) THEN "gather" ELSE "misframed")
  /\ Drop(k)
  /\ UNCHANGED <<running, client, head, batch, one, taken, replies>>

-----------------------------------------------------------------------------
(* Gathering what is already queued.                                       *)

(* A variant that is off by one.                                           *)
RoomAtMost == nreq <= Depth /\ nops < copy_cap

Room == nreq < Depth /\ nops < copy_cap

(* A variant of recv_hdr_nb that waits for the next request.               *)
GatherWait ==
  /\ pc = "gather" /\ (wire # <<>> \/ closed \/ ~Room)
  /\ Goto(IF Room THEN "more" ELSE "run")
  /\ UNCHANGED <<running, client, wire, head, batch, one, taken, replies>>

(* recv_hdr_nb: nothing queued ends the batch; a header that has begun to  *)
(* arrive is waited for.                                                   *)
Gather ==
  /\ pc = "gather"
  /\ \/ Room /\ wire # <<>> /\ Goto("more")
     \/ Room /\ wire = <<>> /\ closed /\ Goto("lost")
     \/ (Room => wire = <<>> /\ ~closed) /\ Goto("run")
  /\ UNCHANGED <<running, client, wire, head, batch, one, taken, replies>>

(* A variant that handles a request that does not batch at once.           *)
AnotherFirst ==
  LET r == of(head) IN
  /\ pc = "another"
  /\ IF Batchable(r) THEN Admit /\ Goto("payload") /\ UNCHANGED <<trailer, one>>
     ELSE /\ Goto("one") /\ left' = r.n /\ err' = IF r.oob THEN "EINVAL" ELSE "ok"
          /\ taken' = Append(taken, head) /\ UNCHANGED batch
  /\ UNCHANGED <<running, client, wire, head, replies>>

(* The header after the first: one that does not batch ends the batch, and *)
(* is handled after it.                                                    *)
Another ==
  LET r == of(head) IN
  /\ pc = "another"
  /\ \/ /\ r.cmd = "DISC"
        /\ trailer' = 2 /\ Goto("run")
        /\ UNCHANGED <<reqs, nops, errs, taken>>
     \/ /\ r.cmd # "DISC" /\ Batchable(r)
        /\ Admit /\ Goto("payload")
        /\ UNCHANGED trailer
     \/ /\ r.cmd # "DISC" /\ ~Batchable(r)
        /\ trailer' = 1 /\ Goto("run")
        /\ UNCHANGED <<reqs, nops, errs, taken>>
  /\ UNCHANGED <<running, client, wire, head, one, replies>>

-----------------------------------------------------------------------------
(* flush_batch.                                                            *)

(* What preparing, copying and publishing its blocks makes of a request.   *)
Outcomes(i) ==
  IF of(reqs[i]).oob THEN {"EINVAL"}
  ELSE {"ok", "EIO"} \cup (IF of(reqs[i]).cmd = "WRITE" THEN {"ENOSPC"} ELSE {})

Run ==
  /\ pc = "run"
  /\ errs' \in {f \in [1..nreq -> {"ok", "EINVAL", "ENOSPC", "EIO"}] :
                  \A i \in 1..nreq : f[i] \in Outcomes(i)}
  /\ left' = 0
  /\ Goto("reply")
  /\ UNCHANGED <<running, client, wire, head, reqs, nops, trailer, err, taken, replies>>

Answer(i, e, data) == Append(replies, [id |-> i, err |-> e, data |-> data])

(* A variant that sends the pages of a read that failed.                   *)
CarriesAlways(i, e) == of(i).cmd = "READ"

(* The reply to request i is followed by data.                             *)
Carries(i, e) == of(i).cmd = "READ" /\ e = "ok"

(* left counts the replies of the batch that have gone out.                *)
SendReply ==
  /\ pc = "reply" /\ left < nreq
  /\ \/ /\ replies' = Answer(reqs[left + 1], errs[left + 1],
                             Carries(reqs[left + 1], errs[left + 1]))
        /\ left' = left + 1 /\ UNCHANGED pc
     \/ closed /\ Goto("lost") /\ UNCHANGED <<replies, left>>
  /\ UNCHANGED <<running, client, wire, head, batch, err, taken>>

HardErr == \E i \in 1..nreq : errs[i] = "EIO"

RepliesDone == left = nreq

(* All are answered: a failed copy ends the connection, and then comes     *)
(* what ended the batch.                                                   *)
EndFlush ==
  /\ pc = "reply" /\ RepliesDone
  /\ \/ HardErr /\ Goto("reset") /\ UNCHANGED <<left, err, taken>>
     \/ ~HardErr /\ trailer = 0 /\ Goto("top") /\ UNCHANGED <<left, err, taken>>
     \/ ~HardErr /\ trailer = 2 /\ Goto("bye") /\ UNCHANGED <<left, err, taken>>
     \/ /\ ~HardErr /\ trailer = 1
        /\ Goto("one") /\ left' = of(head).n
        /\ err' = IF of(head).oob THEN "EINVAL" ELSE "ok"
        /\ taken' = Append(taken, head)
  /\ reqs' = IF HardErr THEN reqs ELSE <<>>
  /\ errs' = IF HardErr THEN errs ELSE <<>>
  /\ nops' = 0 /\ trailer' = 0
  /\ UNCHANGED <<running, client, wire, head, replies>>

-----------------------------------------------------------------------------
(* handle_one.                                                             *)

Chunk == Smaller(left, WINDOW)

(* One window of a WRITE: received, and stored unless an error came first. *)
OneChunk ==
  /\ pc = "one" /\ of(head).cmd = "WRITE" /\ left > 0 /\ Has(Chunk)
  /\ Drop(Chunk)
  /\ left' = left - Chunk
  /\ err' \in IF err = "ok" THEN {"ok", "ENOSPC", "EIO"} ELSE {err}
  /\ Goto(IF Payload(Chunk, head) THEN "one" ELSE "misframed")
  /\ UNCHANGED <<running, client, head, batch, taken, replies>>

(* The reply; a READ's pages follow it, and one that cannot be read back   *)
(* ends the connection.                                                    *)
OneReply ==
  /\ pc = "one" /\ (of(head).cmd = "WRITE" => left = 0)
  /\ \/ closed /\ Goto("lost") /\ UNCHANGED replies
     \/ /\ err = "EIO"
        /\ Goto("reset") /\ replies' = Answer(head, err, FALSE)
     \/ /\ err # "EIO"
        /\ Goto("top") /\ replies' = Answer(head, err, Carries(head, err))
     \/ /\ Carries(head, err)
        /\ Goto("lost") /\ replies' = Answer(head, err, FALSE)
  /\ left' = 0 /\ err' = "ok"
  /\ UNCHANGED <<running, client, wire, head, batch, taken>>

-----------------------------------------------------------------------------

handle_client ==
  \/ Top \/ Lose("first", 2) \/ Header("first", "judge") \/ First
  \/ Lose("payload", PayloadOf(of(head))) \/ TakePayload
  \/ Gather \/ Lose("more", 2) \/ Header("more", "another") \/ Another
  \/ Run \/ SendReply \/ EndFlush
  \/ Lose("one", Chunk) \/ OneChunk \/ OneReply

Over == pc \in {"bye", "lost", "reset", "stopped"}

(* The connection is over.                                                 *)
Ended == Over /\ UNCHANGED vars

Next ==
  \/ \E kind \in Kinds : Ask(kind)
  \/ Push \/ Hangup \/ Stop
  \/ handle_client
  \/ Ended

Spec == Init /\ [][Next]_vars

-----------------------------------------------------------------------------
(* Properties.                                                             *)

(* The server stays in step with the client: it never takes payload for a  *)
(* header or the payload of one request for that of another, whichever     *)
(* path a request takes and however it fails (batch_admit, handle_one).    *)
FrameAligned == pc # "misframed"

(* Requests are answered in the order they were sent, each once: a FLUSH   *)
(* or TRIM that ends a batch is answered after the writes before it; and   *)
(* before a failed copy resets the connection it is reported, as is every  *)
(* other request of its batch (handle_client's trailer, flush_batch,       *)
(* handle_one).                                                            *)
InOrder ==
  /\ \A i \in DOMAIN replies : replies[i].id = i
  /\ pc = "reset" => /\ Len(replies) = Len(taken)
                     /\ \E i \in DOMAIN replies : replies[i].err = "EIO"

(* What the server sends stays in step too: exactly the successful reads   *)
(* carry data, unless the connection ends there; and a request is refused  *)
(* as out of bounds if and only if it is (flush_batch, handle_one).        *)
RepliesFramed ==
  \A i \in DOMAIN replies :
    LET r == of(replies[i].id)  e == replies[i].err IN
    /\ replies[i].data => r.cmd = "READ" /\ e = "ok"
    /\ r.cmd = "READ" /\ e = "ok" => replies[i].data \/ (i = Len(replies) /\ pc = "lost")
    /\ e = "EINVAL" <=> r.oob

(* A batch fits the arrays worker_init made for it: one struct bop per     *)
(* request, one struct blkop and one staging slot per block.               *)
WithinStaging == nreq <= Depth /\ nops <= maxops

(* Requests the client has finished sending are answered though it sends   *)
(* nothing more, unless the connection ends: the server never waits for    *)
(* requests to make a batch of (recv_hdr_nb).                              *)
EveryRequestAnswered ==
  pushing = <<>> ~> pushing # <<>> \/ Len(replies) = Len(sent) \/ Over

=============================================================================

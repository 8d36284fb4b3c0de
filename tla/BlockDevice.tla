---------------------------- MODULE BlockDevice -----------------------------
(***************************************************************************)
(* What a client of the export may rely on, on every connection at once    *)
(* (NBD_FLAG_CAN_MULTI_CONN): each block is a register.  A write, a        *)
(* partial write or a discard of a block takes effect at one moment        *)
(* between the arrival of its request and the reply; a read returns what   *)
(* its block held at some such moment; an op that failed had no effect;    *)
(* and a request is answered without an error only if all of its ops took  *)
(* effect.                                                                 *)
(***************************************************************************)
EXTENDS Naturals, Sequences

CONSTANTS Clients, Blocks, Idx, Parts, Page, ZeroPage, Jobs, NoAsk

VARIABLES disk,   \* the page each block holds
          mode,   \* "idle"; "job": between pieces; "run": in a piece
          via,    \* the path the job takes
          todo,   \* the pieces of the job that are left
          op,     \* the ops of the current piece and what became of them
          cand,   \* the pages the block of a read held since the piece began
          rerr    \* the errors the job's requests will be answered with

dvars == <<disk, mode, via, todo, op, cand, rerr>>

State == {"todo", "done", "dropped", "ENOSPC", "EIO"}

OpOf(a) == [cmd |-> a.cmd, blk |-> a.blk, page |-> a.page, part |-> a.part,
            req |-> a.req, st |-> "todo"]

Init ==
  /\ disk = [b \in Blocks |-> ZeroPage]
  /\ mode = [c \in Clients |-> "idle"]
  /\ via = [c \in Clients |-> "one"]
  /\ todo = [c \in Clients |-> <<>>]
  /\ op = [c \in Clients |-> [i \in Idx |-> OpOf(NoAsk)]]
  /\ cand = [c \in Clients |-> [i \in Idx |-> {}]]
  /\ rerr = [c \in Clients |-> [i \in Idx |-> "ok"]]

Arrive(c, job) ==
  /\ mode[c] = "idle"
  /\ mode' = [mode EXCEPT ![c] = "job"]
  /\ via' = [via EXCEPT ![c] = job.via]
  /\ todo' = [todo EXCEPT ![c] = job.pieces]
  /\ UNCHANGED <<disk, op, cand, rerr>>

(* Pieces run in order; one marked skip is not run after an error.         *)
Stops(c) == todo[c] # <<>> => Head(todo[c]).skip = 1 /\ rerr[c][1] # "ok"

Begin(c) ==
  /\ mode[c] = "job"
  /\ ~Stops(c)
  /\ LET asks == Head(todo[c]).asks IN
     /\ op' = [op EXCEPT ![c] = [i \in Idx |-> OpOf(asks[i])]]
     /\ cand' = [cand EXCEPT ![c] =
                   [i \in Idx |-> IF asks[i].cmd = "READ"
                                  THEN {disk[asks[i].blk]} ELSE {}]]
  /\ mode' = [mode EXCEPT ![c] = "run"]
  /\ todo' = [todo EXCEPT ![c] = Tail(@)]
  /\ UNCHANGED <<disk, via, rerr>>

Running(c, i, cmds) ==
  mode[c] = "run" /\ op[c][i].cmd \in cmds /\ op[c][i].st = "todo"

(* The other ops of the request op i belongs to.                           *)
Siblings(c, i) == {j \in Idx : j # i /\ op[c][j].cmd # "none"
                               /\ op[c][j].req = op[c][i].req}

(* Block b takes page p, in front of every read in progress.               *)
Put(b, p) ==
  /\ disk' = [disk EXCEPT ![b] = p]
  /\ cand' = [d \in Clients |-> [j \in Idx |->
                IF op[d][j].cmd = "READ" /\ op[d][j].blk = b /\ op[d][j].st # "done"
                THEN cand[d][j] \cup {p} ELSE cand[d][j]]]

(* A batched request that ran out of room applies none of its blocks.      *)
Write(c, i) ==
  LET o == op[c][i] IN
  /\ Running(c, i, {"WRITE", "RMW"})
  /\ via[c] = "batch" => \A j \in Siblings(c, i) : op[c][j].st # "ENOSPC"
  /\ Put(o.blk, [h \in Parts |-> IF h \in o.part THEN o.page[h] ELSE disk[o.blk][h]])
  /\ op' = [op EXCEPT ![c][i].st = "done"]
  /\ UNCHANGED <<mode, via, todo, rerr>>

Discard(c, i) ==
  /\ Running(c, i, {"TRIM"})
  /\ Put(op[c][i].blk, ZeroPage)
  /\ op' = [op EXCEPT ![c][i].st = "done"]
  /\ UNCHANGED <<mode, via, todo, rerr>>

Read(c, i) ==
  /\ Running(c, i, {"READ"})
  /\ \E p \in cand[c][i] :
       op' = [op EXCEPT ![c][i] = [@ EXCEPT !.page = p, !.st = "done"]]
  /\ UNCHANGED <<disk, mode, via, todo, cand, rerr>>

(* An op fails: for lack of room, if it writes, or because a copy failed.  *)
Fail(c, i) ==
  /\ \/ /\ Running(c, i, {"WRITE", "RMW"})
        /\ via[c] = "batch" => \A j \in Siblings(c, i) : op[c][j].st # "done"
        /\ op' = [op EXCEPT ![c][i].st = "ENOSPC"]
     \/ /\ Running(c, i, {"READ", "WRITE", "RMW"})
        /\ op' = [op EXCEPT ![c][i].st = "EIO"]
  /\ UNCHANGED <<disk, mode, via, todo, cand, rerr>>

(* A write of a batch is given up because its request has failed.          *)
Drop(c, i) ==
  /\ Running(c, i, {"WRITE"})
  /\ \E j \in Siblings(c, i) : op[c][j].st \in {"ENOSPC", "EIO"}
  /\ op' = [op EXCEPT ![c][i].st = "dropped"]
  /\ UNCHANGED <<disk, mode, via, todo, cand, rerr>>

(* A request's error: none only if all of its ops are done.                *)
Verdict(c, r) ==
  LET E == {op[c][i].st : i \in {j \in Idx : op[c][j].req = r}} \cup {rerr[c][r]}
  IN  IF "EIO" \in E THEN "EIO" ELSE IF "ENOSPC" \in E THEN "ENOSPC" ELSE "ok"

End(c) ==
  /\ mode[c] = "run"
  /\ \A i \in Idx : op[c][i].cmd # "none" => op[c][i].st # "todo"
  /\ mode' = [mode EXCEPT ![c] = "job"]
  /\ rerr' = [rerr EXCEPT ![c] = [r \in Idx |-> Verdict(c, r)]]
  /\ UNCHANGED <<disk, via, todo, op, cand>>

Answer(c) ==
  /\ mode[c] = "job"
  /\ Stops(c)
  /\ mode' = [mode EXCEPT ![c] = "idle"]
  /\ via' = [via EXCEPT ![c] = "one"]
  /\ todo' = [todo EXCEPT ![c] = <<>>]
  /\ op' = [op EXCEPT ![c] = [i \in Idx |-> OpOf(NoAsk)]]
  /\ cand' = [cand EXCEPT ![c] = [i \in Idx |-> {}]]
  /\ rerr' = [rerr EXCEPT ![c] = [i \in Idx |-> "ok"]]
  /\ UNCHANGED disk

Next ==
  \E c \in Clients :
    \/ \E job \in Jobs : Arrive(c, job)
    \/ Begin(c) \/ End(c) \/ Answer(c)
    \/ \E i \in Idx : Write(c, i) \/ Discard(c, i) \/ Read(c, i) \/ Fail(c, i) \/ Drop(c, i)

Spec == Init /\ [][Next]_dvars

=============================================================================

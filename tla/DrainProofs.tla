---------------------------- MODULE DrainProofs ----------------------------
(***************************************************************************)
(* However signals, threads and clients interleave, no client that was in  *)
(* the table of descriptors when SIGTERM came loses the program before it  *)
(* detaches, and none of them is shut down by the handler, though what the *)
(* handler shuts down may have been closed and given away since it looked. *)
(***************************************************************************)
EXTENDS Drain, TLAPS

-----------------------------------------------------------------------------
(* The invariant.                                                          *)

Serving == {"handshake", "turn", "recv"}
Parting == {"closing", "close"}

Typed ==
  /\ running \in {0, 1} /\ term \in {0, 1}
  /\ fds \in [Threads -> Fds \cup {-1, 0}]
  /\ cfd \in [Threads -> Fds \cup {-1}]
  /\ file \in [Fds -> Conns \cup {NoConn}]
  /\ pc \in [Threads -> {"none", "init", "loop", "ask", "scan", "poll", "accept",
                         "register", "done"} \cup Serving \cup Parting]
  /\ at \in [Actors -> 0..NThreads]
  /\ main \in {"boot", "listen", "join", "stats", "cleanup", "exit"}
  /\ sig \in {"off", "scan", "shut", "call"}
  /\ hfd \in Fds \cup {-1, 0}
  /\ conn \in [Conns -> {"none", "queued", "open", "up", "cut", "lost", "reset", "gone"}]
  /\ shut \subseteq Conns /\ pinned \subseteq Conns

(* What a thread's place says of its descriptor and its entry.             *)
Holds(t) ==
  /\ fds[t] \in Fds => pc[t] \in Serving \cup {"closing"}
  /\ pc[t] \in Serving \cup {"closing"} => fds[t] = cfd[t]
  /\ cfd[t] \in Fds <=> pc[t] \in Serving \cup Parting \cup {"register"}
  /\ cfd[t] \in Fds => file[cfd[t]] \in Conns
  /\ pc[t] \in Parting => conn[file[cfd[t]]] \notin {"open", "up"}

(* A number is one thread's, and a connection has one number.              *)
Own ==
  /\ \A t, u \in Threads : cfd[t] \in Fds /\ cfd[t] = cfd[u] => t = u
  /\ \A d, e \in Fds : file[d] \in Conns /\ file[d] = file[e] => d = e
  /\ \A d \in Fds : file[d] \in Conns => conn[file[d]] \notin {"none", "queued"}

(* Threads run between main's spawn and its joins.                         *)
Joined ==
  /\ main \in {"boot", "listen"} => \A t \in Threads : pc[t] = "none"
  /\ main \in {"stats", "cleanup", "exit"} => \A t \in Threads : pc[t] \in {"none", "done"}

(* Before the first signal nobody drains, shuts down or cuts off; nobody   *)
(* is shut down before the threads have been told to end; and the handler  *)
(* holds a descriptor only between a load and its shutdown().              *)
Calm ==
  /\ sig \in {"shut", "call"} \/ shut # {} => running = 0
  /\ hfd # -1 => sig = "call"
  /\ term = 0 =>
       /\ sig = "off" /\ pinned = {} /\ shut = {}
       /\ \A t \in Threads : pc[t] # "scan"
       /\ running = 1 \/ main \in {"stats", "cleanup", "exit"}
       /\ main # "exit" => \A c \in Conns : conn[c] \notin {"cut", "lost"}

(* The handler has not come past entry t.                                  *)
Unseen(t) == sig \notin {"shut", "call"} /\ (sig = "scan" => at[Handler] <= t)

(* Thread t serves c, and no draining thread has come past it.             *)
Guards(t, c) ==
  /\ Names(fds[t], c) /\ pc[t] \in Serving
  /\ \A u \in Threads : pc[u] = "scan" => at[u] <= t

(* A client that was in the table when the signal came.  It never comes    *)
(* back to the table, and as long as it is there the handler does not end  *)
(* the program, nor a draining thread as long as it is attached.           *)
Kept(c) ==
  /\ conn[c] \notin {"none", "queued", "cut", "lost"}
  /\ c \notin shut /\ ~Names(hfd, c)
  /\ \A t \in Threads : Names(cfd[t], c) => pc[t] # "register"
  /\ \A t \in Threads : Names(fds[t], c) => Unseen(t)
  /\ conn[c] \in {"open", "up"} =>
       running = 1 /\ main = "join" /\ \E t \in Threads : Guards(t, c)

IInv ==
  /\ Typed
  /\ \A t \in Threads : Holds(t)
  /\ Own
  /\ Joined
  /\ Calm
  /\ \A c \in pinned : Kept(c)

-----------------------------------------------------------------------------
(* A worker's steps keep the invariant (thread_worker, handle_client).     *)

Roaming == {"init", "loop", "ask", "scan", "poll", "accept"}

(* A thread without a client goes from one place of its loop to another;   *)
(* it begins a look at the table at the first entry, after the signal.     *)
LEMMA Roams ==
  ASSUME IInv, NEW t \in Threads, NEW l \in (Roaming \cup {"done"}) \ {"init"},
         pc[t] \in Roaming, pc' = [pc EXCEPT ![t] = l],
         at' \in [Actors -> 0..NThreads], \A a \in Actors : a # t => at'[a] = at[a],
         l = "scan" => term = 1 /\ at'[t] = 0,
         UNCHANGED <<running, term, fds, cfd, file, main, sig, hfd, conn, shut, pinned>>
  PROVE  IInv'
  <1> USE DrainAssumption DEF Threads, Actors, Handler, Serving, Parting, Roaming
  <1>1. Typed' /\ pc'[t] = l /\ \A u \in Threads : u # t => pc'[u] = pc[u]
    BY DEF IInv, Typed
  <1>2. main = "join"
    BY DEF IInv, Typed, Joined
  <1>3. Joined' /\ Calm'
    BY <1>1, <1>2 DEF IInv, Joined, Calm
  <1>4. \A u \in Threads : Holds(u)'
    <2>1. Holds(t)'
      BY <1>1 DEF IInv, Holds
    <2>2. ASSUME NEW u \in Threads, u # t PROVE Holds(u)'
      BY <1>1, <2>2 DEF IInv, Holds
    <2> QED
      BY <2>1, <2>2
  <1>5. Own'
    BY DEF IInv, Own
  <1>6. ASSUME NEW c \in pinned' PROVE Kept(c)'
    <2>1. Kept(c)
      BY <1>6 DEF IInv
    <2>2. \A d : Names(d, c)' <=> Names(d, c)
      BY DEF Names
    <2>3. \A u \in Threads : Unseen(u) => Unseen(u)'
      BY DEF Unseen
    <2>4. ASSUME NEW u \in Threads, Guards(u, c) PROVE Guards(u, c)'
      <3>1. u # t /\ pc'[u] = pc[u]
        BY <1>1, <2>4 DEF Guards
      <3>2. ASSUME NEW v \in Threads, pc'[v] = "scan" PROVE at'[v] <= u
        <4>1. CASE v = t
          BY <1>1, <3>2, <4>1
        <4>2. CASE v # t
          BY <1>1, <2>4, <3>2, <4>2 DEF Guards
        <4> QED
          BY <4>1, <4>2
      <3> QED
        BY <2>2, <2>4, <3>1, <3>2 DEF Guards
    <2>5. \A u \in Threads : Names(cfd[u], c)' => pc'[u] # "register"
      BY <1>1, <2>1, <2>2 DEF Kept
    <2> QED
      BY <2>1, <2>2, <2>3, <2>4, <2>5 DEF Kept
  <1> QED
    BY <1>1, <1>3, <1>4, <1>5, <1>6 DEF IInv

(* A thread with a client goes on with it, or ends it.                     *)
LEMMA Serves ==
  ASSUME IInv, NEW t \in Threads, NEW l \in Serving \cup {"closing"},
         NEW v \in {"open", "up", "cut", "lost", "reset", "gone"},
         pc[t] \in Serving, pc' = [pc EXCEPT ![t] = l],
         conn' = [conn EXCEPT ![Client(t)] = v],
         l = "closing" => v \notin {"open", "up"},
         v \in {"open", "up"} => conn[Client(t)] \in {"open", "up"},
         l # "closing" => v \in {"open", "up"} \/ v = conn[Client(t)],
         v \in {"cut", "lost"} =>
           \/ v = conn[Client(t)]
           \/ conn[Client(t)] \in {"open", "up"} /\ (running = 0 \/ Client(t) \in shut),
         UNCHANGED <<running, term, fds, cfd, file, at, main, sig, hfd, shut, pinned>>
  PROVE  IInv'
  <1> USE DrainAssumption DEF Serving, Parting
  <1>1. /\ Client(t) \in Conns /\ fds[t] = cfd[t] /\ cfd[t] \in Fds /\ main = "join"
        /\ conn[Client(t)] \notin {"none", "queued"}
    BY DEF IInv, Typed, Holds, Own, Joined, Client
  <1>2. /\ Typed' /\ pc'[t] = l /\ \A u \in Threads : u # t => pc'[u] = pc[u]
        /\ conn'[Client(t)] = v /\ \A c \in Conns : c # Client(t) => conn'[c] = conn[c]
    BY <1>1 DEF IInv, Typed
  <1>3. Joined'
    BY <1>1 DEF Joined
  <1>4. Calm'
    BY <1>1, <1>2 DEF IInv, Calm
  <1>5. ASSUME NEW u \in Threads, u # t, cfd[u] \in Fds PROVE file[cfd[u]] # Client(t)
    BY <1>1, <1>5 DEF IInv, Own, Client
  <1>6. \A u \in Threads : Holds(u)'
    <2>1. Holds(t)'
      BY <1>1, <1>2 DEF IInv, Holds, Client
    <2>2. ASSUME NEW u \in Threads, u # t PROVE Holds(u)'
      <3>1. cfd[u] \in Fds => conn'[file[cfd[u]]] = conn[file[cfd[u]]]
        BY <1>2, <1>5, <2>2 DEF IInv, Holds
      <3> QED
        BY <1>2, <2>2, <3>1 DEF IInv, Holds
    <2> QED
      BY <2>1, <2>2
  <1>7. Own'
    BY <1>2 DEF IInv, Own
  <1>8. ASSUME NEW c \in pinned' PROVE Kept(c)'
    <2>1. Kept(c) /\ c \in Conns
      BY <1>8 DEF IInv, Typed
    <2>2. \A d : Names(d, c)' <=> Names(d, c)
      BY DEF Names
    <2>3. \A u \in Threads : Unseen(u) => Unseen(u)'
      BY DEF Unseen
    <2>4. \A u \in Threads : Names(cfd[u], c)' => pc'[u] # "register"
      BY <1>2, <2>1, <2>2 DEF Kept
    <2>5. conn'[c] \notin {"none", "queued", "cut", "lost"}
      BY <1>2, <2>1 DEF Kept
    <2>6. ASSUME conn'[c] \in {"open", "up"}, NEW u \in Threads, Guards(u, c) PROVE Guards(u, c)'
      <3>1. pc'[u] \in Serving
        <4>1. CASE u = t
          <5>1. Client(t) = c
            BY <1>1, <2>6, <4>1 DEF Guards, Names, Client
          <5> QED
            BY <1>2, <2>6, <4>1, <5>1
        <4>2. CASE u # t
          BY <1>2, <2>6, <4>2 DEF Guards
        <4> QED
          BY <4>1, <4>2
      <3>2. \A w \in Threads : pc'[w] = "scan" => pc[w] = "scan"
        BY <1>2
      <3> QED
        BY <2>2, <2>6, <3>1, <3>2 DEF Guards
    <2>7. conn'[c] \in {"open", "up"} => conn[c] \in {"open", "up"}
      BY <1>2, <2>1
    <2> QED
      BY <2>1, <2>2, <2>3, <2>4, <2>5, <2>6, <2>7 DEF Kept
  <1> QED
    BY <1>2, <1>3, <1>4, <1>6, <1>7, <1>8 DEF IInv

LEMMA K_WorkerInit ==
  ASSUME IInv, NEW t \in Threads, WorkerInit(t)
  PROVE  IInv'
  BY Roams DEF WorkerInit, Move, Still, Roaming, IInv, Typed

LEMMA K_Loop ==
  ASSUME IInv, NEW t \in Threads, Loop(t)
  PROVE  IInv'
  BY Roams DEF Loop, Move, Still, Roaming, IInv, Typed

(* The loop's counter begins at 0.                                         *)
LEMMA RewindAt ==
  ASSUME Typed, NEW a \in Actors, Rewind(a)
  PROVE  /\ at' \in [Actors -> 0..NThreads] /\ at'[a] = 0
         /\ \A b \in Actors : b # a => at'[b] = at[b]
  BY DrainAssumption DEF Typed, Rewind

LEMMA K_AskTerm ==
  ASSUME IInv, NEW t \in Threads, AskTerm(t)
  PROVE  IInv'
  <1>1. Typed /\ t \in Actors /\ Rewind(t)
    BY DEF IInv, AskTerm, Actors
  <1>2. PICK l \in {"scan", "poll"} : pc' = [pc EXCEPT ![t] = l] /\ (l = "scan" => term = 1)
    BY DEF AskTerm, Move
  <1> QED
    BY <1>1, <1>2, RewindAt, Roams DEF AskTerm, Still, Roaming

LEMMA K_DrainWait ==
  ASSUME IInv, NEW t \in Threads, DrainWait(t)
  PROVE  IInv'
  <1>1. Typed /\ t \in Actors /\ Rewind(t)
    BY DEF IInv, DrainWait, Actors
  <1> QED
    BY <1>1, RewindAt, Roams DEF DrainWait, Move, Still, Roaming

LEMMA K_Poll ==
  ASSUME IInv, NEW t \in Threads, Poll(t)
  PROVE  IInv'
  BY Roams DEF Poll, Move, Still, Roaming, IInv, Typed

LEMMA K_AcceptNone ==
  ASSUME IInv, NEW t \in Threads, AcceptNone(t)
  PROVE  IInv'
  BY Roams DEF AcceptNone, Move, Still, Roaming, IInv, Typed

LEMMA K_DrainLook ==
  ASSUME IInv, NEW t \in Threads, DrainLook(t)
  PROVE  IInv'
  <1> USE DrainAssumption DEF Threads, Actors, Handler, Serving
  <1>1. /\ Typed' /\ at'[t] = at[t] + 1 /\ at[t] \in Threads /\ fds[at[t]] < 0
        /\ \A a \in Actors : a # t => at'[a] = at[a]
    BY DEF IInv, Typed, DrainLook, Look, Still, thread
  <1>2. Joined' /\ Calm' /\ Own' /\ \A u \in Threads : Holds(u)'
    BY DEF IInv, Joined, Calm, Own, Holds, DrainLook, Still, thread
  <1>3. ASSUME NEW c \in pinned' PROVE Kept(c)'
    <2>1. Kept(c)
      BY <1>3 DEF IInv, DrainLook
    <2>2. \A e : Names(e, c)' <=> Names(e, c)
      BY DEF Names, DrainLook, thread
    <2>3. \A u \in Threads : Unseen(u) => Unseen(u)'
      BY <1>1 DEF Unseen, DrainLook, Still
    <2>4. ASSUME NEW u \in Threads, Guards(u, c) PROVE Guards(u, c)'
      <3>1. fds[u] \in Fds /\ at[t] <= u /\ at[t] # u
        BY <1>1, <2>4 DEF Guards, Names, DrainLook, Fds
      <3>2. ASSUME NEW v \in Threads, pc[v] = "scan" PROVE at'[v] <= u
        <4>1. CASE v = t
          BY <1>1, <3>1, <4>1
        <4>2. CASE v # t
          BY <1>1, <2>4, <3>2, <4>2 DEF Guards
        <4> QED
          BY <4>1, <4>2
      <3> QED
        BY <2>2, <2>4, <3>2 DEF Guards, Names, DrainLook, thread
    <2> QED
      BY <2>1, <2>2, <2>3, <2>4 DEF Kept, Names, DrainLook, Still, thread
  <1> QED
    BY <1>1, <1>2, <1>3 DEF IInv

LEMMA K_DrainDone ==
  ASSUME IInv, NEW t \in Threads, DrainDone(t)
  PROVE  IInv'
  <1> USE DrainAssumption DEF Serving, Parting
  <1>1. /\ at' \in [Actors -> 0..NThreads] /\ \A a \in Actors : a # t => at'[a] = at[a]
    BY RewindAt DEF IInv, DrainDone, Actors
  <1>2. /\ pc'[t] = "done" /\ \A u \in Threads : u # t => pc'[u] = pc[u]
    BY DEF IInv, Typed, DrainDone, Move
  <1>3. main = "join" /\ term = 1
    BY DEF IInv, Typed, Joined, Calm, DrainDone
  <1>4. Typed'
    BY <1>1 DEF IInv, Typed, DrainDone, Move, Still
  <1>5. Joined' /\ Calm'
    BY <1>2, <1>3 DEF IInv, Joined, Calm, DrainDone, Still
  <1>6. Own' /\ \A u \in Threads : Holds(u)'
    BY <1>2 DEF IInv, Own, Holds, DrainDone
  <1>7. ASSUME NEW c \in pinned' PROVE Kept(c)'
    <2>1. Kept(c)
      BY <1>7 DEF IInv, DrainDone
    <2>2. ASSUME NEW u \in Threads PROVE ~Guards(u, c)
      BY DEF Guards, DrainDone, NoneLeft, Threads
    <2>3. \A e : Names(e, c)' <=> Names(e, c)
      BY DEF Names, DrainDone
    <2>4. \A u \in Threads : Unseen(u) => Unseen(u)'
      BY <1>1 DEF Unseen, DrainDone, Still, Actors, Handler, Threads
    <2>5. \A u \in Threads : Names(cfd[u], c)' => pc'[u] # "register"
      BY <1>2, <2>1, <2>3 DEF Kept, Names, DrainDone
    <2> QED
      BY <2>1, <2>2, <2>3, <2>4, <2>5 DEF Kept, Names, DrainDone, Still
  <1> QED
    BY <1>4, <1>5, <1>6, <1>7 DEF IInv

LEMMA K_Accept ==
  ASSUME IInv, NEW t \in Threads, Accept(t)
  PROVE  IInv'
  <1> USE DrainAssumption DEF Serving, Parting
  <1>1. PICK q \in Queued, d \in Fds :
          /\ IsLowest(d)
          /\ cfd' = [cfd EXCEPT ![t] = d]
          /\ file' = [file EXCEPT ![d] = q]
          /\ conn' = [conn EXCEPT ![q] = "open"]
    BY DEF Accept
  <1>2. /\ q \in Conns /\ conn[q] = "queued" /\ file[d] = NoConn /\ main = "join"
        /\ \A u \in Threads : cfd[u] # d
        /\ \A e \in Fds : file[e] # q
    BY <1>1 DEF IInv, Typed, Holds, Own, Joined, Queued, IsLowest, Accept
  <1>3. /\ pc'[t] = "register" /\ \A u \in Threads : u # t => pc'[u] = pc[u]
        /\ cfd'[t] = d /\ \A u \in Threads : u # t => cfd'[u] = cfd[u]
    BY <1>1 DEF IInv, Typed, Accept, Move
  <1>4. /\ file'[d] = q /\ \A e \in Fds : e # d => file'[e] = file[e]
        /\ conn'[q] = "open" /\ \A c \in Conns : c # q => conn'[c] = conn[c]
    BY <1>1, <1>2 DEF IInv, Typed
  <1>5. Typed'
    BY <1>1, <1>2 DEF IInv, Typed, Accept, Move, Still
  <1>6. Joined' /\ Calm'
    <2>1. Joined'
      BY <1>2, Zenon DEF Joined, Accept, Still
    <2>2. Calm
      BY Zenon DEF IInv
    <2>3. UNCHANGED <<running, sig, hfd, term, pinned, shut, main>>
      BY Zenon DEF Accept, Still
    <2>4. \A c \in Conns : conn'[c] \in {"cut", "lost"} => conn[c] \in {"cut", "lost"}
      BY <1>4
    <2>5. \A u \in Threads : pc'[u] = "scan" => pc[u] = "scan"
      BY <1>3
    <2> QED
      BY <2>1, <2>2, <2>3, <2>4, <2>5 DEF Calm
  <1>7. ASSUME NEW u \in Threads PROVE Holds(u)'
    <2>1. CASE u = t
      <3>1. fds'[t] \notin Fds
        BY DEF IInv, Holds, Accept
      <3> QED
        BY <1>2, <1>3, <1>4, <2>1, <3>1 DEF Holds
    <2>2. CASE u # t
      <3>1. cfd[u] \in Fds => /\ file'[cfd[u]] = file[cfd[u]]
                              /\ file[cfd[u]] \in Conns => conn'[file[cfd[u]]] = conn[file[cfd[u]]]
        BY <1>2, <1>4
      <3>2. Holds(u) /\ fds'[u] = fds[u] /\ pc'[u] = pc[u] /\ cfd'[u] = cfd[u]
        BY <1>3, <2>2, Zenon DEF IInv, Accept
      <3> QED
        BY <3>1, <3>2 DEF Holds
    <2> QED
      BY <2>1, <2>2
  <1>8. Own'
    <2>1. \A u, v \in Threads : cfd'[u] \in Fds /\ cfd'[u] = cfd'[v] => u = v
      BY <1>2, <1>3 DEF IInv, Own
    <2>2. \A e, f \in Fds : file'[e] \in Conns /\ file'[e] = file'[f] => e = f
      BY <1>2, <1>4 DEF IInv, Own
    <2>3. \A e \in Fds : file'[e] \in Conns => conn'[file'[e]] \notin {"none", "queued"}
      BY <1>2, <1>4 DEF IInv, Own
    <2> QED
      BY <2>1, <2>2, <2>3 DEF Own
  <1>9. ASSUME NEW c \in pinned' PROVE Kept(c)'
    <2>1. Kept(c) /\ c \in Conns
      BY <1>9 DEF IInv, Typed, Accept
    <2>2. c # q /\ conn'[c] = conn[c]
      BY <1>2, <1>4, <2>1 DEF Kept
    <2>3. \A e : Names(e, c)' <=> Names(e, c)
      BY <1>2, <1>4, <2>1, <2>2 DEF Names
    <2>4. \A u \in Threads : Names(cfd[u], c)' => pc'[u] # "register"
      BY <1>3, <1>4, <2>1, <2>2, <2>3 DEF Kept, Names
    <2>5. \A u \in Threads : Unseen(u) => Unseen(u)'
      BY DEF Unseen, Accept, Still
    <2>6. ASSUME NEW u \in Threads, Guards(u, c) PROVE Guards(u, c)'
      <3>1. u # t
        BY <2>6 DEF Guards, Accept
      <3> QED
        BY <1>3, <2>3, <2>6, <3>1 DEF Guards, Accept
    <2> QED
      BY <2>1, <2>2, <2>3, <2>4, <2>5, <2>6 DEF Kept, Accept, Still
  <1> QED
    BY <1>5, <1>6, <1>7, <1>8, <1>9 DEF IInv

LEMMA K_Register ==
  ASSUME IInv, NEW t \in Threads, Register(t)
  PROVE  IInv'
  <1> USE DrainAssumption DEF Serving, Parting
  <1>1. main = "join" /\ cfd[t] \in Fds /\ fds[t] \notin Fds
    BY DEF IInv, Typed, Joined, Holds, Register
  <1>2. /\ pc'[t] = "handshake" /\ \A u \in Threads : u # t => pc'[u] = pc[u]
        /\ fds'[t] = cfd[t] /\ \A u \in Threads : u # t => fds'[u] = fds[u]
    BY DEF IInv, Typed, Register, Move
  <1>3. Typed'
    BY <1>1 DEF IInv, Typed, Register, Move, Still
  <1>4. Joined' /\ Calm'
    BY <1>1, <1>2 DEF IInv, Joined, Calm, Register, Still
  <1>5. \A u \in Threads : Holds(u)'
    BY <1>1, <1>2 DEF IInv, Holds, Register
  <1>6. Own'
    BY DEF IInv, Own, Register
  <1>7. ASSUME NEW c \in pinned' PROVE Kept(c)'
    <2>1. Kept(c)
      BY <1>7 DEF IInv, Register
    <2>2. \A e : Names(e, c)' <=> Names(e, c)
      BY DEF Names, Register
    <2>3. ~Names(cfd[t], c)
      BY <2>1 DEF Kept, Register
    <2>4. \A u \in Threads : Unseen(u) => Unseen(u)'
      BY DEF Unseen, Register, Still
    <2>5. \A u \in Threads : Names(fds[u], c)' => u # t /\ Names(fds[u], c)
      BY <1>2, <2>2, <2>3 DEF Names, Register
    <2>6. ASSUME NEW u \in Threads, Guards(u, c) PROVE Guards(u, c)'
      <3>1. u # t
        BY <2>6 DEF Guards, Register
      <3> QED
        BY <1>2, <2>2, <2>6, <3>1 DEF Guards, Names, Register
    <2>7. \A u \in Threads : Names(cfd[u], c)' => pc'[u] # "register"
      BY <1>2, <2>1, <2>2 DEF Kept, Names, Register
    <2> QED
      BY <2>1, <2>2, <2>4, <2>5, <2>6, <2>7 DEF Kept, Names, Register, Still
  <1> QED
    BY <1>3, <1>4, <1>5, <1>6, <1>7 DEF IInv

(* What a thread's client can be.                                          *)
LEMMA ClientOf ==
  ASSUME IInv, NEW t \in Threads, pc[t] \in Serving
  PROVE  Client(t) \in Conns /\ conn[Client(t)] \in {"open", "up", "cut", "lost", "reset", "gone"}
  <1>1. Client(t) \in Conns /\ conn[Client(t)] \notin {"none", "queued"}
    BY DEF IInv, Holds, Own, Client
  <1> QED
    BY <1>1 DEF IInv, Typed

LEMMA K_Handshaken ==
  ASSUME IInv, NEW t \in Threads, Handshaken(t)
  PROVE  IInv'
  BY ClientOf, Serves DEF Handshaken, Move, Still, Alive, Serving

LEMMA K_HandshakeRefused ==
  ASSUME IInv, NEW t \in Threads, HandshakeRefused(t)
  PROVE  IInv'
  BY ClientOf, Serves DEF HandshakeRefused, Reset, Move, Still, Serving

LEMMA K_RequestBad ==
  ASSUME IInv, NEW t \in Threads, RequestBad(t)
  PROVE  IInv'
  BY ClientOf, Serves DEF RequestBad, Reset, Move, Still, Serving

LEMMA K_Request ==
  ASSUME IInv, NEW t \in Threads, Request(t)
  PROVE  IInv'
  <1>1. Client(t) \in Conns /\ conn' = [conn EXCEPT ![Client(t)] = conn[Client(t)]]
    BY ClientOf DEF Request, Serving, IInv, Typed
  <1> QED
    BY <1>1, ClientOf, Serves DEF Request, Move, Still, Serving

LEMMA K_Eof ==
  ASSUME IInv, NEW t \in Threads, Eof(t)
  PROVE  IInv'
  <1>1. PICK v : v = EndOf(conn[Client(t)])
    OBVIOUS
  <1>2. /\ v \in {"cut", "lost", "reset", "gone"}
        /\ v \in {"cut", "lost"} =>
             \/ v = conn[Client(t)]
             \/ conn[Client(t)] \in {"open", "up"} /\ Client(t) \in shut
    BY <1>1, ClientOf DEF Eof, Alive, EndOf, Serving
  <1> QED
    BY <1>1, <1>2, Serves DEF Eof, Cut, Move, Still, Serving

LEMMA K_Turn ==
  ASSUME IInv, NEW t \in Threads, Turn(t)
  PROVE  IInv'
  <1>1. CASE running = 1 /\ Move(t, "recv") /\ UNCHANGED conn
    <2>1. Client(t) \in Conns /\ conn' = [conn EXCEPT ![Client(t)] = conn[Client(t)]]
      BY <1>1, ClientOf DEF Turn, Serving, IInv, Typed
    <2> QED
      BY <1>1, <2>1, ClientOf, Serves DEF Turn, Move, Still, Serving
  <1>2. CASE running = 0 /\ Move(t, "closing") /\ Cut(Client(t))
    <2>1. PICK v : v = EndOf(conn[Client(t)])
      OBVIOUS
    <2>2. /\ v \in {"cut", "lost", "reset", "gone"}
          /\ v \in {"cut", "lost"} => v = conn[Client(t)] \/ conn[Client(t)] \in {"open", "up"}
      BY <2>1, ClientOf DEF Turn, EndOf, Serving
    <2> QED
      BY <1>2, <2>1, <2>2, Serves DEF Turn, Cut, Move, Still, Serving
  <1> QED
    BY <1>1, <1>2 DEF Turn

LEMMA K_Unregister ==
  ASSUME IInv, NEW t \in Threads, Unregister(t)
  PROVE  IInv'
  <1> USE DrainAssumption DEF Serving, Parting
  <1>1. main = "join" /\ cfd[t] \in Fds
    BY DEF IInv, Typed, Joined, Holds, Unregister
  <1>2. /\ pc'[t] = "close" /\ \A u \in Threads : u # t => pc'[u] = pc[u]
        /\ fds'[t] = -1 /\ \A u \in Threads : u # t => fds'[u] = fds[u]
    BY DEF IInv, Typed, Unregister, Move
  <1>3. Typed' /\ -1 \notin Fds
    BY DEF IInv, Typed, Unregister, Move, Still, Fds
  <1>4. Joined' /\ Calm'
    BY <1>1, <1>2 DEF IInv, Joined, Calm, Unregister, Still
  <1>5. ASSUME NEW u \in Threads PROVE Holds(u)'
    <2>1. Holds(u) /\ cfd' = cfd /\ file' = file /\ conn' = conn
      BY Zenon DEF IInv, Unregister
    <2>2. pc[t] = "closing"
      BY Zenon DEF Unregister
    <2>3. CASE u = t
      BY <1>1, <1>2, <1>3, <2>1, <2>2, <2>3 DEF Holds
    <2>4. CASE u # t
      BY <1>2, <2>1, <2>4 DEF Holds
    <2> QED
      BY <2>3, <2>4
  <1>6. Own'
    BY DEF IInv, Own, Unregister
  <1>7. ASSUME NEW c \in pinned' PROVE Kept(c)'
    <2>1. Kept(c)
      BY <1>7 DEF IInv, Unregister
    <2>2. \A e : Names(e, c)' <=> Names(e, c)
      BY DEF Names, Unregister
    <2>3. \A u \in Threads : Unseen(u) => Unseen(u)'
      BY DEF Unseen, Unregister, Still
    <2>4. \A u \in Threads : Names(fds[u], c)' => Names(fds[u], c)
      BY <1>2, <1>3, <2>2 DEF Names, Unregister
    <2>5. ASSUME NEW u \in Threads, Guards(u, c) PROVE Guards(u, c)'
      <3>1. u # t
        BY <2>5 DEF Guards, Unregister
      <3> QED
        BY <1>2, <2>2, <2>5, <3>1 DEF Guards, Names, Unregister
    <2>6. \A u \in Threads : Names(cfd[u], c)' => pc'[u] # "register"
      BY <1>2, <2>1, <2>2 DEF Kept, Names, Unregister
    <2> QED
      BY <2>1, <2>2, <2>3, <2>4, <2>5, <2>6 DEF Kept, Names, Unregister, Still
  <1> QED
    BY <1>3, <1>4, <1>5, <1>6, <1>7 DEF IInv

LEMMA K_Close ==
  ASSUME IInv, NEW t \in Threads, Close(t)
  PROVE  IInv'
  <1> USE DrainAssumption DEF Serving, Parting
  <1>1. PICK d : d = cfd[t]
    OBVIOUS
  <1>2. /\ main = "join" /\ d \in Fds /\ fds[t] \notin Fds
        /\ \A u \in Threads : u # t => cfd[u] # d
    BY <1>1 DEF IInv, Typed, Joined, Holds, Own, Close
  <1>3. /\ pc'[t] = "loop" /\ \A u \in Threads : u # t => pc'[u] = pc[u]
        /\ cfd'[t] = -1 /\ \A u \in Threads : u # t => cfd'[u] = cfd[u]
    BY DEF IInv, Typed, Close, Move
  <1>4. /\ file'[d] = NoConn /\ \A e \in Fds : e # d => file'[e] = file[e]
        /\ -1 \notin Fds
    BY <1>1, <1>2 DEF IInv, Typed, Close, Fds
  <1>5. Typed'
    BY <1>1, <1>2 DEF IInv, Typed, Close, Move, Still
  <1>6. Joined' /\ Calm'
    BY <1>2, <1>3 DEF IInv, Joined, Calm, Close, Still
  <1>7. ASSUME NEW u \in Threads PROVE Holds(u)'
    <2>1. CASE u = t
      BY <1>2, <1>3, <1>4, <2>1 DEF Holds, Close
    <2>2. CASE u # t
      <3>1. cfd[u] \in Fds => file'[cfd[u]] = file[cfd[u]]
        BY <1>2, <1>4, <2>2
      <3> QED
        BY <1>3, <2>2, <3>1 DEF IInv, Holds, Close
    <2> QED
      BY <2>1, <2>2
  <1>8. Own'
    <2>1. \A u, v \in Threads : cfd'[u] \in Fds /\ cfd'[u] = cfd'[v] => u = v
      BY <1>3, <1>4 DEF IInv, Own
    <2>2. \A e \in Fds : file'[e] \in Conns => file'[e] = file[e]
      BY <1>4
    <2> QED
      BY <2>1, <2>2 DEF IInv, Own, Close
  <1>9. ASSUME NEW c \in pinned' PROVE Kept(c)'
    <2>1. Kept(c) /\ c \in Conns
      BY <1>9 DEF IInv, Typed, Close
    <2>2. \A e : (Names(e, c)' => Names(e, c)) /\ (e # d /\ Names(e, c) => Names(e, c)')
      BY <1>2, <1>4, <2>1 DEF Names
    <2>3. \A u \in Threads : fds[u] # d
      BY <1>2 DEF IInv, Holds
    <2>4. \A u \in Threads : Unseen(u) => Unseen(u)'
      BY DEF Unseen, Close, Still
    <2>5. \A u \in Threads : Names(fds[u], c)' <=> Names(fds[u], c)
      BY <2>2, <2>3 DEF Names, Close
    <2>6. ASSUME NEW u \in Threads, Guards(u, c) PROVE Guards(u, c)'
      <3>1. u # t
        BY <2>6 DEF Guards, Close
      <3> QED
        BY <1>3, <2>5, <2>6, <3>1 DEF Guards, Close
    <2>7. \A u \in Threads : Names(cfd[u], c)' => pc'[u] # "register"
      <3>1. \A u \in Threads : u # t => cfd'[u] = cfd[u] /\ pc'[u] = pc[u]
        BY <1>3, <1>4, Zenon
      <3>2. pc'[t] # "register"
        BY <1>3
      <3>3. \A u \in Threads : Names(cfd[u], c) => pc[u] # "register"
        BY <2>1, Zenon DEF Kept
      <3>4. ASSUME NEW u \in Threads, u # t, Names(cfd[u], c)' PROVE Names(cfd[u], c)
        BY <2>2, <3>1, <3>4 DEF Names
      <3> QED
        BY <3>1, <3>2, <3>3, <3>4, Zenon
    <2>8. ~Names(hfd, c)'
      BY <2>1, <2>2 DEF Kept, Names, Close, Still
    <2> QED
      BY <2>1, <2>4, <2>5, <2>6, <2>7, <2>8 DEF Kept, Close, Still
  <1> QED
    BY <1>5, <1>6, <1>7, <1>8, <1>9 DEF IInv

-----------------------------------------------------------------------------
(* So do the handler's (sig_handler, clients_connected) ...                *)

(* A step that leaves the threads and the table alone.                     *)
LEMMA Beside ==
  ASSUME IInv, UNCHANGED <<fds, thread>>,
         \A c \in Conns : /\ conn'[c] \in {"none", "queued"} => conn[c] \in {"none", "queued"}
                          /\ conn'[c] \in {"open", "up"} => conn[c] \in {"open", "up"}
  PROVE  Own' /\ \A u \in Threads : Holds(u)'
  <1>1. \A d \in Fds : file'[d] = file[d]
    BY DEF thread
  <1>2. Own'
    BY <1>1 DEF IInv, Own, thread
  <1>3. ASSUME NEW u \in Threads PROVE Holds(u)'
    <2>1. pc'[u] = pc[u] /\ fds'[u] = fds[u] /\ cfd'[u] = cfd[u]
      BY DEF thread
    <2>2. Holds(u)
      BY Zenon DEF IInv
    <2>3. pc[u] \in Parting => cfd[u] \in Fds /\ file[cfd[u]] \in Conns
      BY <2>2 DEF Holds
    <2> QED
      BY <1>1, <2>1, <2>2, <2>3 DEF Holds
  <1> QED
    BY <1>2, <1>3

LEMMA KeptBeside ==
  ASSUME IInv, UNCHANGED <<fds, thread>>, NEW c \in pinned,
         conn'[c] \notin {"none", "queued", "cut", "lost"},
         conn'[c] \in {"open", "up"} =>
           conn[c] \in {"open", "up"} /\ running' = running /\ main' = main,
         c \notin shut', ~Names(hfd, c)',
         \A u \in Threads : Names(fds[u], c) => Unseen(u)',
         \A u \in Threads : at'[u] = at[u]
  PROVE  Kept(c)'
  <1>1. Kept(c)
    BY DEF IInv
  <1>2. \A e : Names(e, c)' <=> Names(e, c)
    BY DEF Names, thread
  <1>3. \A u \in Threads : (Names(cfd[u], c)' => Names(cfd[u], c)) /\ (Names(fds[u], c)' <=> Names(fds[u], c))
    BY <1>2 DEF Names, thread
  <1>4. \A u \in Threads : Guards(u, c) => Guards(u, c)'
    BY <1>3 DEF Guards, thread
  <1> QED
    BY <1>1, <1>3, <1>4 DEF Kept, thread

LEMMA HandlerRewinds ==
  ASSUME Typed, Rewind(Handler)
  PROVE  /\ at' \in [Actors -> 0..NThreads] /\ at'[Handler] = 0
         /\ \A u \in Threads : at'[u] = at[u]
  BY DrainAssumption DEF Typed, Rewind, Actors, Handler, Threads

LEMMA HandlerSteps ==
  ASSUME at \in [Actors -> 0..NThreads], at[Handler] < NThreads,
         at' = [at EXCEPT ![Handler] = @ + 1]
  PROVE  /\ at' \in [Actors -> 0..NThreads]
         /\ at'[Handler] = at[Handler] + 1 /\ at[Handler] \in Threads
         /\ \A u \in Threads : at'[u] = at[u]
  BY DrainAssumption DEF Actors, Handler, Threads

LEMMA K_Signal ==
  ASSUME IInv, Signal
  PROVE  IInv'
  <1> USE DrainAssumption
  <1>1. /\ at' \in [Actors -> 0..NThreads] /\ at'[Handler] = 0
        /\ \A u \in Threads : at'[u] = at[u]
    BY HandlerRewinds, Zenon DEF IInv, Signal
  <1>2. Typed' /\ Joined' /\ Calm'
    <2>1. Typed'
      BY <1>1 DEF IInv, Typed, Signal, thread
    <2>2. Joined'
      BY Zenon DEF IInv, Joined, Signal, thread
    <2>3. Calm'
      <3>1. Calm /\ sig = "off" /\ sig' = "scan" /\ term' = 1
        BY Zenon DEF IInv, Signal
      <3>2. UNCHANGED <<running, hfd, shut>>
        BY Zenon DEF Signal
      <3> QED
        BY <3>1, <3>2 DEF Calm
    <2> QED
      BY <2>1, <2>2, <2>3
  <1>3. Own' /\ \A u \in Threads : Holds(u)'
    BY Beside DEF Signal
  <1>4. \A u \in Threads : Unseen(u)'
    BY <1>1 DEF Unseen, Signal, Threads
  <1>5. ASSUME NEW c \in pinned' PROVE Kept(c)'
    <2>1. hfd' = -1 /\ ~Names(hfd, c)'
      <3>1. Calm /\ hfd' = hfd /\ sig = "off"
        BY Zenon DEF IInv, Signal
      <3>2. hfd = -1
        BY <3>1 DEF Calm
      <3> QED
        BY <3>1, <3>2 DEF Names, Fds
    <2>2. CASE term = 1
      <3>1. c \in pinned /\ Kept(c)
        BY <2>2, <1>5 DEF IInv, Signal
      <3> QED
        BY <1>1, <1>4, <2>1, <3>1, KeptBeside DEF Kept, Signal
    <2>3. CASE term = 0
      <3>1. c \in Conns /\ \E t \in Threads : Names(fds[t], c)
        BY <2>3, <1>5 DEF Signal
      <3>2. PICK t \in Threads : Names(fds[t], c)
        BY <3>1
      <3>3. /\ pc[t] \in Serving \cup {"closing"} /\ fds[t] = cfd[t]
            /\ file[fds[t]] = c /\ fds[t] \in Fds
        BY <3>2 DEF IInv, Holds, Names
      <3>4. main = "join" /\ running = 1 /\ shut = {} /\ \A u \in Threads : pc[u] # "scan"
        BY <2>3, <3>3 DEF IInv, Typed, Joined, Calm, Serving
      <3>5. conn[c] \notin {"none", "queued", "cut", "lost"}
        BY <2>3, <3>1, <3>3, <3>4 DEF IInv, Own, Calm
      <3>6. \A u \in Threads : Names(cfd[u], c) => pc[u] # "register"
        <4> SUFFICES ASSUME NEW u \in Threads, Names(cfd[u], c) PROVE pc[u] # "register"
          OBVIOUS
        <4>1. u = t
          BY <3>1, <3>3 DEF IInv, Own, Names
        <4> QED
          BY <3>3, <4>1 DEF Serving
      <3>7. conn[c] \in {"open", "up"} => Guards(t, c)
        BY <3>2, <3>3, <3>4 DEF IInv, Holds, Guards, Parting
      <3>8. \A u \in Threads : Guards(u, c) => Guards(u, c)'
        BY <1>1 DEF Guards, Names, Signal, thread
      <3> QED
        BY <1>4, <2>1, <3>4, <3>5, <3>6, <3>7, <3>8 DEF Kept, Names, Signal, thread
    <2> QED
      BY <2>2, <2>3 DEF IInv, Typed
  <1> QED
    BY <1>2, <1>3, <1>5 DEF IInv

LEMMA K_SigLook ==
  ASSUME IInv, SigLook
  PROVE  IInv'
  <1>1. /\ Typed' /\ at'[Handler] = at[Handler] + 1 /\ at[Handler] \in Threads
        /\ fds[at[Handler]] < 0 /\ \A u \in Threads : at'[u] = at[u]
    <2>1. fds[at[Handler]] < 0 /\ at' \in [Actors -> 0..NThreads]
          /\ at'[Handler] = at[Handler] + 1 /\ at[Handler] \in Threads
          /\ \A u \in Threads : at'[u] = at[u]
      BY HandlerSteps, Zenon DEF IInv, Typed, SigLook, Look
    <2>2. Typed'
      BY <2>1 DEF IInv, Typed, SigLook, thread
    <2> QED
      BY <2>1, <2>2, Zenon
  <1>2. Joined' /\ Calm'
    BY DEF IInv, Joined, Calm, SigLook, thread
  <1>3. Own' /\ \A u \in Threads : Holds(u)'
    BY Beside DEF SigLook
  <1>4. ASSUME NEW c \in pinned' PROVE Kept(c)'
    <2>1. c \in pinned /\ Kept(c)
      BY <1>4 DEF IInv, SigLook
    <2>2. ASSUME NEW u \in Threads, Names(fds[u], c) PROVE Unseen(u)'
      <3>1. Unseen(u)
        BY <2>1, <2>2, Zenon DEF Kept
      <3>2. at[Handler] # u
        BY <1>1, <2>2 DEF Names, Fds
      <3> QED
        BY <1>1, <3>1, <3>2, DrainAssumption DEF Unseen, SigLook, Threads
    <2>3. conn' = conn /\ running' = running /\ main' = main /\ c \notin shut' /\ ~Names(hfd, c)'
      BY <2>1 DEF Kept, Names, SigLook, thread
    <2> QED
      BY <1>1, <2>1, <2>2, <2>3, KeptBeside DEF Kept, SigLook
  <1> QED
    BY <1>1, <1>2, <1>3, <1>4 DEF IInv

LEMMA K_SigDefer ==
  ASSUME IInv, SigDefer
  PROVE  IInv'
  <1> USE DrainAssumption
  <1>1. /\ at' \in [Actors -> 0..NThreads] /\ \A u \in Threads : at'[u] = at[u]
    BY HandlerRewinds, Zenon DEF IInv, SigDefer
  <1>2. Typed' /\ Joined' /\ Calm'
    BY <1>1 DEF IInv, Typed, Joined, Calm, SigDefer, thread
  <1>3. Own' /\ \A u \in Threads : Holds(u)'
    BY Beside DEF SigDefer
  <1>4. ASSUME NEW c \in pinned' PROVE Kept(c)'
    <2>1. c \in pinned /\ Kept(c)
      BY <1>4 DEF IInv, SigDefer
    <2>2. \A u \in Threads : Unseen(u)'
      BY DEF Unseen, SigDefer
    <2>3. c \notin shut' /\ ~Names(hfd, c)'
      BY <2>1 DEF Kept, Names, SigDefer, thread
    <2> QED
      BY <1>1, <2>1, <2>2, <2>3, KeptBeside DEF Kept, SigDefer
  <1> QED
    BY <1>2, <1>3, <1>4 DEF IInv

(* Once the handler is past every entry, no client it should have waited   *)
(* for is in the table.                                                    *)
LEMMA K_SigStop ==
  ASSUME IInv, SigStop
  PROVE  IInv'
  <1> USE DrainAssumption
  <1>1. /\ at' \in [Actors -> 0..NThreads] /\ \A u \in Threads : at'[u] = at[u]
    BY HandlerRewinds, Zenon DEF IInv, SigStop
  <1>2. Typed' /\ Joined' /\ Calm'
    BY <1>1 DEF IInv, Typed, Joined, Calm, SigStop, thread
  <1>3. Own' /\ \A u \in Threads : Holds(u)'
    BY Beside DEF SigStop
  <1>4. ASSUME NEW c \in pinned' PROVE Kept(c)'
    <2>1. c \in pinned /\ Kept(c)
      BY <1>4 DEF IInv, SigStop
    <2>2. ASSUME NEW u \in Threads PROVE ~Unseen(u)
      BY DEF Unseen, SigStop, NoneLeft, Threads
    <2>3. \A u \in Threads : ~Names(fds[u], c) /\ ~Guards(u, c)
      BY <2>1, <2>2 DEF Kept, Guards
    <2>4. c \notin shut' /\ ~Names(hfd, c)'
      BY <2>1 DEF Kept, Names, SigStop, thread
    <2> QED
      BY <1>1, <2>1, <2>3, <2>4, KeptBeside DEF Kept, SigStop
  <1> QED
    BY <1>2, <1>3, <1>4 DEF IInv

(* So none of them is loaded, nor under the number that has been.          *)
LEMMA K_SigLoad ==
  ASSUME IInv, SigLoad
  PROVE  IInv'
  <1>1. /\ at' \in [Actors -> 0..NThreads] /\ at[Handler] \in Threads
        /\ hfd' \in Fds \cup {-1, 0} /\ \A u \in Threads : at'[u] = at[u]
    <2>1. /\ at' \in [Actors -> 0..NThreads] /\ at[Handler] \in Threads
          /\ \A u \in Threads : at'[u] = at[u]
      BY HandlerSteps, Zenon DEF IInv, Typed, SigLoad
    <2>2. fds \in [Threads -> Fds \cup {-1, 0}] /\ hfd' = fds[at[Handler]]
      BY Zenon DEF IInv, Typed, SigLoad
    <2> QED
      BY <2>1, <2>2, Zenon
  <1>2. hfd' # -1 => sig' = "call"
    <2>1. sig' = IF hfd' >= 0 THEN "call" ELSE "shut"
      BY Zenon DEF SigLoad
    <2> QED
      BY <1>1, <2>1 DEF Fds
  <1>3. Typed' /\ Joined' /\ Calm'
    BY <1>1, <1>2 DEF IInv, Typed, Joined, Calm, SigLoad, thread
  <1>4. Own' /\ \A u \in Threads : Holds(u)'
    BY Beside DEF SigLoad
  <1>5. ASSUME NEW c \in pinned' PROVE Kept(c)'
    <2>1. c \in pinned /\ Kept(c)
      BY <1>5 DEF IInv, SigLoad
    <2>2. \A u \in Threads : ~Names(fds[u], c)
      BY <2>1 DEF Kept, Unseen, SigLoad
    <2>3. c \notin shut' /\ ~Names(hfd, c)'
      BY <1>1, <2>1, <2>2 DEF Kept, Names, SigLoad, thread
    <2> QED
      BY <1>1, <2>1, <2>2, <2>3, KeptBeside DEF Kept, SigLoad
  <1> QED
    BY <1>3, <1>4, <1>5 DEF IInv

LEMMA K_SigShutdown ==
  ASSUME IInv, SigShutdown
  PROVE  IInv'
  <1>1. Typed' /\ Joined' /\ Calm'
    BY DEF IInv, Typed, Joined, Calm, SigShutdown, thread
  <1>2. Own' /\ \A u \in Threads : Holds(u)'
    BY Beside DEF SigShutdown
  <1>3. ASSUME NEW c \in pinned' PROVE Kept(c)'
    <2>1. c \in pinned /\ Kept(c)
      BY <1>3 DEF IInv, SigShutdown
    <2>2. \A u \in Threads : ~Names(fds[u], c)
      BY <2>1 DEF Kept, Unseen, SigShutdown
    <2>3. c \notin shut'
      BY <2>1 DEF Kept, SigShutdown
    <2>4. ~Names(hfd, c)'
      BY DrainAssumption DEF Names, SigShutdown, Fds
    <2> QED
      BY <2>1, <2>2, <2>3, <2>4, KeptBeside DEF Kept, SigShutdown
  <1> QED
    BY <1>1, <1>2, <1>3 DEF IInv

LEMMA K_SigReturn ==
  ASSUME IInv, SigReturn
  PROVE  IInv'
  <1> USE DrainAssumption
  <1>1. /\ at' \in [Actors -> 0..NThreads] /\ \A u \in Threads : at'[u] = at[u]
    BY HandlerRewinds, Zenon DEF IInv, SigReturn
  <1>2. Typed' /\ Joined' /\ Calm'
    BY <1>1 DEF IInv, Typed, Joined, Calm, SigReturn, thread
  <1>3. Own' /\ \A u \in Threads : Holds(u)'
    BY Beside DEF SigReturn
  <1>4. ASSUME NEW c \in pinned' PROVE Kept(c)'
    <2>1. c \in pinned /\ Kept(c)
      BY <1>4 DEF IInv, SigReturn
    <2>2. \A u \in Threads : Unseen(u)'
      BY DEF Unseen, SigReturn
    <2>3. c \notin shut' /\ ~Names(hfd, c)'
      BY <2>1 DEF Kept, Names, SigReturn, thread
    <2> QED
      BY <1>1, <2>1, <2>2, <2>3, KeptBeside DEF Kept, SigReturn
  <1> QED
    BY <1>2, <1>3, <1>4 DEF IInv

-----------------------------------------------------------------------------
(* ... main's and the statistics thread's ...                              *)

LEMMA K_Boot ==
  ASSUME IInv, Boot
  PROVE  IInv'
  <1>1. Typed' /\ Joined' /\ Calm'
    BY DEF IInv, Typed, Joined, Calm, Boot, Aside
  <1>2. Own' /\ \A u \in Threads : Holds(u)'
    BY Beside DEF IInv, Typed, Boot, Aside, thread
  <1>3. ASSUME NEW c \in pinned' PROVE Kept(c)'
    <2>1. c \in pinned /\ Kept(c)
      BY <1>3 DEF IInv, Boot, Aside
    <2>2. \A u \in Threads : Unseen(u) => Unseen(u)'
      BY DEF Unseen, Boot, Aside
    <2>3. c \notin shut' /\ ~Names(hfd, c)'
      BY <2>1 DEF Kept, Names, Boot, Aside
    <2>4. /\ conn'[c] \notin {"none", "queued", "cut", "lost"}
          /\ conn'[c] \in {"open", "up"} =>
               conn[c] \in {"open", "up"} /\ running' = running /\ main' = main
      BY <2>1 DEF IInv, Typed, Kept, Boot, Aside
    <2> QED
      BY <2>1, <2>2, <2>3, <2>4, KeptBeside DEF Kept, Boot, Aside, thread
  <1> QED
    BY <1>1, <1>2, <1>3 DEF IInv

LEMMA K_Spawn ==
  ASSUME IInv, Spawn
  PROVE  IInv'
  <1> USE DrainAssumption DEF Serving, Parting
  <1>1. \A u \in Threads : pc[u] = "none" /\ cfd[u] \notin Fds
    BY DEF IInv, Joined, Holds, Spawn
  <1>2. \A u \in Threads : pc'[u] = "init" /\ fds'[u] = -1 /\ cfd'[u] = cfd[u] /\ -1 \notin Fds
    BY DEF Spawn, Aside, Fds
  <1>3. Typed'
    BY DEF IInv, Typed, Spawn, Aside
  <1>4. Joined' /\ Calm'
    BY <1>2 DEF IInv, Joined, Calm, Spawn, Aside
  <1>5. Own' /\ \A u \in Threads : Holds(u)'
    BY <1>1, <1>2 DEF IInv, Own, Holds, Spawn, Aside
  <1>6. ASSUME NEW c \in pinned' PROVE Kept(c)'
    <2>1. Kept(c) /\ main # "join"
      BY <1>6 DEF IInv, Spawn, Aside
    <2> QED
      BY <1>1, <1>2, <2>1 DEF Kept, Names, Spawn, Aside
  <1> QED
    BY <1>3, <1>4, <1>5, <1>6 DEF IInv

LEMMA K_Join ==
  ASSUME IInv, Join
  PROVE  IInv'
  <1>1. Typed' /\ Joined' /\ Calm'
    BY DEF IInv, Typed, Joined, Calm, Join, Aside
  <1>2. Own' /\ \A u \in Threads : Holds(u)'
    BY Beside DEF Join, Aside, thread
  <1>3. ASSUME NEW c \in pinned' PROVE Kept(c)'
    <2>1. c \in pinned /\ Kept(c)
      BY <1>3 DEF IInv, Join, Aside
    <2>2. \A u \in Threads : Unseen(u) => Unseen(u)'
      BY DEF Unseen, Join, Aside
    <2>3. \A u \in Threads : ~Guards(u, c)
      BY DEF Guards, Join, Serving
    <2>4. c \notin shut' /\ ~Names(hfd, c)'
      BY <2>1 DEF Kept, Names, Join, Aside
    <2> QED
      BY <2>1, <2>2, <2>3, <2>4, KeptBeside DEF Kept, Join, Aside, thread
  <1> QED
    BY <1>1, <1>2, <1>3 DEF IInv

LEMMA K_stats_worker ==
  ASSUME IInv, stats_worker
  PROVE  IInv'
  <1>1. Typed' /\ Joined' /\ Calm'
    BY DEF IInv, Typed, Joined, Calm, stats_worker, Aside
  <1>2. Own' /\ \A u \in Threads : Holds(u)'
    BY Beside DEF IInv, Typed, stats_worker, Aside, thread
  <1>3. ASSUME NEW c \in pinned' PROVE Kept(c)'
    <2>1. c \in pinned /\ Kept(c)
      BY <1>3 DEF IInv, stats_worker, Aside
    <2>2. \A u \in Threads : Unseen(u) => Unseen(u)'
      BY DEF Unseen, stats_worker, Aside
    <2>3. c \notin shut' /\ ~Names(hfd, c)'
      BY <2>1 DEF Kept, Names, stats_worker, Aside
    <2>4. /\ conn'[c] \notin {"none", "queued", "cut", "lost"}
          /\ conn'[c] \in {"open", "up"} =>
               conn[c] \in {"open", "up"} /\ running' = running /\ main' = main
      BY <2>1 DEF IInv, Typed, Kept, stats_worker, Aside
    <2> QED
      BY <2>1, <2>2, <2>3, <2>4, KeptBeside DEF Kept, stats_worker, Aside, thread
  <1> QED
    BY <1>1, <1>2, <1>3 DEF IInv

LEMMA K_JoinStats ==
  ASSUME IInv, JoinStats
  PROVE  IInv'
  <1>1. Typed' /\ Joined' /\ Calm'
    BY DEF IInv, Typed, Joined, Calm, JoinStats, Aside
  <1>2. Own' /\ \A u \in Threads : Holds(u)'
    BY Beside DEF IInv, Typed, JoinStats, Aside, thread
  <1>3. ASSUME NEW c \in pinned' PROVE Kept(c)'
    <2>1. c \in pinned /\ Kept(c)
      BY <1>3 DEF IInv, JoinStats, Aside
    <2>2. \A u \in Threads : Unseen(u) => Unseen(u)'
      BY DEF Unseen, JoinStats, Aside
    <2>3. c \notin shut' /\ ~Names(hfd, c)'
      BY <2>1 DEF Kept, Names, JoinStats, Aside
    <2>4. /\ conn'[c] \notin {"none", "queued", "cut", "lost"}
          /\ conn'[c] \in {"open", "up"} =>
               conn[c] \in {"open", "up"} /\ running' = running /\ main' = main
      BY <2>1 DEF IInv, Typed, Kept, JoinStats, Aside
    <2> QED
      BY <2>1, <2>2, <2>3, <2>4, KeptBeside DEF Kept, JoinStats, Aside, thread
  <1> QED
    BY <1>1, <1>2, <1>3 DEF IInv

LEMMA K_Cleanup ==
  ASSUME IInv, Cleanup
  PROVE  IInv'
  <1>1. Typed' /\ Joined' /\ Calm'
    BY DEF IInv, Typed, Joined, Calm, Cleanup, Aside, EndOf
  <1>2. Own' /\ \A u \in Threads : Holds(u)'
    BY Beside DEF IInv, Typed, Cleanup, Aside, EndOf, thread
  <1>3. ASSUME NEW c \in pinned' PROVE Kept(c)'
    <2>1. c \in pinned /\ Kept(c)
      BY <1>3 DEF IInv, Cleanup, Aside, EndOf
    <2>2. \A u \in Threads : Unseen(u) => Unseen(u)'
      BY DEF Unseen, Cleanup, Aside, EndOf
    <2>3. c \notin shut' /\ ~Names(hfd, c)'
      BY <2>1 DEF Kept, Names, Cleanup, Aside, EndOf
    <2>4. /\ conn'[c] \notin {"none", "queued", "cut", "lost"}
          /\ conn'[c] \in {"open", "up"} =>
               conn[c] \in {"open", "up"} /\ running' = running /\ main' = main
      BY <2>1 DEF IInv, Typed, Kept, Cleanup, Aside, EndOf
    <2> QED
      BY <2>1, <2>2, <2>3, <2>4, KeptBeside DEF Kept, Cleanup, Aside, EndOf, thread
  <1> QED
    BY <1>1, <1>2, <1>3 DEF IInv

-----------------------------------------------------------------------------
(* ... and the clients'.                                                   *)

LEMMA K_Connect ==
  ASSUME IInv, NEW q \in Conns, Connect(q)
  PROVE  IInv'
  <1>1. Typed' /\ Joined' /\ Calm'
    BY DEF IInv, Typed, Joined, Calm, Connect, Aside
  <1>2. Own' /\ \A u \in Threads : Holds(u)'
    BY Beside DEF IInv, Typed, Connect, Aside, thread
  <1>3. ASSUME NEW c \in pinned' PROVE Kept(c)'
    <2>1. c \in pinned /\ Kept(c)
      BY <1>3 DEF IInv, Connect, Aside
    <2>2. \A u \in Threads : Unseen(u) => Unseen(u)'
      BY DEF Unseen, Connect, Aside
    <2>3. c \notin shut' /\ ~Names(hfd, c)'
      BY <2>1 DEF Kept, Names, Connect, Aside
    <2>4. /\ conn'[c] \notin {"none", "queued", "cut", "lost"}
          /\ conn'[c] \in {"open", "up"} =>
               conn[c] \in {"open", "up"} /\ running' = running /\ main' = main
      BY <2>1 DEF IInv, Typed, Kept, Connect, Aside
    <2> QED
      BY <2>1, <2>2, <2>3, <2>4, KeptBeside DEF Kept, Connect, Aside, thread
  <1> QED
    BY <1>1, <1>2, <1>3 DEF IInv

LEMMA K_Detach ==
  ASSUME IInv, NEW q \in Conns, Detach(q)
  PROVE  IInv'
  <1>1. Typed' /\ Joined' /\ Calm'
    BY DEF IInv, Typed, Joined, Calm, Detach, Aside
  <1>2. Own' /\ \A u \in Threads : Holds(u)'
    BY Beside DEF IInv, Typed, Detach, Aside, thread
  <1>3. ASSUME NEW c \in pinned' PROVE Kept(c)'
    <2>1. c \in pinned /\ Kept(c)
      BY <1>3 DEF IInv, Detach, Aside
    <2>2. \A u \in Threads : Unseen(u) => Unseen(u)'
      BY DEF Unseen, Detach, Aside
    <2>3. c \notin shut' /\ ~Names(hfd, c)'
      BY <2>1 DEF Kept, Names, Detach, Aside
    <2>4. /\ conn'[c] \notin {"none", "queued", "cut", "lost"}
          /\ conn'[c] \in {"open", "up"} =>
               conn[c] \in {"open", "up"} /\ running' = running /\ main' = main
      BY <2>1 DEF IInv, Typed, Kept, Detach, Aside
    <2> QED
      BY <2>1, <2>2, <2>3, <2>4, KeptBeside DEF Kept, Detach, Aside, thread
  <1> QED
    BY <1>1, <1>2, <1>3 DEF IInv

-----------------------------------------------------------------------------
(* The theorems.                                                           *)

LEMMA InitIInv == Init => IInv
  <1> SUFFICES ASSUME Init PROVE IInv
    OBVIOUS
  <1>1. Typed
    BY DrainAssumption DEF Init, Typed
  <1>2. Joined /\ Calm
    BY DEF Init, Joined, Calm
  <1>3. -1 \notin Fds /\ 0 \notin Fds
    BY DrainAssumption DEF Fds
  <1>4. Own /\ \A t \in Threads : Holds(t)
    BY <1>3, DrainAssumption DEF Init, Own, Holds, Serving, Parting
  <1>5. \A c \in pinned : Kept(c)
    BY DEF Init
  <1> QED
    BY <1>1, <1>2, <1>4, <1>5 DEF IInv

(* A stutter, and the step of a program that has ended.                    *)
LEMMA K_Stutter ==
  ASSUME IInv, UNCHANGED vars
  PROVE  IInv'
  <1>1. Typed' /\ Joined' /\ Calm'
    BY DEF IInv, Typed, Joined, Calm, vars, thread
  <1>2. Own' /\ \A u \in Threads : Holds(u)'
    BY DEF IInv, Own, Holds, vars, thread
  <1>3. ASSUME NEW c \in pinned' PROVE Kept(c)'
    <2>1. c \in pinned /\ Kept(c)
      BY <1>3, Zenon DEF IInv, vars
    <2>2. \A u \in Threads : Unseen(u)' <=> Unseen(u)
      BY DEF Unseen, vars
    <2>3. c \notin shut' /\ ~Names(hfd, c)'
      BY <2>1 DEF Kept, Names, vars, thread
    <2> QED
      BY <2>1, <2>2, <2>3, KeptBeside DEF Kept, vars
  <1> QED
    BY <1>1, <1>2, <1>3 DEF IInv

LEMMA NextIInv ==
  ASSUME IInv, [Next]_vars
  PROVE  IInv'
  <1>1. ASSUME NEW t \in Threads, thread_worker(t) PROVE IInv'
    BY <1>1, K_WorkerInit, K_Loop, K_AskTerm, K_DrainLook, K_DrainWait, K_DrainDone, K_Poll,
       K_AcceptNone, K_Accept, K_Register, K_Eof, K_Turn, K_Unregister, K_Close, Zenon
       DEF thread_worker
  <1>2. ASSUME NEW t \in Threads, Prompted(t) PROVE IInv'
    BY <1>2, K_Handshaken, K_HandshakeRefused, K_Request, K_RequestBad, Zenon DEF Prompted
  <1>3. CASE Signal \/ sig_handler
    BY <1>3, K_Signal, K_SigLook, K_SigDefer, K_SigStop, K_SigLoad, K_SigShutdown, K_SigReturn,
       Zenon DEF sig_handler
  <1>4. CASE Main \/ stats_worker
    BY <1>4, K_Boot, K_Spawn, K_Join, K_JoinStats, K_Cleanup, K_stats_worker, Zenon DEF Main
  <1>5. ASSUME NEW q \in Conns, Connect(q) \/ Detach(q) PROVE IInv'
    BY <1>5, K_Connect, K_Detach, Zenon
  <1>6. CASE Exited \/ UNCHANGED vars
    BY <1>6, K_Stutter DEF Exited
  <1> QED
    BY <1>1, <1>2, <1>3, <1>4, <1>5, <1>6, Zenon DEF Next

LEMMA AlwaysIInv == Spec => []IInv
  BY InitIInv, NextIInv, PTL DEF Spec

(* For any number of threads, connections and signals, the handler shuts   *)
(* down no client that was in the table when SIGTERM came, and nobody      *)
(* before the threads have been told to end.  It loads an entry and calls  *)
(* shutdown() later, and the descriptor may have been closed and its       *)
(* number given to another client by then: to one accepted since, never to *)
(* one that has been attached all the while (sig_handler, thread_worker).  *)
THEOREM ShutdownSpares == Spec => []ShutsOnlyLate
  <1>1. IInv => ShutsOnlyLate
    BY DEF IInv, Calm, Kept, ShutsOnlyLate
  <1> QED
    BY <1>1, AlwaysIInv, PTL

(* A client that was in the table when SIGTERM came is served until it     *)
(* detaches, for any number of threads, connections and signals: every     *)
(* look at the table begins after the signal, and none gets past the entry *)
(* of a client that is still there (sig_handler, clients_connected,        *)
(* thread_worker).                                                         *)
THEOREM DrainServes == Spec => []AttachedAreServed
  <1>1. IInv => AttachedAreServed
    BY DEF IInv, Kept, AttachedAreServed
  <1> QED
    BY <1>1, AlwaysIInv, PTL

=============================================================================

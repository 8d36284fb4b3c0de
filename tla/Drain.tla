-------------------------------- MODULE Drain --------------------------------
(***************************************************************************)
(* How nbd-vram.c ends.  The device memory must not be freed while the     *)
(* kernel may have swap pages on it, so SIGTERM with a client attached     *)
(* only asks the worker threads to drain: they take no new connection, and *)
(* the one that sees the last client go ends the program for everyone.     *)
(*                                                                         *)
(* The signal handler runs beside the threads, and it and the threads read *)
(* the table of client descriptors one entry at a time, with no lock.      *)
(* Descriptors are numbers: a number that has been closed is given to the  *)
(* next connection, and whoever still holds it then means that one.        *)
(***************************************************************************)
EXTENDS Integers

CONSTANTS NThreads,    \* g_nbd_threads
          Conns,       \* the connections clients make, each once
          MaxSignals,  \* SIGTERM and SIGINT received, at most
          NoConn       \* what a number that is not open names

ASSUME DrainAssumption ==
  /\ NThreads \in Nat \ {0}
  /\ MaxSignals \in Nat
  /\ NoConn \notin Conns

Threads == 0..(NThreads - 1)
Handler == NThreads
Actors  == Threads \cup {Handler}

(* The numbers clients get.  A thread has one client at a time, so that    *)
(* there are enough of them.                                               *)
Fds == 1..NThreads

VARIABLES
  running,    \* g_running
  term,       \* g_term_requested
  fds,        \* g_client_fds, zeros until main fills it with -1
  failed,     \* g_worker_failed
  pc, cfd,    \* of each thread: where it is, the descriptor accept() gave it
  file,       \* the connection each number names
  at,         \* the entry of fds an actor reads next
  main,       \* where main is
  stats,      \* the statistics thread
  sig, sigs,  \* where the handler is, signals received
  hfd,        \* the descriptor the handler is about to shut down
  conn,       \* what has become of each connection: "open" in the handshake,
              \* "up" after it, "cut" when the program ends it while up,
              \* "lost" when it does while open
  shut,       \* those the handler has shut down
  pinned      \* history: those in the table when term was set

thread == <<pc, cfd, file, failed>>
vars == <<running, term, fds, thread, at, main, stats, sig, sigs, hfd, conn, shut, pinned>>

Init ==
  /\ running = 1 /\ term = 0
  /\ fds = [t \in Threads |-> 0]
  /\ failed = 0
  /\ pc = [t \in Threads |-> "none"] /\ cfd = [t \in Threads |-> -1]
  /\ file = [d \in Fds |-> NoConn]
  /\ at = [a \in Actors |-> 0]
  /\ main = "boot" /\ stats = "none"
  /\ sig = "off" /\ sigs = 0 /\ hfd = -1
  /\ conn = [c \in Conns |-> "none"] /\ shut = {}
  /\ pinned = {}

-----------------------------------------------------------------------------
Names(d, c) == d \in Fds /\ file[d] = c

(* clients_connected(), one entry at a time.                               *)

Found(a) == at[a] < NThreads /\ fds[at[a]] >= 0
NoneLeft(a) == at[a] = NThreads
Look(a) ==
  /\ at[a] < NThreads /\ fds[at[a]] < 0
  /\ at' = [at EXCEPT ![a] = @ + 1]

(* The loop's counter begins at 0, and is forgotten when the loop ends.    *)
Rewind(a) == at' = [at EXCEPT ![a] = 0]

-----------------------------------------------------------------------------
(* sig_handler.                                                            *)

Signal ==
  /\ sig = "off" /\ sigs < MaxSignals /\ main # "exit"
  /\ sigs' = sigs + 1
  /\ term' = 1
  /\ sig' = "scan" /\ Rewind(Handler)
  /\ pinned' = IF term = 1 THEN pinned ELSE {c \in Conns : \E t \in Threads : Names(fds[t], c)}
  /\ UNCHANGED <<running, fds, thread, main, stats, hfd, conn, shut>>

SigLook ==
  /\ sig = "scan" /\ Look(Handler)
  /\ UNCHANGED <<running, term, fds, thread, main, stats, sig, sigs, hfd, conn, shut, pinned>>

(* A variant that shuts the clients down rather than wait for them.        *)
SigDeferShuts ==
  /\ sig = "scan" /\ Found(Handler)
  /\ sig' = "shut" /\ Rewind(Handler)
  /\ UNCHANGED <<running, term, fds, thread, main, stats, sigs, hfd, conn, shut, pinned>>

(* A client is attached: the exit is deferred.                             *)
SigDefer ==
  /\ sig = "scan" /\ Found(Handler)
  /\ sig' = "off" /\ Rewind(Handler)
  /\ UNCHANGED <<running, term, fds, thread, main, stats, sigs, hfd, conn, shut, pinned>>

(* A variant that ends whether or not a client is attached.                *)
SigStopAtOnce ==
  /\ sig = "scan"
  /\ running' = 0
  /\ sig' = "shut" /\ Rewind(Handler)
  /\ UNCHANGED <<term, fds, thread, main, stats, sigs, hfd, conn, shut, pinned>>

SigStop ==
  /\ sig = "scan" /\ NoneLeft(Handler)
  /\ running' = 0
  /\ sig' = "shut" /\ Rewind(Handler)
  /\ UNCHANGED <<term, fds, thread, main, stats, sigs, hfd, conn, shut, pinned>>

(* The entry is loaded in one step and what was loaded shut down in        *)
(* another: in between the thread may have cleared its entry and closed    *)
(* the descriptor, and accept() may have given the number away again.      *)
SigLoad ==
  /\ sig = "shut" /\ at[Handler] < NThreads
  /\ hfd' = fds[at[Handler]]
  /\ at' = [at EXCEPT ![Handler] = @ + 1]
  /\ sig' = IF hfd' >= 0 THEN "call" ELSE "shut"
  /\ UNCHANGED <<running, term, fds, thread, main, stats, sigs, conn, shut, pinned>>

SigShutdown ==
  /\ sig = "call"
  /\ shut' = shut \cup {c \in Conns : Names(hfd, c)}
  /\ hfd' = -1
  /\ sig' = "shut"
  /\ UNCHANGED <<running, term, fds, thread, at, main, stats, sigs, conn, pinned>>

SigReturn ==
  /\ sig = "shut" /\ NoneLeft(Handler)
  /\ sig' = "off" /\ Rewind(Handler)
  /\ UNCHANGED <<running, term, fds, thread, main, stats, sigs, hfd, conn, shut, pinned>>

sig_handler == SigLook \/ SigDefer \/ SigStop \/ SigLoad \/ SigShutdown \/ SigReturn

-----------------------------------------------------------------------------
(* thread_worker.                                                          *)

Move(t, l) == pc' = [pc EXCEPT ![t] = l]
Still == UNCHANGED <<main, stats, sig, sigs, hfd, shut>>

WorkerInit(t) ==
  /\ pc[t] = "init"
  /\ \/ Move(t, "loop") /\ UNCHANGED failed
     \/ Move(t, "done") /\ failed' = 1
  /\ Still /\ UNCHANGED <<running, term, fds, cfd, file, at, conn, pinned>>

(* while (g_running), then if (g_term_requested).                          *)
Loop(t) ==
  /\ pc[t] = "loop"
  /\ Move(t, IF running = 1 THEN "ask" ELSE "done")
  /\ Still /\ UNCHANGED <<running, term, fds, cfd, file, failed, at, conn, pinned>>

AskTerm(t) ==
  /\ pc[t] = "ask"
  /\ Move(t, IF term = 1 THEN "scan" ELSE "poll") /\ Rewind(t)
  /\ Still /\ UNCHANGED <<running, term, fds, cfd, file, failed, conn, pinned>>

DrainLook(t) ==
  /\ pc[t] = "scan" /\ Look(t)
  /\ Still /\ UNCHANGED <<running, term, fds, thread, conn, pinned>>

(* Some client is still there: sleep, and look again.                      *)
DrainWait(t) ==
  /\ pc[t] = "scan" /\ Found(t)
  /\ Move(t, "loop") /\ Rewind(t)
  /\ Still /\ UNCHANGED <<running, term, fds, cfd, file, failed, conn, pinned>>

(* A variant that leaves the others running.                               *)
DrainDoneAlone(t) ==
  /\ pc[t] = "scan" /\ NoneLeft(t)
  /\ Move(t, "loop") /\ Rewind(t)
  /\ Still /\ UNCHANGED <<running, term, fds, cfd, file, failed, conn, pinned>>

DrainDone(t) ==
  /\ pc[t] = "scan" /\ NoneLeft(t)
  /\ running' = 0
  /\ Move(t, "done") /\ Rewind(t)
  /\ Still /\ UNCHANGED <<term, fds, cfd, file, failed, conn, pinned>>

Queued == {c \in Conns : conn[c] = "queued"}

(* poll() times out, or sees a connection.                                 *)
Poll(t) ==
  /\ pc[t] = "poll"
  /\ Move(t, "loop") \/ (Queued # {} /\ Move(t, "accept"))
  /\ Still /\ UNCHANGED <<running, term, fds, cfd, file, failed, at, conn, pinned>>

(* accept() finds that another thread took the connection, or fails.       *)
AcceptNone(t) ==
  /\ pc[t] = "accept"
  /\ (Queued = {} /\ Move(t, "loop")) \/ Move(t, "done")
  /\ Still /\ UNCHANGED <<running, term, fds, cfd, file, failed, at, conn, pinned>>

(* A new descriptor is the lowest number that is not open.                 *)
IsLowest(d) == file[d] = NoConn /\ \A e \in Fds : e < d => file[e] # NoConn

Accept(t) ==
  /\ pc[t] = "accept"
  /\ \E c \in Queued, d \in Fds :
       /\ IsLowest(d)
       /\ cfd' = [cfd EXCEPT ![t] = d]
       /\ file' = [file EXCEPT ![d] = c]
       /\ conn' = [conn EXCEPT ![c] = "open"]
  /\ Move(t, "register")
  /\ Still /\ UNCHANGED <<running, term, fds, failed, at, pinned>>

Register(t) ==
  /\ pc[t] = "register"
  /\ fds' = [fds EXCEPT ![t] = cfd[t]]
  /\ Move(t, "handshake")
  /\ Still /\ UNCHANGED <<running, term, cfd, file, failed, at, conn, pinned>>

-----------------------------------------------------------------------------
(* handle_client, as far as the end of the program goes.                   *)

Client(t) == file[cfd[t]]

(* The other end can still be read from.                                   *)
Alive(c) == conn[c] \in {"open", "up"} /\ c \notin shut

EndOf(s) == IF s = "up" THEN "cut" ELSE IF s \in {"queued", "open"} THEN "lost" ELSE s
Cut(c) == conn' = [conn EXCEPT ![c] = EndOf(@)]
Reset(c) == conn' = [conn EXCEPT ![c] = "reset"]

Handshaken(t) ==
  /\ pc[t] = "handshake" /\ Alive(Client(t))
  /\ conn' = [conn EXCEPT ![Client(t)] = "up"]
  /\ Move(t, "turn")
  /\ Still /\ UNCHANGED <<running, term, fds, cfd, file, failed, at, pinned>>

HandshakeRefused(t) ==
  /\ pc[t] = "handshake" /\ Alive(Client(t))
  /\ Reset(Client(t))
  /\ Move(t, "closing")
  /\ Still /\ UNCHANGED <<running, term, fds, cfd, file, failed, at, pinned>>

(* recv() ends: the client has closed its end, or the handler shut it.     *)
Eof(t) ==
  /\ pc[t] \in {"handshake", "recv"} /\ ~Alive(Client(t))
  /\ Cut(Client(t))
  /\ Move(t, "closing")
  /\ Still /\ UNCHANGED <<running, term, fds, cfd, file, failed, at, pinned>>

(* while (g_running), between two requests.                                *)
Turn(t) ==
  /\ pc[t] = "turn"
  /\ \/ running = 1 /\ Move(t, "recv") /\ UNCHANGED conn
     \/ running = 0 /\ Move(t, "closing") /\ Cut(Client(t))
  /\ Still /\ UNCHANGED <<running, term, fds, cfd, file, failed, at, pinned>>

Request(t) ==
  /\ pc[t] = "recv" /\ Alive(Client(t))
  /\ Move(t, "turn")
  /\ Still /\ UNCHANGED <<running, term, fds, cfd, file, failed, at, conn, pinned>>

(* A request of the wrong magic, or a copy that failed, ends it.           *)
RequestBad(t) ==
  /\ pc[t] = "recv" /\ Alive(Client(t))
  /\ Reset(Client(t))
  /\ Move(t, "closing")
  /\ Still /\ UNCHANGED <<running, term, fds, cfd, file, failed, at, pinned>>

Unregister(t) ==
  /\ pc[t] = "closing"
  /\ fds' = [fds EXCEPT ![t] = -1]
  /\ Move(t, "close")
  /\ Still /\ UNCHANGED <<running, term, cfd, file, failed, at, conn, pinned>>

Close(t) ==
  /\ pc[t] = "close"
  /\ file' = [file EXCEPT ![cfd[t]] = NoConn]
  /\ cfd' = [cfd EXCEPT ![t] = -1]
  /\ Move(t, "loop")
  /\ Still /\ UNCHANGED <<running, term, fds, failed, at, conn, pinned>>

(* The steps a thread takes by itself, and those a client makes it take.   *)
thread_worker(t) ==
  \/ WorkerInit(t) \/ Loop(t) \/ AskTerm(t) \/ DrainLook(t) \/ DrainWait(t)
  \/ DrainDone(t) \/ Poll(t) \/ AcceptNone(t) \/ Accept(t) \/ Register(t)
  \/ Eof(t) \/ Turn(t) \/ Unregister(t) \/ Close(t)

Prompted(t) == Handshaken(t) \/ HandshakeRefused(t) \/ Request(t) \/ RequestBad(t)

-----------------------------------------------------------------------------
(* main, the statistics thread, and the clients.                           *)

Aside == UNCHANGED <<term, sig, sigs, hfd, at, cfd, file, failed, shut, pinned>>

(* Everything before listen(); a failure jumps to the cleanup.             *)
Boot ==
  /\ main = "boot"
  /\ main' \in {"listen", "cleanup"}
  /\ Aside /\ UNCHANGED <<running, fds, pc, stats, conn>>

(* The statistics thread is started unless its interval is 0.              *)
Spawn ==
  /\ main = "listen"
  /\ fds' = [t \in Threads |-> -1]
  /\ pc' = [t \in Threads |-> "init"]
  /\ stats' \in {"on", "off"}
  /\ main' = "join"
  /\ Aside /\ UNCHANGED <<running, conn>>

Join ==
  /\ main = "join" /\ \A t \in Threads : pc[t] = "done"
  /\ running' = 0
  /\ main' = "stats"
  /\ Aside /\ UNCHANGED <<fds, pc, stats, conn>>

stats_worker ==
  /\ stats = "on" /\ running = 0
  /\ stats' = "off"
  /\ Aside /\ UNCHANGED <<running, fds, pc, main, conn>>

JoinStats ==
  /\ main = "stats" /\ stats = "off"
  /\ main' = "cleanup"
  /\ Aside /\ UNCHANGED <<running, fds, pc, stats, conn>>

(* The socket is closed, the index and the device memory are freed.        *)
Cleanup ==
  /\ main = "cleanup"
  /\ main' = "exit"
  /\ conn' = [c \in Conns |-> EndOf(conn[c])]
  /\ Aside /\ UNCHANGED <<running, fds, pc, stats>>

Main == Boot \/ Spawn \/ Join \/ JoinStats \/ Cleanup

Connect(c) ==
  /\ conn[c] = "none" /\ main \in {"listen", "join"}
  /\ conn' = [conn EXCEPT ![c] = "queued"]
  /\ Aside /\ UNCHANGED <<running, fds, pc, main, stats>>

(* swapoff is over and nbd-client -d drops the connection.                 *)
Detach(c) ==
  /\ conn[c] \in {"open", "up"}
  /\ conn' = [conn EXCEPT ![c] = "gone"]
  /\ Aside /\ UNCHANGED <<running, fds, pc, main, stats>>

(* The program has ended; nothing is left to happen.                       *)
Exited == main = "exit" /\ sig = "off" /\ UNCHANGED vars

Next ==
  \/ Signal \/ sig_handler
  \/ \E t \in Threads : thread_worker(t) \/ Prompted(t)
  \/ Main \/ stats_worker
  \/ \E c \in Conns : Connect(c) \/ Detach(c)
  \/ Exited

Spec == Init /\ [][Next]_vars

(* Every thread is scheduled, the handler runs to its end, and once the    *)
(* program has been told to end every attached client detaches, as the     *)
(* service's ExecStop makes it do.                                         *)
FairSpec ==
  /\ Spec
  /\ \A t \in Threads : WF_vars(thread_worker(t))
  /\ WF_vars(sig_handler) /\ WF_vars(Main) /\ WF_vars(stats_worker)
  /\ \A c \in Conns : WF_vars(term = 1 /\ Detach(c))

-----------------------------------------------------------------------------
(* Properties.                                                             *)

(* A client that was attached when SIGTERM came is served until it         *)
(* detaches: whatever the handler and the threads read of the table, and   *)
(* however many signals follow, none of them ends the program under it     *)
(* (sig_handler, clients_connected, thread_worker).                        *)
AttachedAreServed == \A c \in pinned : conn[c] \notin {"cut", "lost"}

(* Whomever the handler shuts down came after the signal, and the program  *)
(* is ending by then.  It may hit somebody it did not mean: between its    *)
(* load of an entry and its shutdown() the thread may have closed that     *)
(* descriptor and another have been given the number.  But a client that   *)
(* was attached when SIGTERM came is never under a number it still holds   *)
(* (sig_handler, and thread_worker, which clears an entry before close()). *)
ShutsOnlyLate == \A c \in shut : running = 0 /\ c \notin pinned

(* Once it has been told to end, and the clients detach, the program ends: *)
(* no thread waits in poll(), in recv() or in the drain loop for ever, and *)
(* main's joins return (sig_handler, thread_worker, main).                 *)
TermEnds == term = 1 ~> main = "exit"

(* A client that has completed the handshake is served until it detaches,  *)
(* or breaks the protocol: the program does not end under it (the comment  *)
(* in sig_handler).                                                        *)
NoneCutOff == \A c \in Conns : conn[c] # "cut"

=============================================================================

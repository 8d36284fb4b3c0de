----------------------------- MODULE Handshake ------------------------------
(***************************************************************************)
(* nbd_handshake: the fixed-newstyle haggling that precedes the requests   *)
(* of a connection.  The server greets, takes the client's flags, and then *)
(* takes options, each a header of two halves and its payload, until one   *)
(* of them begins the transmission or ends the connection.                 *)
(*                                                                         *)
(* The client is the NBD protocol's.  It may send options before earlier   *)
(* ones are answered, knows what the answers must be, and is "confused"    *)
(* when it reads anything else.  The wire is the socket's: the requests of *)
(* Connection follow on it.                                                *)
(***************************************************************************)
EXTENDS Integers, Sequences

CONSTANTS Options,    \* a sequence: the options the client may send
          MaxOptions  \* how many it sends

(* n: the units of payload.  magic: the header starts with IHAVEOPT.       *)
(* huge: the header announces more than the 65536 bytes allowed.           *)
Option == [opt : {"EXPORT_NAME", "ABORT", "LIST", "INFO", "GO", "OTHER"},
           n : Nat, magic : BOOLEAN, huge : BOOLEAN]

VARIABLES
  closed,         \* the client has closed its end
  pushing,        \* what is left to push of what the client is sending
  wire,           \* pushed by the client and not yet received
  back,           \* sent by the server and not yet read
  hs, no_zeroes,  \* of nbd_handshake: where it is, the client's flag,
  opt,            \*   the option in hand, an index of Options
  cl, padded,     \* of the client: where it is, whether it expects the zeros,
  due, asks       \*   what it must read next, how many options it has sent

server   == <<hs, no_zeroes, opt>>
customer == <<cl, padded, due, asks>>

(* What the server sends: a reply of some type to an option, or something  *)
(* that is not framed as one.                                              *)
Reply(o, t) == [part |-> "reply", opt |-> o, type |-> t]
Bare(k)     == [part |-> k, opt |-> "", type |-> ""]

Init ==
  /\ closed = FALSE /\ pushing = <<>> /\ wire = <<>> /\ back = <<>>
  /\ hs = "greet" /\ no_zeroes = FALSE /\ opt = 0
  /\ cl = "greeting" /\ padded = FALSE /\ due = <<Bare("greeting")>> /\ asks = 0

-----------------------------------------------------------------------------
(* The client.                                                             *)

Unit(k, i) == [part |-> k, id |-> i]

Sound(o) == o.magic /\ ~o.huge

(* What the protocol has the server send for an option.                    *)
Due(o) ==
  CASE o.opt = "EXPORT_NAME"    -> IF padded THEN <<Bare("export"), Bare("zeros")>>
                                             ELSE <<Bare("export")>>
    [] o.opt \in {"GO", "INFO"} -> <<Reply(o.opt, "INFO"), Reply(o.opt, "ACK")>>
    [] o.opt = "LIST"           -> <<Reply(o.opt, "SERVER"), Reply(o.opt, "ACK")>>
    [] o.opt = "ABORT"          -> <<Reply(o.opt, "ACK")>>
    [] o.opt = "OTHER"          -> <<Reply(o.opt, "ERR_UNSUP")>>

(* After EXPORT_NAME, GO and ABORT a client sends no other option, and     *)
(* after a header that is wrong it waits for nothing.                      *)
Choose(k) ==
  LET o == Options[k] IN
  /\ ~closed /\ pushing = <<>> /\ cl = "haggle" /\ asks < MaxOptions
  /\ pushing' = <<Unit("o1", k), Unit("o2", k)>>
                  \o [j \in 1..o.n |-> Unit("payload", k)]
  /\ asks' = asks + 1
  /\ due' = IF Sound(o) THEN due \o Due(o) ELSE due
  /\ cl' = IF ~Sound(o) THEN "left"
           ELSE CASE o.opt \in {"EXPORT_NAME", "GO"} -> "last"
                  [] o.opt = "ABORT"                 -> "leaving"
                  [] OTHER                           -> "haggle"
  /\ UNCHANGED <<closed, wire, back, server, padded>>

(* The greeting is answered with the flags, and the last reply expected    *)
(* begins the transmission or ends the connection.                         *)
Read ==
  /\ ~closed /\ back # <<>>
  /\ back' = Tail(back)
  /\ \/ /\ due = <<>> \/ Head(due) # Head(back)
        /\ cl' = "confused"
        /\ UNCHANGED <<pushing, padded, due, asks>>
     \/ /\ due # <<>> /\ Head(due) = Head(back) /\ cl = "greeting"
        /\ padded' \in BOOLEAN
        /\ pushing' = <<Unit("flags", IF padded' THEN 0 ELSE 1)>>
        /\ cl' = "haggle" /\ due' = Tail(due)
        /\ UNCHANGED asks
     \/ /\ due # <<>> /\ Head(due) = Head(back) /\ cl # "greeting"
        /\ due' = Tail(due)
        /\ cl' = CASE due' = <<>> /\ cl = "last"    -> "transmit"
                   [] due' = <<>> /\ cl = "leaving" -> "left"
                   [] OTHER                         -> cl
        /\ padded' = (padded /\ cl' # "transmit")
        /\ asks' = IF cl' = "transmit" THEN 0 ELSE asks
        /\ UNCHANGED pushing
  /\ UNCHANGED <<closed, wire, server>>

-----------------------------------------------------------------------------
(* nbd_handshake.  A send to a client that has closed fails, and so does a *)
(* receive of more than it left; either ends the handshake.                *)

Fail ==
  /\ hs' = "lost" /\ no_zeroes' = FALSE /\ opt' = 0
  /\ UNCHANGED <<wire, back>>

Got(k)  == Len(wire) >= k
Take(k) == wire' = SubSeq(wire, k + 1, Len(wire))

Greet ==
  /\ hs = "greet"
  /\ \/ /\ hs' = "flags" /\ back' = Append(back, Bare("greeting"))
        /\ UNCHANGED <<wire, no_zeroes, opt>>
     \/ closed /\ Fail
  /\ UNCHANGED <<closed, pushing, customer>>

TakeFlags ==
  /\ hs = "flags"
  /\ \/ /\ Got(1) /\ Take(1)
        /\ no_zeroes' = (wire[1].id = 1)
        /\ hs' = "option"
        /\ UNCHANGED <<back, opt>>
     \/ closed /\ ~Got(1) /\ Fail
  /\ UNCHANGED <<closed, pushing, customer>>

(* What is not an option's header has the wrong magic.                     *)
TakeOption ==
  /\ hs = "option"
  /\ \/ /\ Got(2) /\ Take(2)
        /\ hs' = IF wire[1].part # "o1" \/ wire[2].part # "o2" THEN "misread"
                 ELSE IF ~Sound(Options[wire[1].id]) THEN "lost" ELSE "payload"
        /\ opt' = IF hs' = "payload" THEN wire[1].id ELSE 0
        /\ no_zeroes' = (no_zeroes /\ hs' = "payload")
        /\ UNCHANGED back
     \/ closed /\ ~Got(2) /\ Fail
  /\ UNCHANGED <<closed, pushing, customer>>

(* A variant that drains only the options it knows.                        *)
DrainedKnown(o) == IF o.opt = "OTHER" THEN 0 ELSE o.n

(* Every option's payload is drained, the unknown one's too.               *)
Drained(o) == o.n

(* An ABORT is answered even if its payload does not arrive.               *)
drain ==
  LET o == Options[opt]  k == Drained(o) IN
  /\ hs = "payload"
  /\ \/ /\ Got(k) /\ Take(k)
        /\ hs' = IF \A j \in 1..k : wire[j] = Unit("payload", opt)
                 THEN "answer" ELSE "misread"
        /\ UNCHANGED <<back, no_zeroes, opt>>
     \/ /\ closed /\ ~Got(k) /\ o.opt = "ABORT"
        /\ wire' = <<>> /\ hs' = "answer"
        /\ UNCHANGED <<back, no_zeroes, opt>>
     \/ closed /\ ~Got(k) /\ o.opt # "ABORT" /\ Fail
  /\ UNCHANGED <<closed, pushing, customer>>

Zeros == ~no_zeroes

(* A variant that leaves without a word.                                   *)
PartingSilent == <<>>

(* The answer to an ABORT.                                                 *)
Parting == <<Reply("ABORT", "ACK")>>

(* send_opt_reply and send_export_info, by option.                         *)
Answer(o) ==
  CASE o.opt = "EXPORT_NAME"    -> <<Bare("export")>> \o IF Zeros THEN <<Bare("zeros")>>
                                                                   ELSE <<>>
    [] o.opt \in {"GO", "INFO"} -> <<Reply(o.opt, "INFO"), Reply(o.opt, "ACK")>>
    [] o.opt = "LIST"           -> <<Reply(o.opt, "SERVER"), Reply(o.opt, "ACK")>>
    [] o.opt = "ABORT"          -> Parting
    [] o.opt = "OTHER"          -> <<Reply(o.opt, "ERR_UNSUP")>>

(* The options after which nbd_handshake returns 0.                        *)
Begins(o) == o.opt \in {"EXPORT_NAME", "GO"}

Respond ==
  LET o == Options[opt] IN
  /\ hs = "answer"
  /\ \/ /\ back' = back \o Answer(o)
        /\ hs' = IF Begins(o) THEN "transmit" ELSE IF o.opt = "ABORT" THEN "lost" ELSE "option"
        /\ no_zeroes' = (no_zeroes /\ hs' = "option")
        /\ opt' = 0
        /\ UNCHANGED wire
     \/ closed /\ Fail
  /\ UNCHANGED <<closed, pushing, customer>>

nbd_handshake == Greet \/ TakeFlags \/ TakeOption \/ drain \/ Respond

=============================================================================

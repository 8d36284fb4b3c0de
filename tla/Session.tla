------------------------------ MODULE Session -------------------------------
(***************************************************************************)
(* A connection from beginning to end: handle_client haggles (Handshake),  *)
(* then serves requests (Connection), on one socket.  The client sends     *)
(* its first request once it has read the last reply it expected; the      *)
(* server looks for one as soon as it has sent that.                       *)
(***************************************************************************)
EXTENDS Connection

CONSTANTS Options, MaxOptions  \* of Handshake

VARIABLES back, hs, no_zeroes, opt, cl, padded, due, asks

HS == INSTANCE Handshake

ASSUME SessionAssumption ==
  /\ \A k \in DOMAIN Options : Options[k] \in HS!Option
  /\ MaxOptions \in Nat

haggling == <<back, hs, no_zeroes, opt, cl, padded, due, asks>>
requests == <<running, sent, pc, head, batch, one, taken, replies>>
svars    == <<vars, haggling>>

SessionInit == Init /\ HS!Init

Haggle ==
  /\ (\E k \in DOMAIN Options : HS!Choose(k)) \/ HS!Read \/ HS!nbd_handshake
  /\ UNCHANGED requests

Request == cl = "transmit" /\ (\E kind \in Kinds : Ask(kind)) /\ UNCHANGED haggling
Serve   == hs = "transmit" /\ handle_client /\ UNCHANGED haggling
Socket  == (Push \/ Hangup \/ Stop) /\ UNCHANGED haggling

SessionOver == (Over \/ hs = "lost") /\ UNCHANGED svars

SessionNext == Haggle \/ Request \/ Serve \/ Socket \/ SessionOver

SessionSpec == SessionInit /\ [][SessionNext]_svars

(* The thread runs; the client finishes what it has begun to send, and     *)
(* reads what it is sent.                                                  *)
FairSession ==
  /\ SessionSpec
  /\ WF_svars(HS!nbd_handshake /\ UNCHANGED requests) /\ WF_svars(Serve)
  /\ WF_svars(Push /\ UNCHANGED haggling) /\ WF_svars(HS!Read /\ UNCHANGED requests)

-----------------------------------------------------------------------------
(* Properties, beside Connection's, which hold of the requests here.       *)

(* While they haggle, each side reads what the other meant: the server     *)
(* never takes payload for an option or an option for payload, whichever   *)
(* options are queued behind one another, and the client never reads       *)
(* anything but the next reply it must get.  They begin the transmission   *)
(* at the same place of both streams: a client that may send requests has  *)
(* read all the server sent, zeros included, and the server serves only    *)
(* once nothing of the haggling is left to be received (nbd_handshake).    *)
HaggleInStep ==
  /\ hs # "misread" /\ cl # "confused"
  /\ cl = "transmit" => hs = "transmit" /\ back = <<>> /\ due = <<>>
  /\ hs = "transmit" =>
       /\ cl \in {"last", "transmit"}
       /\ \A m \in {wire, pushing} : \A i \in DOMAIN m : m[i].part \in {"h1", "h2", "data"}

(* A client that asks for the transmission gets to it, and one that takes  *)
(* its leave is acknowledged, whatever it asked before and however its     *)
(* messages are cut up, unless it hangs up (nbd_handshake).                *)
HagglingEnds ==
  cl \in {"last", "leaving"} ~> cl \in {"transmit", "left"} \/ closed

=============================================================================

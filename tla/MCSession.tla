----------------------------- MODULE MCSession ------------------------------
(* A client that sends up to three options of any sort, then up to three   *)
(* requests of any sort.  A batch takes two requests of at most two        *)
(* blocks; handle_one's window is two blocks.                              *)
EXTENDS Session

Req(cmd, n, magic, aligned, oob) ==
  [cmd |-> cmd, n |-> n, magic |-> magic, aligned |-> aligned, oob |-> oob]

(* Reads and writes that batch, one of them out of bounds; one that is too *)
(* long to; misaligned and empty ones; the rest.                           *)
AllKinds ==
  {Req("READ", 1, TRUE, TRUE, FALSE), Req("WRITE", 2, TRUE, TRUE, FALSE),
   Req("WRITE", 1, TRUE, TRUE, TRUE), Req("WRITE", 3, TRUE, TRUE, FALSE),
   Req("WRITE", 3, TRUE, TRUE, TRUE), Req("READ", 1, TRUE, FALSE, FALSE),
   Req("WRITE", 0, TRUE, TRUE, FALSE), Req("TRIM", 1, TRUE, TRUE, TRUE),
   Req("FLUSH", 0, TRUE, TRUE, FALSE), Req("DISC", 0, TRUE, TRUE, FALSE),
   Req("OTHER", 1, TRUE, TRUE, FALSE), Req("READ", 1, FALSE, TRUE, FALSE)}

Opt(o, n, magic, huge) == [opt |-> o, n |-> n, magic |-> magic, huge |-> huge]

AllOptions ==
  <<Opt("EXPORT_NAME", 1, TRUE, FALSE), Opt("GO", 1, TRUE, FALSE),
    Opt("INFO", 1, TRUE, FALSE), Opt("LIST", 0, TRUE, FALSE),
    Opt("ABORT", 1, TRUE, FALSE), Opt("OTHER", 2, TRUE, FALSE),
    Opt("LIST", 0, FALSE, FALSE), Opt("OTHER", 1, TRUE, TRUE)>>

=============================================================================

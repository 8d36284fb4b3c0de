----------------------------- MODULE MCByteRange -----------------------------
(* Every request on every device that start-up can settle on, with blocks  *)
(* of four bytes, windows of two blocks, and sizes that wrap at 64.        *)
EXTENDS ByteRange

MCDiskMB == {Unset, 0, 1, 6}

=============================================================================

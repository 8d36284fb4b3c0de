------------------------------- MODULE MCDrain -------------------------------
(* Two worker threads; the connections are interchangeable.                *)
EXTENDS Drain, TLC

Symmetry == Permutations(Conns)

=============================================================================

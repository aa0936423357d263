------------------------------ MODULE MCDaemon ------------------------------
(***************************************************************************)
(* Three front ends, one more than the table holds, and as many            *)
(* descriptors, so that places and descriptors are used again.             *)
(***************************************************************************)
EXTENDS Daemon, TLC

CONSTANTS k1, k2, k3, A, B

\* Front ends are interchangeable (descriptors are not: they are ordered).
Symmetry == Permutations(Client)
=============================================================================

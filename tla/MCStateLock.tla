---------------------------- MODULE MCStateLock ----------------------------
(***************************************************************************)
(* TLC instance of StateLock.  Processes and inodes are model values; they *)
(* are interchangeable, which only the run without liveness may use.       *)
(***************************************************************************)
EXTENDS StateLock, TLC

Symmetry == Permutations(Proc) \cup Permutations(Inode)
=============================================================================

---------------------------- MODULE MCSyncServer ----------------------------
(***************************************************************************)
(* SyncServer on small instances.                                          *)
(***************************************************************************)
EXTENDS SyncServer, TLC

Symmetry == Permutations(Conns) \cup Permutations(Ops) \cup Permutations(Records)
=============================================================================

-------------------------- MODULE MCDispatcherPool --------------------------
(***************************************************************************)
(* Small instances of DispatcherPool.  Threads and addresses are           *)
(* interchangeable.                                                        *)
(***************************************************************************)
EXTENDS DispatcherPool, TLC

Symmetry == Permutations(Thread) \cup Permutations(Obj)
=============================================================================

---------------------------- MODULE MCThreadPool ----------------------------
(***************************************************************************)
(* Small instances of ThreadPool.  Application threads, dispatchers and    *)
(* cells are interchangeable: no action and no safety property tells one   *)
(* from another.                                                           *)
(***************************************************************************)
EXTENDS ThreadPoolInv, TLC

Symmetry ==
  Permutations(App) \cup Permutations(Dispatcher) \cup Permutations(Cell)
=============================================================================

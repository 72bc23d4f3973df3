----------------------------- MODULE MCMTSlicer -----------------------------
(***************************************************************************)
(* Small instances of MTSlicer.  Slicers and dispatchers are               *)
(* interchangeable.                                                        *)
(***************************************************************************)
EXTENDS MTSlicer, TLC

Symmetry == Permutations(Slicer) \cup Permutations(Dispatcher)
=============================================================================

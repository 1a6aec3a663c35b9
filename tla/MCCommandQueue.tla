---------------------------- MODULE MCCommandQueue ----------------------------
(***************************************************************************)
(* CommandQueue for TLC.  Handlers, requests and stoppers are only compared *)
(* for equality, so the runs that check no liveness treat them as           *)
(* interchangeable.                                                         *)
(***************************************************************************)
EXTENDS CommandQueue, TLC

Symmetry ==
  Permutations(Handlers) \cup Permutations(Requests) \cup Permutations(Stoppers)
=============================================================================

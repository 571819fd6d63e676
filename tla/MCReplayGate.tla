---------------------------- MODULE MCReplayGate ----------------------------
(* Model checking ReplayGate: clients and handlers are symmetric. *)
EXTENDS ReplayGate, TLC

Symmetry == Permutations(Clients) \cup Permutations(Handlers)
=============================================================================

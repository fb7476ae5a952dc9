------------------------ MODULE MCSharedFrameBuffer -------------------------
(* Two screens of depth 24 with different sizes, and one of depth 16.      *)
EXTENDS SharedFrameBuffer, TLC

DeepAndShallow ==
  {[pixels |-> 2, depth |-> 24], [pixels |-> 3, depth |-> 24],
   [pixels |-> 3, depth |-> 16]}

Symmetry == Permutations(Clients)
=============================================================================

-------------------------------- MODULE MCTailN -------------------------------
(* Instantiates TailN for TLC: a ring of 2 slots, so that 3 lines wrap it, *)
(* and pipes of one line, so that a blocked writer is reached with few     *)
(* lines.                                                                  *)
EXTENDS TailN
=============================================================================

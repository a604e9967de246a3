------------------------- MODULE MCOrderIdGenerator -------------------------
(***************************************************************************)
(* Instances of OrderIdGenerator for TLC.                                  *)
(***************************************************************************)
EXTENDS OrderIdGenerator, TLC

ThreadSymmetry == Permutations(Threads)

=============================================================================

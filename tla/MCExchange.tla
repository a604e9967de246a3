----------------------------- MODULE MCExchange -----------------------------
(***************************************************************************)
(* Instances of Exchange for TLC.                                          *)
(***************************************************************************)
EXTENDS Exchange

MCOpeningBalance == [u \in Users |-> 3]

MCOpeningHolding == [u \in Users |-> 2]

\* The book and the pipeline compare ids for equality only, so the runs explore
\* one of the orders in which the ids may be handed out.
IdsInTurn == \A i \in issued, j \in OrderIds \ issued : i < j

UserSymmetry == Permutations(Users)

=============================================================================

------------------------------- MODULE MCWire -------------------------------
(***************************************************************************)
(* Instances of Wire for TLC.                                              *)
(***************************************************************************)
EXTENDS Wire

CONSTANTS c1, c2

\* The load generator registers, asks for the stocks and goes on.  Another client sends
\* three requests ahead of the replies, of which the second has none.
MCScript ==
    c1 :> << [body |-> 1, reply |-> 1, optional |-> FALSE, ahead |-> FALSE],
             [body |-> 0, reply |-> 2, optional |-> TRUE, ahead |-> FALSE],
             [body |-> 1, reply |-> 1, optional |-> FALSE, ahead |-> FALSE] >>
    @@ c2 :> << [body |-> 1, reply |-> 2, optional |-> FALSE, ahead |-> TRUE],
                [body |-> 0, reply |-> 0, optional |-> FALSE, ahead |-> TRUE],
                [body |-> 1, reply |-> 1, optional |-> FALSE, ahead |-> FALSE] >>

=============================================================================

---------------------------- MODULE MCMarketData ----------------------------
(***************************************************************************)
(* Instances of MarketData for TLC.                                        *)
(***************************************************************************)
EXTENDS MarketData

CONSTANTS p, v1, v2

MCTexts == {<<9, 1>>, <<10, 1>>, <<10, 2>>}

\* As texts, 10 comes before 9.
MCTextRank == <<9, 1>> :> 3 @@ <<10, 1>> :> 1 @@ <<10, 2>> :> 2

At(text, timestamp) == [text |-> text, timestamp |-> timestamp]

\* A text is traded again after others; trades are a grain of the score apart, or so
\* near that their scores are equal or, from one grain to the next, only seem apart; the
\* clock stands still, or is set back between two trades of one text.
MCTapes ==
    LET a == <<9, 1>>  b == <<10, 1>>  c == <<10, 2>>
    IN  { << At(a, 4), At(b, 8), At(a, 12), At(c, 16) >>,
          << At(a, 4), At(b, 5), At(b, 7), At(a, 8) >>,
          << At(b, 4), At(c, 5), At(a, 6), At(b, 10) >>,
          << At(a, 12), At(b, 12), At(a, 4), At(a, 4) >> }

=============================================================================

--------------------------- MODULE MCStackEpisode ---------------------------
(* An instance of StackEpisode for TLC.  Histories begin, as they do when  *)
(* all EMAs start at the first close, in contact and without the order;    *)
(* they go on with bars above the anchor, in contact with it and below it, *)
(* with and without the order, of two depths each.                         *)
EXTENDS StackEpisode

Candle(low, high, close, anchor, order) ==
    [low |-> low, high |-> high, close |-> close, anchor |-> anchor, order |-> order]

MCFirstBars == {Candle(-2, 2, 0, 0, FALSE)}
MCBars == {
    Candle(1, 2, 2, 0, TRUE),        \* above
    Candle(2, 4, 3, 1, TRUE),        \* above, a higher anchor
    Candle(-1, 2, 1, 0, TRUE),       \* contact, closing above
    Candle(-2, 3, -1, 0, FALSE),     \* a deep contact without the order
    Candle(-2, 0, -1, 1, TRUE),      \* below
    Candle(-4, -3, -3, 0, FALSE)}    \* far below, without the order
=============================================================================

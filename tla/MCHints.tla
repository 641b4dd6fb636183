------------------------------ MODULE MCHints ------------------------------
(***************************************************************************)
(* Hints over every combination of votes of up to five players, in a deck  *)
(* with and a deck without the uncertainty card.                           *)
(***************************************************************************)
EXTENDS Hints

CONSTANTS p1, p2, p3, p4, p5

\* A card is its face value; the uncertainty card is 0, and 99 is in no deck.
MCCards == {0, 1, 2, 3, 5, 8, 99}
MCDecks == {<<1, 2, 3, 5, 8, 0>>, <<1, 2, 3>>}

=============================================================================

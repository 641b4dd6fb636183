------------------------------- MODULE MCRoom -------------------------------
(* Room on small instances; the bounds are chosen in the .cfg files. *)
EXTENDS Room

CONSTANTS d, p1, a, b, c1, c2

SmallDeck == {c1}
OneDeck == {SmallDeck}

OneVote == [p \in Players |-> 1]
GuestsVoteTwice == [p \in Players |-> IF p = d THEN 0 ELSE 2]

Times == 1..2

=============================================================================

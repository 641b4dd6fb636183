------------------------------ MODULE MCDealer ------------------------------
(* Dealer on small instances; the bounds are chosen in the .cfg files. *)
EXTENDS Dealer, TLC

CONSTANTS d, p1, a, b, c1, c2

\* Two decks, so that a change of deck can orphan a vote.
SmallDeck == {c1}
OtherDeck == {c2}
OneDeck == {SmallDeck}
DisjointDecks == {SmallDeck, OtherDeck}

IssueSymmetry == Permutations(Issues)

\* Of a publication under way no property of Rounds looks at more than its list
\* of issues, and nothing the dealer does depends on it.
IssuesUnderWay == {x.room.issues : x \in outbox}
RoundsView ==
    <<status, state, stored, forgotten, myVote, alarm, IssuesUnderWay>>

TwoTimes == 1..2
OneTime == {1}

=============================================================================

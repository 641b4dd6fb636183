------------------------------- MODULE Hints -------------------------------
(***************************************************************************)
(* pkg/game/hints.go: the hint the dealer computes when votes are shown,   *)
(* over every combination of votes that players can come to.  A deck is a  *)
(* sequence of cards, votes a function from the players who voted to       *)
(* cards.  The mean deviation is kept as a sum and a count, and its        *)
(* comparisons with 1/4 and 1/2 are made on integers: the floats of the    *)
(* code compare the same way for any number of votes a room can have.      *)
(***************************************************************************)
EXTENDS Integers, Sequences, FiniteSets, FiniteSetsExt, SequencesExt

CONSTANTS
    Players,
    Cards,          \* what a vote may hold, in the deck or not
    Decks,          \* the decks, as sequences of cards
    Uncertainty,    \* protocol.UncertaintyCard, "?"
    Failed,         \* ErrVoteNotFoundInDeck
    NoCard          \* the empty value of a hint when nobody voted

ASSUME PlayersFinite == IsFiniteSet(Players)
ASSUME DecksAreSequences == Decks \subseteq Seq(Cards)

\* What a hint may say of the votes.
Verdicts == {"nobody voted", "no strong consensus", "maximum deviation exceeded",
             "bingo", "good job", "not bad", "you can do better", ""}

Hint == [value : Cards \cup {NoCard}, acceptable : BOOLEAN, description : Verdicts]

ASSUME FailedIsNew == /\ Failed \notin Hint
                      /\ \A S \in SUBSET Players : Failed \notin [S -> Nat]

Distance(a, b) == IF a < b THEN b - a ELSE a - b

Index(deck, card) == CHOOSE k \in DOMAIN deck :
    deck[k] = card /\ \A j \in 1..(k - 1) : deck[j] # card

\* Mutant: the uncertainty card is looked up like any other.
getVotesAsDeckIndexesUnfiltered(deck, votes) ==
    IF \E p \in DOMAIN votes : votes[p] \notin ToSet(deck) THEN Failed
    ELSE [p \in DOMAIN votes |-> Index(deck, votes[p])]

\* The deck position of each vote; uncertain votes do not count.
getVotesAsDeckIndexes(deck, votes) ==
    LET counted == {p \in DOMAIN votes : votes[p] # Uncertainty}
    IN  IF \E p \in counted : votes[p] \notin ToSet(deck) THEN Failed
        ELSE [p \in counted |-> Index(deck, votes[p])]

\* Mutant: the lower of the two middle positions, one place further down.
medianOffByOne(indexes) ==
    LET upTo(v) == {p \in DOMAIN indexes : indexes[p] <= v}
    IN  Min({indexes[p] : p \in {q \in DOMAIN indexes :
            Cardinality(upTo(indexes[q])) >= Cardinality(DOMAIN indexes) \div 2}})

\* The entry at len/2 of the sorted positions: the least one that more than
\* len/2 positions do not exceed.  Of two middle positions, the upper.
median(indexes) ==
    LET upTo(v) == {p \in DOMAIN indexes : indexes[p] <= v}
    IN  Min({indexes[p] : p \in {q \in DOMAIN indexes :
            Cardinality(upTo(indexes[q])) > Cardinality(DOMAIN indexes) \div 2}})

TotalDistance(indexes, from) ==
    MapThenSumSet(LAMBDA p : Distance(indexes[p], from), DOMAIN indexes)

getMeasures(indexes) ==
    LET middle == median(indexes)
    IN  [median |-> middle,
         sum    |-> TotalDistance(indexes, middle),
         count  |-> Cardinality(DOMAIN indexes),
         max    |-> Max({Distance(indexes[p], middle) : p \in DOMAIN indexes})]

\* Mutant: the maximum deviation is compared with the wrong bound.
AcceptableUpToTwo(m) == m.max <= 2 /\ 2 * m.sum <= m.count

\* Neither threshold is exceeded: no vote more than one card away, and half a
\* card of mean deviation at most.
Acceptable(m) == m.max <= 1 /\ 2 * m.sum <= m.count

\* Mutant: the last case compares with <, as the one before it.
DescriptionLeavesHalf(m) ==
    CASE 2 * m.sum > m.count -> "no strong consensus"
      [] 2 * m.sum <= m.count /\ m.max > 1 -> "maximum deviation exceeded"
      [] Acceptable(m) /\ m.sum = 0 -> "bingo"
      [] Acceptable(m) /\ m.sum # 0 /\ 4 * m.sum < m.count -> "good job"
      [] Acceptable(m) /\ 4 * m.sum >= m.count /\ 2 * m.sum < m.count -> "not bad"
      [] OTHER -> ""

\* The second rejection replaces the first; the advice depends on the mean.
Description(m) ==
    CASE 2 * m.sum > m.count -> "no strong consensus"
      [] 2 * m.sum <= m.count /\ m.max > 1 -> "maximum deviation exceeded"
      [] Acceptable(m) /\ m.sum = 0 -> "bingo"
      [] Acceptable(m) /\ m.sum # 0 /\ 4 * m.sum < m.count -> "good job"
      [] Acceptable(m) /\ 4 * m.sum >= m.count /\ 2 * m.sum < m.count -> "not bad"
      [] Acceptable(m) /\ m.sum # 0 /\ 2 * m.sum = m.count -> "you can do better"
      [] OTHER -> ""

GetResultHint(deck, votes) ==
    LET indexes == getVotesAsDeckIndexes(deck, votes)
        m == getMeasures(indexes)
    IN  IF indexes = Failed THEN Failed
        ELSE IF indexes = << >>
        THEN [value |-> NoCard, acceptable |-> FALSE, description |-> "nobody voted"]
        ELSE [value |-> deck[m.median], acceptable |-> Acceptable(m),
              description |-> Description(m)]

-----------------------------------------------------------------------------
(* The votes of an issue, as they are accepted and retracted.  A dealer's    *)
(* votes are in its deck (Dealer's OpenVotesInDeck); GetResultHint has an    *)
(* answer to others too, so here any card may be cast.                       *)

VARIABLES deck, votes
vars == <<deck, votes>>

Init == deck \in Decks /\ votes = << >>

CastVote(p, card) ==
    /\ votes' = [q \in DOMAIN votes \cup {p} |-> IF q = p THEN card ELSE votes[q]]
    /\ UNCHANGED deck

RetractVote(p) ==
    /\ p \in DOMAIN votes
    /\ votes' = [q \in DOMAIN votes \ {p} |-> votes[q]]
    /\ UNCHANGED deck

Next ==
    \/ \E p \in Players, card \in Cards : CastVote(p, card)
    \/ \E p \in Players : RetractVote(p)

Spec == Init /\ [][Next]_vars

-----------------------------------------------------------------------------
(* Properties *)

hint == GetResultHint(deck, votes)

Counted == {p \in DOMAIN votes : votes[p] # Uncertainty}
InDeck == \A p \in Counted : votes[p] \in ToSet(deck)

\* A hint is computed exactly when every counted vote is a card of the deck,
\* and it proposes a card someone voted for, never the uncertainty card
\* (hints.go: median picks one of the positions).
ProposesAVotedCard ==
    /\ hint = Failed <=> ~ InDeck
    /\ hint # Failed /\ Counted # {} => hint.value \in {votes[p] : p \in Counted}

\* The proposed card is as near to the votes, counted in cards of the deck, as
\* any card of the deck could be; of the cards voted for that are equally near
\* it is the highest ("Test round up", hints_test.go:24).
ProposesTheNearestCard ==
    InDeck /\ Counted # {} =>
        LET cost(k) == TotalDistance(getVotesAsDeckIndexes(deck, votes), k)
            at == Index(deck, hint.value)
        IN  /\ \A k \in DOMAIN deck : cost(at) <= cost(k)
            /\ \A p \in Counted :
                 cost(Index(deck, votes[p])) = cost(at) => Index(deck, votes[p]) <= at

\* A hint is acceptable exactly when no vote is more than one card away from
\* the proposed card and at least half of them are that very card.
AcceptableMeansAgreement ==
    InDeck /\ Counted # {} =>
        LET at == Index(deck, hint.value)
            agreeing == {p \in Counted : votes[p] = hint.value}
        IN  hint.acceptable <=>
                /\ \A p \in Counted : Distance(Index(deck, votes[p]), at) <= 1
                /\ 2 * Cardinality(agreeing) >= Cardinality(Counted)

\* Every hint says something, an acceptable one never gives a reason for
\* rejection, and "bingo" is said exactly when all counted votes are equal.
DescriptionFits ==
    InDeck /\ Counted # {} =>
        /\ hint.description # ""
        /\ hint.acceptable <=>
             hint.description \in {"bingo", "good job", "not bad", "you can do better"}
        /\ hint.description = "bingo" <=> \A p, q \in Counted : votes[p] = votes[q]

=============================================================================

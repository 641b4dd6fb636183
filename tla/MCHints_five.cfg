SPECIFICATION Spec
CONSTANTS
    p1 = p1
    p2 = p2
    p3 = p3
    p4 = p4
    p5 = p5
    Players = {p1, p2, p3, p4, p5}
    Uncertainty = 0
    Failed = Failed
    NoCard = NoCard
CONSTANTS
    Cards <- MCCards
    Decks <- MCDecks
INVARIANTS ProposesAVotedCard ProposesTheNearestCard AcceptableMeansAgreement DescriptionFits

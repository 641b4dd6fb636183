\* Rounds, decks and the room file: two issues, two cards in two decks, timers,
\* a publication in progress while the room goes on, or is left and rejoined from
\* a file that may be one write behind, or spoiled.
SPECIFICATION Spec
CONSTANTS
    d = d
    p1 = p1
    a = a
    b = b
    c1 = c1
    c2 = c2
    None = None
    Players = {d}
    Issues = {a, b}
    Cards = {c1, c2}
    Self = d
    HasStorage = TRUE
    AutoReveal = TRUE
    MaxOutbox = 1
    WritesFail = "singly"
    MaxPending = 1
CONSTANT Decks <- DisjointDecks
CONSTANT DefaultDeck <- SmallDeck
CONSTANT Time <- OneTime
INVARIANTS TypeOK ActiveIssueIsOpen OpenVotesInDeck MyVoteFitsDeck SnapshotsAreBehind
PROPERTIES ImplementsVoting
SYMMETRY IssueSymmetry
VIEW RoundsView
\* A dealer whose file is lost does not come back.
CHECK_DEADLOCK FALSE

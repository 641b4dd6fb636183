\* A publication is still in progress when the next round is open.
SPECIFICATION Spec
CONSTANTS
    d = d
    p1 = p1
    a = a
    b = b
    c1 = c1
    c2 = c2
    None = None
    Players = {d, p1}
    Issues = {a, b}
    Cards = {c1}
    Self = d
    HasStorage = TRUE
    AutoReveal = FALSE
    MaxOutbox = 1
    WritesFail = "never"
    MaxPending = 1
CONSTANT Decks <- OneDeck
CONSTANT DefaultDeck <- SmallDeck
CONSTANT Time <- TwoTimes
INVARIANTS PublicationsHideOpenVotes

\* A delayed vote is taken although a later one has been taken before.
SPECIFICATION RoomSpec
CONSTANTS
    d = d
    p1 = p1
    a = a
    b = b
    c1 = c1
    c2 = c2
    None = None
    Players = {d, p1}
    Issues = {a}
    Cards = {c1}
    Self = d
    HasStorage = FALSE
    AutoReveal = FALSE
    MaxOutbox = 1
    WritesFail = "never"
    MaxPending = 1
    Visitors = {}
    MaxWire = 1
CONSTANT MaxSent <- GuestsVoteTwice
CONSTANT Decks <- OneDeck
CONSTANT DefaultDeck <- SmallDeck
CONSTANT Time <- Times
PROPERTIES OutdatedVotesAreIgnored

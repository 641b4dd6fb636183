\* A player's copy of the room over a network that loses, delays and repeats; once
\* the room is at rest, the player catches up with the dealer.
SPECIFICATION FairRoomSpec
CONSTANTS
    d = d
    p1 = p1
    a = a
    b = b
    c1 = c1
    c2 = c2
    None = None
    Players = {d, p1}
    Issues = {a}
    Cards = {c1}
    Self = d
    HasStorage = FALSE
    AutoReveal = FALSE
    MaxOutbox = 1
    WritesFail = "never"
    MaxPending = 1
    Visitors = {}
    MaxWire = 1
CONSTANT MaxSent <- OneVote
CONSTANT Decks <- OneDeck
CONSTANT DefaultDeck <- SmallDeck
CONSTANT Time <- Times
INVARIANTS RoomTypeOK OpenRoundsShowNoCards VotesWereCast
PROPERTIES PlayersCatchUp

SPECIFICATION FairSpec
CONSTANTS
    PlayerIDs = {i1, i2}
    Names = {n1}
    Peers = {q1, q2}
    StatusBuffer = 2
    NameLimit = 2
    Empty = Empty
    Missing = Missing
    Torn = Torn
INVARIANTS TypeOK LastStatusIsShown WaitIsEnding
PROPERTIES IdentityIsKept StatusIsShown PeersEndTheWait

\* One player, messages every 2 with up to 1 lost in a row and 1 late; the
\* timeout is one unit longer than that takes, as it has to be, and no more.
SPECIFICATION FairSpec
CONSTANTS
    p1 = p1
    Torn = Torn
    Players = {p1}
    OnlineMessagePeriod = 2
    MaxDelay = 1
    MaxQuiet = 4
    playerOnlineTimeout = 6
INVARIANTS TypeOK StayersAreHeard OnlineWereHereLately
PROPERTIES StayersEndOnline LeaversEndOffline

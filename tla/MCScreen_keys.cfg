SPECIFICATION FairSpec
CONSTANTS
    DeckSizes = {1, 2}
    MaxIssues = 2
    Unparsable = {2}
    PasteLimit = 1
    NoState = NoState
INVARIANTS TypeOK EnterStaysInRange OneHasTheKeys FetchedOnce AwaitedIsUnderWay
PROPERTIES EnterComesBack TitleIsFetched

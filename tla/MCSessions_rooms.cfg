SPECIFICATION FairSpec
CONSTANTS
    Routines = {"processIncomingMessages", "publishStateLoop"}
    MaxSessions = 2
    MessageBuffer = 1
    NoRoom = NoRoom
INVARIANTS TypeOK NobodyWaitsForALostChannel ShownRoomIsServed
PROPERTIES LeftRoutinesEnd SubscriptionKeepsUp

SPECIFICATION Spec
CONSTANTS MaxTabs = 2  MaxChats = 2  MaxMsgs = 3  MaxErrors = 1  Cap = 1
INVARIANTS TypeOK DeletedStaysDeleted ChatsAreKept
CHECK_DEADLOCK FALSE
PROPERTY FollowUpsStart

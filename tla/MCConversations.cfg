SPECIFICATION ConversationsSpec
CONSTANTS
    None = None
    Messages = {m1, m2, m3}
    Requests = {r1, r2}
    Operators = {o1, o2}
    StoreMayFail = TRUE
    MayCrash = TRUE
    SessionMayChange = TRUE
    Steady = {m1, m2}
    Single = {m3}
    Chats = {h1}
    MaxGeneration = 2
    Answers = {m3}
    Passages = {o1, o2, m3}
    Restricted = {m3}
    MaxPassages = 1
    MaxDrafts = 3
    MaxChunk = 4
    Overlap = 1
    MaxText = 7
    Chunks = {1, 2, 3}
    MaxEvidence = 2
    MaxPresses = 2
    MaxKeys = 2
SYMMETRY Symmetry
INVARIANTS
    OwnedWhileHuman
    MessagesRunOnce
    NothingSaidIsLost
    AnswersArePublic
PROPERTIES
    NothingStaleIsStored
CHECK_DEADLOCK FALSE

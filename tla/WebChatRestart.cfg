SPECIFICATION WebSpec
CONSTANTS
    Chats = {h1, h2}
    Messages = {m1}
    Fetches = {f1, f2}
    MaxGeneration = 2
    Unset = Unset
INVARIANTS
    RestartIsClean
CHECK_DEADLOCK FALSE

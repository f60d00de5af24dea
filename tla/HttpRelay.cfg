\* Requests of up to four lines in segments of up to three, replies cut anywhere, and
\* two changes of the shared challenge and count by other connections.
CONSTANTS
    Login = TRUE
    MaxSegment = 3
    MaxRequest = 4
    MaxExpire = 1
    MaxOthers = 2
SPECIFICATION FairSpec
CHECK_DEADLOCK FALSE
INVARIANTS RequestWhole ReplyIntact TriesBounded
PROPERTIES Served

\* Three connections at a Digest proxy with a new nonce in every challenge.
CONSTANTS
    Conns = {c1, c2, c3}
    Login = TRUE
    Right = TRUE
    Digest = TRUE
    Fresh = TRUE
    MaxNonce = 3
SPECIFICATION FairSpec
CHECK_DEADLOCK FALSE
INVARIANTS NoReplay RefusedNotRepeated
PROPERTIES Settles

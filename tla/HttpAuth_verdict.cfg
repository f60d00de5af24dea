CONSTANTS
    Conns = {c1, c2}
    Login = TRUE
    Right = TRUE
    Digest = TRUE
    Fresh = FALSE
    MaxNonce = 2
SPECIFICATION Spec
CHECK_DEADLOCK FALSE
INVARIANTS FailedMeansRefused

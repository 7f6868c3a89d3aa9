SPECIFICATION Spec
CONSTANTS
    Name <- MCName
    Body = {"u1", "u2", "e"}
    UserFiles <- MCUserFiles
    Embedded <- MCEmbedded
INVARIANTS NothingLost UserWins
CHECK_DEADLOCK FALSE

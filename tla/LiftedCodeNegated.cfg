CONSTANTS
    ByteBits = 2
    Insns <- Negated
    Starts <- MCStarts
SPECIFICATION FairSpec
INVARIANT AlwaysEquivalent
CHECK_DEADLOCK FALSE

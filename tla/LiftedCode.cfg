CONSTANTS
    ByteBits = 2
    Insns <- MCInsns
    Starts <- MCStarts
SPECIFICATION FairSpec
INVARIANTS TypeOK Equivalent Declared
PROPERTY Ends
CHECK_DEADLOCK FALSE

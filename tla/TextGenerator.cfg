CONSTANTS
    TagLists <- MCTagLists
    Insns <- MCTextInsns
    Body <- MCBody
    Depth = 6
    Workers = 2
    NoFile = NoFile
SPECIFICATION FairSpec
INVARIANTS TypeOK ReadsLikeBehaviour AddressesAreTargets ExtensionsMarked
PROPERTIES Implements Ends
CHECK_DEADLOCK FALSE

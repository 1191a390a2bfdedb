SPECIFICATION Spec
CONSTANTS
    SizeBits = 6
    IntBits = 4
    MaxLength = 10
    Unset = {65, 160}
    WordBits = 10
    Contents <- MCContents
    Writes <- MCWrites
    Literals <- MCLiterals
    Tokens <- MCTokens
INVARIANTS StringTypeOK AcceptsWellFormed IntegersAreRight TreesFollowTheGrammar
PROPERTIES WritesAppend GrowsToPowersOfTwo
CHECK_DEADLOCK FALSE

SPECIFICATION Spec
CONSTANTS
    SizeBits = 6
    IntBits = 4
    MaxLength = 10
    Unset = {65, 160}
    WordBits = 10
    Contents <- MCContents
    Writes <- MCWrites
    Literals <- MCLiterals
    Tokens <- MCTokens
INVARIANT AcceptsUtf8
CHECK_DEADLOCK FALSE

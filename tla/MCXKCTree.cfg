CONSTANTS
    INVALID = INVALID
    None = None
    Symbols <- MCSymbols
    TreeAlphabet <- MCTreeAlphabet
SPECIFICATION Spec
INVARIANT TypeOK
INVARIANT Shape
INVARIANT Balance
INVARIANT DepthMonotone

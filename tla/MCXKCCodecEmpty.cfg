CONSTANTS
    Width = 1
    CountMax = 2
    None = None
    Inputs <- MCEmptyInput
SPECIFICATION Spec
INVARIANT NoUndefinedRead

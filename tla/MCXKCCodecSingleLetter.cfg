CONSTANTS
    Width = 1
    CountMax = 2
    None = None
    Inputs <- MCNonEmptyInputs
SPECIFICATION Spec
INVARIANT RoundTrip

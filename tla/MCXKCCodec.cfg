CONSTANTS
    Width = 1
    CountMax = 2
    None = None
    Inputs <- MCMultiLetterInputs
SPECIFICATION Spec
INVARIANT TypeOK
INVARIANT RoundTrip
INVARIANT TreesAgree
INVARIANT BitCountExact

CONSTANTS
    Width = 2
    CountMax = 2
    None = None
    Inputs <- MCWideInputs
SPECIFICATION Spec
INVARIANT TreesAgree

CONSTANTS
    X86_64Kernels <- MCKernels
    CanFail <- MCCanFail
    ClassResults <- MCValidResults
    DeviceResults <- MCValidResults
    MaxOpens <- MCMaxOpens
SPECIFICATION Spec
INVARIANT NoFileOpenAfterFailedInit

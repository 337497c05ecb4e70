CONSTANTS
    X86_64Kernels <- MCKernels
    CanFail <- MCCanFail
    ClassResults <- MCErrPtrResults
    DeviceResults <- MCValidResults
    MaxOpens <- MCMaxOpens
SPECIFICATION Spec
INVARIANT SuccessMeansDevice

CONSTANTS
    X86_64Kernels <- MCKernels
    CanFail <- MCCanFail
    ClassResults <- MCErrPtrResults
    DeviceResults <- MCErrPtrResults
    MaxOpens <- MCMaxOpens
SPECIFICATION Spec
INVARIANT NoOops

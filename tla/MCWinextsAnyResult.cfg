CONSTANTS
    X86_64Kernels <- MCKernels
    CanFail <- MCCanFail
    ClassResults <- MCAnyResults
    DeviceResults <- MCAnyResults
    MaxOpens <- MCMaxOpens
SPECIFICATION Spec
INVARIANT SuccessKeepsChecked

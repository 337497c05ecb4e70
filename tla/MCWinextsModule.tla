-------------------------- MODULE MCWinextsModule --------------------------
(* Instances of WinextsModule for TLC: both values of CONFIG_X86_64, every  *)
(* fallible call allowed to fail, up to eight open files.                    *)
EXTENDS WinextsModule

MCKernels == {TRUE, FALSE}
MCCanFail == FallibleCalls
\* The calls succeed or report failure with an error pointer, as the
\* kernel's class_create and device_create do.
MCErrPtrResults == {"valid", "errptr"}
\* Every result the model knows, the NULL the checks at lines 40 and 64
\* test for included
MCAnyResults == Pointers
\* Runs in which class_create and device_create always succeed
MCValidResults == {"valid"}
MCMaxOpens == 8
=============================================================================

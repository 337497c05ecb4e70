--------------------------- MODULE WinextsAbstract ---------------------------
(***************************************************************************)
(* What the kernel expects of a module's init and exit functions, the      *)
(* contract src/winexts/main.c implements with init_mod and free_mod       *)
(* (module_init and module_exit, lines 10-11).                             *)
(*                                                                         *)
(* While init runs it acquires resources and gives none back.  It then     *)
(* returns 0 with all of its resources in place, or returns an error with  *)
(* none of them left, and then the module is gone.  Exit runs only on a    *)
(* live module and releases everything.  A gone module may be loaded       *)
(* again.                                                                  *)
(***************************************************************************)

CONSTANT Resources  \* what a loaded module holds

VARIABLES
    status,  \* "loading" (init running), "live" or "gone"
    owned    \* the resources that exist

absVars == <<status, owned>>

AInit == status = "loading" /\ owned = {}

\* init makes progress: it may acquire resources, and releases none
Acquire ==
    /\ status = "loading"
    /\ owned \subseteq owned' /\ owned' \subseteq Resources
    /\ UNCHANGED status

\* init returns 0: everything is in place
InitOk ==
    /\ status = "loading"
    /\ status' = "live"
    /\ owned' = Resources

\* init returns an error: nothing is left behind
InitFail ==
    /\ status = "loading"
    /\ status' = "gone"
    /\ owned' = {}

\* exit releases everything
Exit ==
    /\ status = "live"
    /\ status' = "gone"
    /\ owned' = {}

\* the module is loaded again
Load ==
    /\ status = "gone"
    /\ status' = "loading"
    /\ UNCHANGED owned

ANext == Acquire \/ InitOk \/ InitFail \/ Exit \/ Load

ASpec == AInit /\ [][ANext]_absVars

=============================================================================

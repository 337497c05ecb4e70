---------------------------- MODULE WinextsModule ----------------------------
(***************************************************************************)
(* The load and unload of the winexts kernel module, src/winexts/main.c:   *)
(* init_mod (lines 17-120) and free_mod (122-131).                         *)
(*                                                                         *)
(* init_mod acquires, in order, a chrdev region, a device class, a cdev    *)
(* and a device node, looks up three kernel symbols and installs its       *)
(* hooks; every failure unwinds what the code believes it holds and        *)
(* returns -1.  One action per kernel call, its failure branch included.   *)
(*                                                                         *)
(* `held` is what really exists in the kernel, `gcl` what the code keeps   *)
(* in g_cl.  The kernel calls are the environment: each may succeed or     *)
(* fail, and they report failure the way the kernel API does.              *)
(* class_create and device_create return an ERR_PTR on failure, never      *)
(* NULL.  The constants ClassResults and DeviceResults say which results a *)
(* run lets them return.  Users may open and close the device node once it *)
(* exists; the kernel lets rmmod run only when no file is open.            *)
(***************************************************************************)
EXTENDS Naturals, FiniteSets

CONSTANTS
    X86_64Kernels,  \* the values CONFIG_X86_64 may have: subset of BOOLEAN
    CanFail,        \* the calls that may fail, a subset of FallibleCalls
    ClassResults,   \* what class_create may return
    DeviceResults,  \* what device_create may return with a valid class
    MaxOpens        \* bound on the files users hold open at once

\* The kernel objects init_mod creates
Objects == {"region", "class", "cdev", "device", "hooks"}

FallibleCalls == {"region", "cdev", "css", "tasklist", "runqueues", "hooks"}

\* A pointer returned by class_create or device_create
Pointers == {"valid", "errptr", "null"}

ASSUME WinextsAssumption ==
    /\ X86_64Kernels \subseteq BOOLEAN /\ X86_64Kernels # {}
    /\ CanFail \subseteq FallibleCalls
    /\ ClassResults \subseteq Pointers /\ ClassResults # {}
    /\ DeviceResults \subseteq Pointers /\ DeviceResults # {}
    /\ MaxOpens \in Nat

VARIABLES
    x86,    \* CONFIG_X86_64
    pc,     \* the step of init_mod or free_mod about to run
    held,   \* the kernel objects that exist
    gcl,    \* g_cl: what class_create returned
    ret,    \* init_mod's return value, once it has returned
    opens,  \* files open on the device node
    oops    \* a kernel call dereferenced an error pointer

vars == <<x86, pc, held, gcl, ret, opens, oops>>

\* The steps of init_mod, in order, and the states after it returns
InitSteps == {"load", "region", "class", "cdev", "device", "css", "tasklist",
              "runqueues", "hooks"}

Init ==
    /\ x86 \in X86_64Kernels
    /\ pc = "load"
    /\ held = {}
    /\ gcl = "null"
    /\ ret = "pending"
    /\ opens = 0
    /\ oops = FALSE

(***************************************************************************)
(* The release calls of an unwinding path or of free_mod.  device_destroy  *)
(* looks the device up through g_cl, which faults when g_cl is an error    *)
(* pointer; class_destroy ignores an error pointer; cdev_del,              *)
(* unregister_chrdev_region and clean_hooks release their object.          *)
(***************************************************************************)
Teardown(calls) ==
    /\ held' = held \ calls
    /\ oops' = (oops \/ ("device" \in calls /\ gcl = "errptr"))

\* init_mod returns -1 after releasing `calls`
Fail(calls) ==
    /\ Teardown(calls)
    /\ ret' = "fail"
    /\ pc' = "done"

\* init_mod goes on with step `next`, having acquired `objs`
Continue(objs, next) ==
    /\ held' = held \cup objs
    /\ pc' = next
    /\ UNCHANGED <<ret, oops>>

\* #if !defined(CONFIG_X86_64) return -1 (21-25)
Load ==
    /\ pc = "load"
    /\ IF x86 THEN Continue({}, "region") ELSE Fail({})
    /\ UNCHANGED <<x86, gcl, opens>>

\* alloc_chrdev_region (27-36)
AllocRegion ==
    /\ pc = "region"
    /\ \/ Continue({"region"}, "class")
       \/ "region" \in CanFail /\ Fail({})
    /\ UNCHANGED <<x86, gcl, opens>>

\* class_create and its NULL check (38-48)
ClassCreate ==
    /\ pc = "class"
    /\ \E r \in ClassResults :
          /\ gcl' = r
          /\ IF r = "null"
                THEN Fail({"region"})
                ELSE Continue(IF r = "valid" THEN {"class"} ELSE {}, "cdev")
    /\ UNCHANGED <<x86, opens>>

\* Faulty variant of CdevAdd, for the mutation runs: the failure path
\* forgets class_destroy.
CdevAddLeakClass ==
    /\ pc = "cdev"
    /\ \/ Continue({"cdev"}, "device")
       \/ "cdev" \in CanFail /\ Fail({"region"})
    /\ UNCHANGED <<x86, gcl, opens>>

\* cdev_init and cdev_add (50-62): the device is live from here on
CdevAdd ==
    /\ pc = "cdev"
    /\ \/ Continue({"cdev"}, "device")
       \/ "cdev" \in CanFail /\ Fail({"class", "region"})
    /\ UNCHANGED <<x86, gcl, opens>>

\* device_create and its NULL check (64-73).  With an error pointer for a
\* class, device_create fails with an error pointer itself.
DeviceCreate ==
    /\ pc = "device"
    /\ \E r \in DeviceResults :
          LET got == IF gcl = "valid" THEN r ELSE "errptr"
          IN  IF got = "null"
                 THEN Fail({"class", "cdev", "region"})
                 ELSE Continue(IF got = "valid" THEN {"device"} ELSE {}, "css")
    /\ UNCHANGED <<x86, gcl, opens>>

\* The step after each symbol lookup
NextLookup == [css |-> "tasklist", tasklist |-> "runqueues", runqueues |-> "hooks"]

\* find_css_set_lock, find_tasklist_lock, find_cpu_runqueues (75-103): a
\* failure destroys device, class, cdev and region.
Lookup(step) ==
    /\ pc = step
    /\ \/ Continue({}, NextLookup[step])
       \/ step \in CanFail /\ Fail({"device", "class", "cdev", "region"})
    /\ UNCHANGED <<x86, gcl, opens>>

\* Faulty variant of InitHooks, for the mutation runs: the failure path
\* returns 0.
InitHooksFailReturnsZero ==
    /\ pc = "hooks"
    /\ \/ held' = held \cup {"hooks"}
       \/ "hooks" \in CanFail /\ held' = held
    /\ pc' = "live"
    /\ ret' = "ok"
    /\ UNCHANGED oops
    /\ UNCHANGED <<x86, gcl, opens>>

\* init_hooks (105-119): success makes init_mod return 0
InitHooks ==
    /\ pc = "hooks"
    /\ \/ /\ held' = held \cup {"hooks"}
          /\ pc' = "live"
          /\ ret' = "ok"
          /\ UNCHANGED oops
       \/ "hooks" \in CanFail /\ Fail({"device", "class", "cdev", "region"})
    /\ UNCHANGED <<x86, gcl, opens>>

\* free_mod (122-131), run by rmmod once no file holds the module
FreeMod ==
    /\ pc = "live"
    /\ opens = 0
    /\ Teardown({"hooks", "device", "class", "cdev", "region"})
    /\ pc' = "unloaded"
    /\ UNCHANGED <<x86, gcl, ret, opens>>

\* insmod again after a failed load or an unload: a fresh copy of the
\* module, whose static g_cl is zero again (line 5)
Reload ==
    /\ pc \in {"done", "unloaded"}
    /\ pc' = "load"
    /\ ret' = "pending"
    /\ gcl' = "null"
    /\ UNCHANGED <<x86, held, opens, oops>>

\* A user opens the device node, which needs the node and the cdev.
Open ==
    /\ {"cdev", "device"} \subseteq held
    /\ opens < MaxOpens
    /\ opens' = opens + 1
    /\ UNCHANGED <<x86, pc, held, gcl, ret, oops>>

\* A user closes a file open on the device
Close ==
    /\ opens > 0
    /\ opens' = opens - 1
    /\ UNCHANGED <<x86, pc, held, gcl, ret, oops>>

\* One step of init_mod, run by the insmod thread until it returns
InitStep ==
    \/ Load \/ AllocRegion \/ ClassCreate \/ CdevAdd \/ DeviceCreate
    \/ Lookup("css") \/ Lookup("tasklist") \/ Lookup("runqueues")
    \/ InitHooks

Next == InitStep \/ FreeMod \/ Reload \/ Open \/ Close

Spec == Init /\ [][Next]_vars

-----------------------------------------------------------------------------
(***************************************************************************)
(* Properties                                                              *)
(***************************************************************************)

TypeOK ==
    /\ x86 \in BOOLEAN
    /\ pc \in InitSteps \cup {"live", "done", "unloaded"}
    /\ held \subseteq Objects
    /\ gcl \in Pointers
    /\ ret \in {"pending", "ok", "fail"}
    /\ opens \in 0..MaxOpens
    /\ oops \in BOOLEAN

\* No leak: once init_mod has failed or free_mod has run, every object the
\* module created is gone, whichever call failed, and across reloads.  Each
\* unwinding path of init_mod must release exactly what precedes it.
ReleasedWhenGone == pc \in {"done", "unloaded"} => held = {}

\* A module that init_mod reports loaded has its region, class, cdev,
\* device node and hooks: a return of 0 means the device is there.
SuccessMeansDevice == pc = "live" => Objects \subseteq held

\* No kernel call of init_mod or free_mod dereferences an error pointer.
NoOops == ~oops

\* No file stays open on the device of a module whose init_mod failed: its
\* code is freed when init_mod returns an error.
NoFileOpenAfterFailedInit == pc = "done" /\ ret = "fail" => opens = 0

\* The module as the kernel sees it: loading while init_mod runs, live
\* once it has returned 0, gone once it has failed or free_mod has run.
ModuleStatus ==
    IF pc = "live" THEN "live"
    ELSE IF pc \in {"done", "unloaded"} THEN "gone"
    ELSE "loading"

Abs == INSTANCE WinextsAbstract WITH Resources <- Objects, status <- ModuleStatus,
                                     owned <- held

\* init_mod and free_mod implement the kernel's contract for module_init
\* and module_exit (WinextsAbstract): init only acquires while it runs,
\* returns 0 with every object in place or -1 with none left, and free_mod
\* releases everything.
AbstractSpec == Abs!ASpec

\* What a return of 0 still guarantees when the kernel reports failure the
\* way it does: the region, cdev and hooks, whose failures init_mod sees
\* through return codes, exist; the class exists exactly when g_cl is a
\* valid pointer, and a device node only with a class.  A failed
\* class_create or device_create is the only way to reach "live" short of
\* an object.
SuccessKeepsChecked ==
    pc = "live" =>
        /\ {"region", "cdev", "hooks"} \subseteq held
        /\ ("class" \in held <=> gcl = "valid")
        /\ ("device" \in held => "class" \in held)


=============================================================================

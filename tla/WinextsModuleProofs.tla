------------------------- MODULE WinextsModuleProofs -------------------------
(***************************************************************************)
(* Proofs about the load and unload of the winexts kernel module           *)
(* (WinextsModule, init_mod and free_mod of src/winexts/main.c): no kernel *)
(* object outlives a failed init_mod or a free_mod, for every kernel,      *)
(* every set of failing calls and every result class_create and            *)
(* device_create may return.                                               *)
(*                                                                         *)
(* ReleasedWhenGone is not inductive: it says nothing of the objects held  *)
(* while init_mod runs, so a step that fails could leave one behind.  The  *)
(* strengthening bounds what is held at each step of init_mod by what the *)
(* calls before that step create (Expected); each unwinding path releases *)
(* at least that.                                                          *)
(***************************************************************************)
EXTENDS WinextsModule, TLAPS

\* The objects the calls before each step of init_mod may have created
Expected ==
    [load |-> {}, region |-> {}, class |-> {"region"},
     cdev |-> {"region", "class"}, device |-> {"region", "class", "cdev"},
     css |-> {"region", "class", "cdev", "device"},
     tasklist |-> {"region", "class", "cdev", "device"},
     runqueues |-> {"region", "class", "cdev", "device"},
     hooks |-> {"region", "class", "cdev", "device"},
     live |-> Objects, done |-> {}, unloaded |-> {}]

\* What is held never exceeds what the earlier calls created.
HeldOK == held \subseteq Expected[pc]

IInv == TypeOK /\ HeldOK

\* The initial state, before insmod runs init_mod, holds nothing.
LEMMA InitIInv == Init => IInv
<1> SUFFICES ASSUME Init PROVE IInv  OBVIOUS
<1>1. x86 \in BOOLEAN /\ opens \in 0 .. MaxOpens
  BY WinextsAssumption DEF Init
<1>2. TypeOK  BY <1>1 DEF Init, TypeOK, InitSteps, Pointers
<1>3. HeldOK  BY DEF Init, HeldOK, Expected
<1>. QED  BY <1>2, <1>3 DEF IInv

\* A failing step releases everything the earlier calls created.
LEMMA FailIInv ==
  ASSUME TypeOK, HeldOK, NEW calls, held \subseteq calls, calls \subseteq Objects,
         Fail(calls), UNCHANGED <<x86, opens>>, gcl' \in Pointers
  PROVE  IInv'
BY DEF Fail, Teardown, IInv, TypeOK, HeldOK, Expected, InitSteps

\* A step of init_mod that goes on keeps what it holds within Expected.
LEMMA ContinueIInv ==
  ASSUME TypeOK, NEW objs, NEW next \in InitSteps \cup {"live"},
         held \cup objs \subseteq Expected[next],
         Continue(objs, next), UNCHANGED <<x86, opens>>, gcl' \in Pointers
  PROVE  IInv'
BY DEF Continue, IInv, TypeOK, HeldOK, Expected, InitSteps, Objects

\* Every step of the insmod thread keeps IInv.
LEMMA InitStepIInv == IInv /\ InitStep => IInv'
<1> SUFFICES ASSUME IInv, InitStep PROVE IInv'  OBVIOUS
<1>1. CASE Load
  BY <1>1, FailIInv, ContinueIInv DEF Load, IInv, TypeOK, HeldOK, Expected, InitSteps
<1>2. CASE AllocRegion
  BY <1>2, FailIInv, ContinueIInv
     DEF AllocRegion, IInv, TypeOK, HeldOK, Expected, InitSteps, Objects
<1>3. CASE ClassCreate
  <2>1. PICK r \in ClassResults :
          /\ gcl' = r
          /\ IF r = "null"
                THEN Fail({"region"})
                ELSE Continue(IF r = "valid" THEN {"class"} ELSE {}, "cdev")
    BY <1>3 DEF ClassCreate
  <2>2. pc = "class" /\ UNCHANGED <<x86, opens>> /\ gcl' \in Pointers
    BY <1>3, <2>1, WinextsAssumption DEF ClassCreate
  <2>3. CASE r = "null"
    BY <2>1, <2>2, <2>3, FailIInv DEF IInv, HeldOK, Expected, Objects
  <2>4. CASE r # "null"
    BY <2>1, <2>2, <2>4, ContinueIInv DEF IInv, HeldOK, Expected, InitSteps
  <2>. QED  BY <2>3, <2>4
<1>4. CASE CdevAdd
  BY <1>4, FailIInv, ContinueIInv
     DEF CdevAdd, IInv, TypeOK, HeldOK, Expected, InitSteps, Objects
<1>5. CASE DeviceCreate
  <2>1. PICK r \in DeviceResults :
          LET got == IF gcl = "valid" THEN r ELSE "errptr"
          IN  IF got = "null"
                 THEN Fail({"class", "cdev", "region"})
                 ELSE Continue(IF got = "valid" THEN {"device"} ELSE {}, "css")
    BY <1>5 DEF DeviceCreate
  <2>2. pc = "device" /\ UNCHANGED <<x86, gcl, opens>> /\ gcl' \in Pointers
    BY <1>5 DEF DeviceCreate, IInv, TypeOK
  <2> DEFINE got == IF gcl = "valid" THEN r ELSE "errptr"
  <2>3. CASE got = "null"
    BY <2>1, <2>2, <2>3, FailIInv DEF IInv, HeldOK, Expected, Objects
  <2>4. CASE got # "null"
    BY <2>1, <2>2, <2>4, ContinueIInv DEF IInv, HeldOK, Expected, InitSteps
  <2>. QED  BY <2>3, <2>4
<1>6. ASSUME NEW step \in {"css", "tasklist", "runqueues"}, Lookup(step)
      PROVE  IInv'
  <2>1. pc = step /\ UNCHANGED <<x86, gcl, opens>> /\ gcl' \in Pointers
    BY <1>6 DEF Lookup, IInv, TypeOK
  <2>2. NextLookup[step] \in InitSteps
        /\ Expected[step] \subseteq Expected[NextLookup[step]]
    BY DEF NextLookup, InitSteps, Expected
  <2>. QED
    BY <1>6, <2>1, <2>2, FailIInv, ContinueIInv
       DEF Lookup, IInv, HeldOK, Expected, Objects
<1>7. CASE InitHooks
  <2>1. pc = "hooks" /\ UNCHANGED <<x86, gcl, opens>> /\ gcl' \in Pointers
    BY <1>7 DEF InitHooks, IInv, TypeOK
  <2>2. CASE held' = held \cup {"hooks"} /\ pc' = "live" /\ ret' = "ok"
             /\ UNCHANGED oops
    BY <2>1, <2>2 DEF IInv, TypeOK, HeldOK, Expected, Objects
  <2>3. CASE Fail({"device", "class", "cdev", "region"})
    BY <2>1, <2>3, FailIInv DEF IInv, HeldOK, Expected, Objects
  <2>. QED  BY <1>7, <2>2, <2>3 DEF InitHooks
<1>. QED  BY <1>1, <1>2, <1>3, <1>4, <1>5, <1>6, <1>7 DEF InitStep

\* Every step of the system keeps IInv.
LEMMA NextIInv == IInv /\ [Next]_vars => IInv'
<1> SUFFICES ASSUME IInv, [Next]_vars PROVE IInv'  OBVIOUS
<1>1. CASE InitStep  BY <1>1, InitStepIInv
<1>2. CASE FreeMod
  BY <1>2 DEF FreeMod, Teardown, IInv, TypeOK, HeldOK, Expected, InitSteps, Objects
<1>3. CASE Reload
  BY <1>3 DEF Reload, IInv, TypeOK, HeldOK, Expected, InitSteps, Pointers
<1>4. CASE Open \/ Close
  BY <1>4, WinextsAssumption DEF Open, Close, IInv, TypeOK, HeldOK
<1>5. CASE UNCHANGED vars
  BY <1>5 DEF vars, IInv, TypeOK, HeldOK
<1>. QED  BY <1>1, <1>2, <1>3, <1>4, <1>5 DEF Next

\* No leak in init_mod's unwinding or in free_mod: whenever init_mod has
\* returned an error or free_mod has run, the region, class, cdev, device
\* node and hooks are all released.
THEOREM NoLeak == Spec => []ReleasedWhenGone
<1>1. IInv => ReleasedWhenGone  BY DEF IInv, HeldOK, Expected, ReleasedWhenGone
<1>. QED  BY <1>1, InitIInv, NextIInv, PTL DEF Spec

\* Type correctness of init_mod and free_mod: the step, the objects, g_cl,
\* the return value and the count of open files stay in their ranges.
THEOREM TypeCorrect == Spec => []TypeOK
<1>1. IInv => TypeOK  BY DEF IInv
<1>. QED  BY <1>1, InitIInv, NextIInv, PTL DEF Spec

-----------------------------------------------------------------------------
(***************************************************************************)
(* What a return of 0 guarantees, whatever class_create and device_create *)
(* return.  SuccessKeepsChecked is not inductive either: it speaks only of *)
(* "live".  The strengthening says which objects each step of init_mod is  *)
(* sure to find (those whose failure an earlier step would have seen, Sure) *)
(* and ties the class and the device node to g_cl at every step.           *)
(***************************************************************************)

\* The steps after class_create
AfterClass == {"cdev", "device", "css", "tasklist", "runqueues", "hooks", "live"}

\* The objects each step surely finds: those the earlier calls created and
\* reported through a return code init_mod checks correctly
Sure ==
    [load |-> {}, region |-> {}, class |-> {"region"}, cdev |-> {"region"},
     device |-> {"region", "cdev"}, css |-> {"region", "cdev"},
     tasklist |-> {"region", "cdev"}, runqueues |-> {"region", "cdev"},
     hooks |-> {"region", "cdev"}, live |-> {"region", "cdev", "hooks"},
     done |-> {}, unloaded |-> {}]

Checked ==
    /\ Sure[pc] \subseteq held
    /\ "class" \in held => gcl = "valid"
    /\ "device" \in held => "class" \in held
    /\ pc \in AfterClass /\ gcl = "valid" => "class" \in held

SInv == IInv /\ Checked

\* Before insmod runs, nothing is held and nothing is expected.
LEMMA InitSInv == Init => SInv
BY InitIInv DEF Init, SInv, Checked, Sure, AfterClass

\* The steps of the insmod thread keep Checked.
LEMMA InitStepChecked ==
  ASSUME SInv, InitStep
  PROVE  Checked'
<1>1. CASE Load
  BY <1>1 DEF Load, Continue, Fail, Teardown, Checked, Sure, AfterClass, SInv
<1>2. CASE AllocRegion
  BY <1>2 DEF AllocRegion, Continue, Fail, Teardown, Checked, Sure, AfterClass,
              SInv, IInv, HeldOK, Expected
<1>3. CASE ClassCreate
  <2>1. PICK r \in ClassResults :
          /\ gcl' = r
          /\ IF r = "null"
                THEN Fail({"region"})
                ELSE Continue(IF r = "valid" THEN {"class"} ELSE {}, "cdev")
    BY <1>3 DEF ClassCreate
  <2>2. pc = "class" /\ held \subseteq {"region"} /\ "region" \in held
    BY <1>3 DEF ClassCreate, SInv, IInv, HeldOK, Expected, Checked, Sure
  <2>3. CASE r = "null"
    BY <2>1, <2>2, <2>3 DEF Fail, Teardown, Checked, Sure, AfterClass
  <2>4. CASE r = "valid"
    BY <2>1, <2>2, <2>4 DEF Continue, Checked, Sure, AfterClass
  <2>5. CASE r # "null" /\ r # "valid"
    BY <2>1, <2>2, <2>5 DEF Continue, Checked, Sure, AfterClass
  <2>. QED  BY <2>3, <2>4, <2>5
<1>4. CASE CdevAdd
  BY <1>4 DEF CdevAdd, Continue, Fail, Teardown, Checked, Sure, AfterClass,
              SInv, IInv, HeldOK, Expected
<1>5. CASE DeviceCreate
  <2>1. PICK r \in DeviceResults :
          LET got == IF gcl = "valid" THEN r ELSE "errptr"
          IN  IF got = "null"
                 THEN Fail({"class", "cdev", "region"})
                 ELSE Continue(IF got = "valid" THEN {"device"} ELSE {}, "css")
    BY <1>5 DEF DeviceCreate
  <2>2. pc = "device" /\ gcl' = gcl /\ held \subseteq {"region", "class", "cdev"}
    BY <1>5 DEF DeviceCreate, SInv, IInv, HeldOK, Expected
  <2>3. Checked  BY DEF SInv
  <2>. QED  BY <2>1, <2>2, <2>3 DEF Continue, Fail, Teardown, Checked, Sure, AfterClass
<1>6. ASSUME NEW step \in {"css", "tasklist", "runqueues"}, Lookup(step)
      PROVE  Checked'
  BY <1>6 DEF Lookup, NextLookup, Continue, Fail, Teardown, Checked, Sure,
              AfterClass, SInv, IInv, HeldOK, Expected
<1>7. CASE InitHooks
  BY <1>7 DEF InitHooks, Fail, Teardown, Checked, Sure, AfterClass,
              SInv, IInv, HeldOK, Expected
<1>. QED  BY <1>1, <1>2, <1>3, <1>4, <1>5, <1>6, <1>7 DEF InitStep

\* Every step of the system keeps SInv.
LEMMA NextSInv == SInv /\ [Next]_vars => SInv'
<1> SUFFICES ASSUME SInv, [Next]_vars PROVE SInv'  OBVIOUS
<1>1. IInv'  BY NextIInv DEF SInv
<1>2. CASE InitStep  BY <1>1, <1>2, InitStepChecked DEF SInv
<1>3. CASE FreeMod  BY <1>1, <1>3 DEF FreeMod, Teardown, SInv, Checked, Sure, AfterClass
<1>4. CASE Reload
  BY <1>1, <1>4 DEF Reload, SInv, IInv, HeldOK, Expected, Checked, Sure, AfterClass
<1>5. CASE Open \/ Close  BY <1>1, <1>5 DEF Open, Close, SInv, Checked
<1>6. CASE UNCHANGED vars  BY <1>1, <1>6 DEF vars, SInv, Checked
<1>. QED  BY <1>2, <1>3, <1>4, <1>5, <1>6 DEF Next

\* What a return of 0 from init_mod guarantees for every result
\* class_create and device_create may return, ERR_PTR included: the region,
\* cdev and hooks exist, the class exists exactly when g_cl is valid, and a
\* device node only with a class.  Only the two pointer checks at lines 40
\* and 64 can let init_mod succeed short of an object.
THEOREM SuccessKeepsCheckedHolds == Spec => []SuccessKeepsChecked
<1>1. SInv => SuccessKeepsChecked
  <2> SUFFICES ASSUME SInv, pc = "live"
               PROVE  /\ {"region", "cdev", "hooks"} \subseteq held
                      /\ ("class" \in held <=> gcl = "valid")
                      /\ ("device" \in held => "class" \in held)
    BY DEF SuccessKeepsChecked
  <2>1. Sure[pc] = {"region", "cdev", "hooks"} /\ pc \in AfterClass
    BY DEF Sure, AfterClass
  <2>. QED  BY <2>1 DEF SInv, Checked
<1>. QED  BY <1>1, InitSInv, NextSInv, PTL DEF Spec

=============================================================================

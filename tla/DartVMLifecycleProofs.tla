----------------------- MODULE DartVMLifecycleProofs -----------------------
(***************************************************************************)
(* One VM at a time, and a service isolate that finds it, for any number   *)
(* of shells and launches.  What carries the argument is who may be where: *)
(* the shell that is not idle holds gVMMutex, the one that launches holds  *)
(* gVMDependentsMutex too, and the step of that one shell tells the state  *)
(* of the VM.                                                              *)
(***************************************************************************)
EXTENDS DartVMLifecycle, TLAPS

USE DEF NoVM

Alive == {"starting", "running", "ending"}

\* A shell in Create or ~DartVMRef holds the locks.
LocksHeld ==
    \A s \in Shells : /\ step[s] # "idle" => vmMutex = s
                      /\ step[s] \in {"launch", "publish"} <=> dependents = s

\* The VM is as far as the shell at work on it.
StageOf(v) ==
    /\ vm[v] = "starting" => \E s \in Shells : step[s] = "publish"
    /\ vm[v] = "ending" => \E s \in Shells : step[s] = "destroy"
    /\ vm[v] = "running" => \A s \in Shells : step[s] \in {"idle", "create"}
Stages == \A v \in Instances : StageOf(v)

\* The pointers are those of the VM there is, and a reference keeps it running.
Pointers ==
    /\ \A v \in Instances : vm[v] \in {"running", "ending"} => gVM = v /\ gVMData = v
    /\ \A s \in Shells : ref[s] # NoVM => vm[ref[s]] = "running"

\* A service isolate has its VM.
Services ==
    \A v \in Instances : /\ vmService[v] # "missed"
                         /\ vmService[v] \in {"starting", "running"} => vm[v] \in Alive

LifecycleInv == VMTypeOK /\ LocksHeld /\ Stages /\ Pointers /\ Services /\ OneVM

USE DEF LifecycleInv

LEMMA InitHolds == VMInit => LifecycleInv
<1> SUFFICES ASSUME VMInit PROVE LifecycleInv
    OBVIOUS
<1> USE DEF VMInit
<1>1. VMTypeOK
    BY DEF VMTypeOK
<1>2. LocksHeld
    BY ShellsAssumption DEF LocksHeld
<1>3. Stages
    BY DEF Stages, StageOf
<1>4. Pointers
    BY DEF Pointers
<1>5. Services
    BY DEF Services
<1>6. OneVM
    BY DEF OneVM
<1> QED
    BY <1>1, <1>2, <1>3, <1>4, <1>5, <1>6

LEMMA EnterCreateStep ==
    ASSUME LifecycleInv, NEW s \in Shells, NEW leak \in BOOLEAN, EnterCreate(s, leak)
    PROVE  LifecycleInv'
<1>1. VMTypeOK'
    BY DEF EnterCreate, VMTypeOK
<1>2. LocksHeld'
    BY ShellsAssumption DEF EnterCreate, VMTypeOK, LocksHeld
<1>3. Stages'
    BY DEF EnterCreate, VMTypeOK, Stages, StageOf
<1>4. Pointers' /\ Services' /\ OneVM'
    BY DEF EnterCreate, Pointers, Services, OneVM
<1>. QED
    BY <1>1, <1>2, <1>3, <1>4

LEMMA CreateStep == ASSUME LifecycleInv, NEW s \in Shells, Create(s) PROVE LifecycleInv'
<1>1. VMTypeOK'
    BY DEF Create, VMTypeOK, Locked
<1>2. LocksHeld'
    BY ShellsAssumption DEF Create, VMTypeOK, LocksHeld
<1>3. \A o \in Shells : step[o] # "destroy"
    BY DEF Create, LocksHeld
<1>4. Stages'
  <2>1. CASE ~Locked(gVM) /\ step' = [step EXCEPT ![s] = "launch"] /\ UNCHANGED vm
    <3>1. \A v \in Instances : vm[v] \notin {"starting", "running", "ending"}
      BY <1>3, <2>1 DEF Create, Stages, StageOf, LocksHeld, Pointers, Locked, Instances
    <3>. QED
      BY <2>1, <3>1 DEF Stages, StageOf
  <2>2. CASE /\ step' = step \/ step' = [step EXCEPT ![s] = "idle"]
             /\ UNCHANGED vm
    BY <2>2 DEF Create, VMTypeOK, Stages, StageOf
  <2>. QED
    BY <2>1, <2>2 DEF Create
<1>5. Pointers'
  <2>1. CASE UNCHANGED <<gVM, gVMData, vm, ref>>
    BY <2>1 DEF Pointers
  <2>2. CASE Locked(gVM) /\ ref' = [ref EXCEPT ![s] = gVM] /\ UNCHANGED <<gVM, gVMData, vm>>
    BY <2>2 DEF VMTypeOK, Pointers, Locked
  <2>3. CASE ~Locked(gVM) /\ UNCHANGED <<vm, ref>>
    <3>1. \A v \in Instances : vm[v] \notin {"running", "ending"}
      BY <1>3, <2>3 DEF Stages, StageOf, Pointers, Locked, Instances, NoVM
    <3>. QED
      BY <2>3, <3>1 DEF Pointers
  <2>. QED
    BY <2>1, <2>2, <2>3 DEF Create
<1>6. Services' /\ OneVM'
  <2>1. UNCHANGED <<vm, vmService>>
    BY DEF Create
  <2>. QED
    BY <2>1 DEF Services, OneVM
<1>. QED
    BY <1>1, <1>2, <1>4, <1>5, <1>6

LEMMA LaunchStep == ASSUME LifecycleInv, NEW s \in Shells, Launch(s) PROVE LifecycleInv'
<1>1. \A v \in Instances : vm[v] \notin Alive
    BY DEF Launch, LocksHeld, Stages, StageOf, Alive
<1>2. CASE step' = [step EXCEPT ![s] = "idle"] /\ UNCHANGED <<vm, vmService>>
  <2>1. VMTypeOK'
    BY <1>2 DEF Launch, VMTypeOK
  <2>2. LocksHeld'
    BY <1>2, ShellsAssumption DEF Launch, VMTypeOK, LocksHeld
  <2>3. Stages'
    BY <1>1, <1>2 DEF Launch, Stages, StageOf, Alive
  <2>4. Pointers' /\ Services' /\ OneVM'
    BY <1>2 DEF Launch, Pointers, Services, OneVM
  <2>. QED
    BY <2>1, <2>2, <2>3, <2>4
<1>3. ASSUME NEW v \in Fresh, vm' = [vm EXCEPT ![v] = "starting"],
             vmService' = [vmService EXCEPT ![v] = "starting"],
             step' = [step EXCEPT ![s] = "publish"], UNCHANGED <<vmMutex, dependents, wantsLeak>>
      PROVE  LifecycleInv'
  <2>0. v \in Instances
    BY <1>3 DEF Fresh
  <2>1. VMTypeOK'
    BY <1>3, <2>0 DEF Launch, VMTypeOK
  <2>2. LocksHeld'
    BY <1>3 DEF Launch, VMTypeOK, LocksHeld
  <2>3. Stages'
    BY <1>1, <1>3, <2>0 DEF Launch, VMTypeOK, Stages, StageOf, Alive
  <2>4. Pointers'
    BY <1>1, <1>3, <2>0 DEF Launch, VMTypeOK, Pointers, Alive
  <2>5. Services' /\ OneVM'
    BY <1>1, <1>3, <2>0 DEF VMTypeOK, Services, OneVM, Alive
  <2>. QED
    BY <2>1, <2>2, <2>3, <2>4, <2>5
<1>. QED
    BY <1>2, <1>3 DEF Launch

LEMMA PublishStep == ASSUME LifecycleInv, NEW s \in Shells, Publish(s) PROVE LifecycleInv'
<1>1. PICK v \in Instances :
          /\ vm[v] = "starting" /\ vm' = [vm EXCEPT ![v] = "running"]
          /\ gVM' = v /\ gVMData' = v /\ gVMLeak' = (IF wantsLeak[s] THEN v ELSE gVMLeak)
          /\ ref' = [ref EXCEPT ![s] = v]
    BY DEF Publish
<1>2. VMTypeOK'
    BY <1>1 DEF Publish, VMTypeOK
<1>3. LocksHeld'
    BY ShellsAssumption DEF Publish, VMTypeOK, LocksHeld
<1>4. \A w \in Instances : w # v => vm[w] \notin {"starting", "running", "ending"}
    BY <1>1 DEF OneVM
<1>5. Stages'
    BY <1>1, <1>4 DEF Publish, VMTypeOK, LocksHeld, Stages, StageOf
<1>6. Pointers'
  <2>1. \A w \in Instances : vm'[w] \in {"running", "ending"} => w = v
    BY <1>1, <1>4 DEF VMTypeOK
  <2>2. \A o \in Shells : ref'[o] # NoVM => ref'[o] = v
    BY <1>1, <1>4 DEF VMTypeOK, Pointers
  <2>. QED
    BY <1>1, <2>1, <2>2 DEF VMTypeOK, Pointers
<1>7. Services' /\ OneVM'
    BY <1>1, <1>4 DEF Publish, VMTypeOK, Services, OneVM, Alive
<1>. QED
    BY <1>2, <1>3, <1>5, <1>6, <1>7

LEMMA EnterDropStep == ASSUME LifecycleInv, NEW s \in Shells, EnterDrop(s) PROVE LifecycleInv'
<1>1. ref[s] \in Instances /\ vm[ref[s]] = "running"
    BY DEF EnterDrop, VMTypeOK, Pointers
<1>2. CASE HasOtherRef(s, ref[s])
  <2>1. VMTypeOK' /\ LocksHeld'
    BY <1>2 DEF EnterDrop, VMTypeOK, LocksHeld
  <2>2. Stages'
    BY <1>2 DEF EnterDrop, Stages, StageOf
  <2>3. Pointers' /\ Services' /\ OneVM'
    BY <1>2 DEF EnterDrop, VMTypeOK, Pointers, Services, OneVM
  <2>. QED
    BY <2>1, <2>2, <2>3
<1>3. CASE ~HasOtherRef(s, ref[s])
  <2>1. VMTypeOK'
    BY <1>1, <1>3 DEF EnterDrop, VMTypeOK
  <2>2. LocksHeld'
    BY <1>3, ShellsAssumption DEF EnterDrop, VMTypeOK, LocksHeld
  <2>3. \A w \in Instances : w # ref[s] => vm[w] \notin {"starting", "running", "ending"}
    BY <1>1 DEF OneVM
  <2>4. Stages'
    BY <1>1, <1>3, <2>3 DEF EnterDrop, VMTypeOK, Stages, StageOf
  <2>5. Pointers'
    BY <1>1, <1>3, <2>3 DEF EnterDrop, VMTypeOK, Pointers, HasOtherRef
  <2>6. Services' /\ OneVM'
    BY <1>1, <1>3, <2>3 DEF EnterDrop, VMTypeOK, Services, OneVM, Alive
  <2>. QED
    BY <2>1, <2>2, <2>4, <2>5, <2>6
<1>. QED
    BY <1>2, <1>3

LEMMA DestroyStep == ASSUME LifecycleInv, NEW s \in Shells, Destroy(s) PROVE LifecycleInv'
<1>1. PICK v \in Instances : /\ vm[v] = "ending" /\ vmService[v] \in {"ended", "missed"}
                             /\ vm' = [vm EXCEPT ![v] = "dead"]
    BY DEF Destroy
<1>2. VMTypeOK' /\ LocksHeld'
    BY <1>1, ShellsAssumption DEF Destroy, VMTypeOK, LocksHeld
<1>3. \A w \in Instances : w # v => vm[w] \notin {"starting", "running", "ending"}
    BY <1>1 DEF OneVM
<1>4. Stages'
    BY <1>1, <1>3 DEF VMTypeOK, Stages, StageOf
<1>5. Pointers'
    BY <1>1, <1>3 DEF Destroy, VMTypeOK, Pointers
<1>6. Services' /\ OneVM'
    BY <1>1, <1>3 DEF Destroy, VMTypeOK, Services, OneVM, Alive
<1>. QED
    BY <1>2, <1>4, <1>5, <1>6

LEMMA ServiceLookupStep ==
    ASSUME LifecycleInv, NEW v \in Instances, ServiceLookup(v) PROVE LifecycleInv'
<1>1. vm[v] \in {"running", "ending"}
    BY ShellsAssumption DEF ServiceLookup, Services, Stages, StageOf, LocksHeld, Alive
<1>2. gVMData # NoVM /\ vm[gVMData] # "dead"
    BY <1>1 DEF Pointers, Instances
<1>3. vmService' = [vmService EXCEPT ![v] = "running"]
    BY <1>2 DEF ServiceLookup
<1>4. VMTypeOK'
    BY <1>3 DEF ServiceLookup, VMTypeOK
<1>5. Services'
    BY <1>1, <1>3 DEF ServiceLookup, VMTypeOK, Services, Alive
<1>6. LocksHeld' /\ Stages' /\ Pointers' /\ OneVM'
    BY DEF ServiceLookup, LocksHeld, Stages, StageOf, Pointers, OneVM
<1>. QED
    BY <1>4, <1>5, <1>6

LEMMA ServiceEndsStep ==
    ASSUME LifecycleInv, NEW v \in Instances, ServiceEnds(v) PROVE LifecycleInv'
    BY DEF ServiceEnds, VMTypeOK, LocksHeld, Stages, StageOf, Pointers, Services, OneVM

LEMMA NextHolds == LifecycleInv /\ [VMNext]_vmVars => LifecycleInv'
<1> SUFFICES ASSUME LifecycleInv, [VMNext]_vmVars PROVE LifecycleInv'
    OBVIOUS
<1>1. CASE UNCHANGED vmVars
    BY <1>1 DEF vmVars, VMTypeOK, LocksHeld, Stages, StageOf, Pointers, Services, OneVM
<1>. QED
    BY <1>1, EnterCreateStep, CreateStep, LaunchStep, PublishStep, EnterDropStep, DestroyStep,
       ServiceLookupStep, ServiceEndsStep DEF VMNext, ShellStep, ServiceStep

LEMMA Invariant == VMSpec => []LifecycleInv
    BY InitHolds, NextHolds, PTL DEF VMSpec

\* At no time are there two VMs, however many shells create and drop references.
THEOREM OneVMAtATime == VMSpec => []OneVM
    BY Invariant, PTL

\* No service isolate asks for the data of a VM that is not there.
THEOREM ServicesFindTheirVM == VMSpec => []ServiceFindsVM
<1>1. LifecycleInv => ServiceFindsVM
    BY DEF Services, ServiceFindsVM
<1>. QED
    BY <1>1, Invariant, PTL

\* DartVMRef::Create and ~DartVMRef keep one VM at a time, and a service isolate
\* that looks it up finds it, for any number of shells.
THEOREM LifecycleIsSafe == VMSpec => []VMSafe
<1>1. LifecycleInv => VMTypeOK
    OBVIOUS
<1>. QED
    BY <1>1, Invariant, OneVMAtATime, ServicesFindTheirVM, PTL DEF VMSafe
=============================================================================

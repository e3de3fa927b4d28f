-------------------------- MODULE DartVMLifecycle --------------------------
(***************************************************************************)
(* The Dart VM of the process (runtime/dart_vm_lifecycle.cc and the        *)
(* constructor and destructor of runtime/dart_vm.cc).  Every shell holds a *)
(* DartVMRef; gVMMutex makes one VM out of all of them, and                *)
(* gVMDependentsMutex guards what the threads of the VM look up.  The VM   *)
(* starts a service isolate on a thread of its own, which asks for the VM  *)
(* data (runtime/dart_isolate.cc), and its clean up waits for that thread. *)
(***************************************************************************)
EXTENDS Naturals

CONSTANTS Shells,      \* the threads that create and drop references
          MaxLaunches  \* bound on the VMs of one process

ASSUME ShellsAssumption == "none" \notin Shells
ASSUME MaxLaunchesAssumption == MaxLaunches \in Nat \ {0}

NoVM == 0
Instances == 1..MaxLaunches

VARIABLES vmMutex,        \* the shell that holds gVMMutex, or none
          dependents,     \* who holds gVMDependentsMutex: a shell, or none
          gVM,            \* what gVM points at, alive or not
          gVMData,        \* what gVMData points at, alive or not
          gVMLeak,        \* the VM that is never to end
          vm,             \* the state of each instance
          vmService,      \* what the service isolate of each instance does
          ref,            \* the vm_ of each shell's DartVMRef
          wantsLeak,      \* leak_vm of the launch each shell is in
          step,           \* where each shell is in Create or ~DartVMRef
          aborted         \* a FML_CHECK failed

vmVars == <<vmMutex, dependents, gVM, gVMData, gVMLeak, vm, vmService, ref, wantsLeak, step,
            aborted>>

VMTypeOK ==
    /\ vmMutex \in Shells \cup {"none"} /\ dependents \in Shells \cup {"none"}
    /\ gVM \in Instances \cup {NoVM} /\ gVMData \in Instances \cup {NoVM}
    /\ gVMLeak \in Instances \cup {NoVM}
    /\ vm \in [Instances -> {"none", "starting", "running", "ending", "dead"}]
    /\ vmService \in [Instances -> {"none", "starting", "running", "missed", "ended"}]
    /\ ref \in [Shells -> Instances \cup {NoVM}]
    /\ wantsLeak \in [Shells -> BOOLEAN]
    /\ step \in [Shells -> {"idle", "create", "launch", "publish", "destroy"}]
    /\ aborted \in BOOLEAN

VMInit ==
    /\ vmMutex = "none" /\ dependents = "none"
    /\ gVM = NoVM /\ gVMData = NoVM /\ gVMLeak = NoVM
    /\ vm = [v \in Instances |-> "none"] /\ vmService = [v \in Instances |-> "none"]
    /\ ref = [s \in Shells |-> NoVM] /\ wantsLeak = [s \in Shells |-> FALSE]
    /\ step = [s \in Shells |-> "idle"]
    /\ aborted = FALSE

Fresh == {v \in Instances : vm[v] = "none" /\ \A w \in Instances : w < v => vm[w] # "none"}

\* A VM that weak_ptr::lock can still make a reference to.  The constructor
\* runs before the first reference exists and the destructor after the last.
Locked(v) == v # NoVM /\ vm[v] = "running"

HasOtherRef(s, v) == gVMLeak = v \/ \E o \in Shells \ {s} : ref[o] = v

\* DartVMRef::Create takes the lifecycle lock.
EnterCreate(s, leak) ==
    /\ step[s] = "idle" /\ ref[s] = NoVM /\ vmMutex = "none" /\ ~aborted
    /\ vmMutex' = s /\ step' = [step EXCEPT ![s] = "create"]
    /\ wantsLeak' = [wantsLeak EXCEPT ![s] = leak]
    /\ UNCHANGED <<dependents, gVM, gVMData, gVMLeak, vm, vmService, ref, aborted>>

\* Mutant: the lookup lock is taken only to set the pointers.
CreateWithoutDependentsLock(s) ==
    /\ step[s] = "create" /\ ~aborted
    /\ IF ~wantsLeak[s] /\ gVMLeak # NoVM
       THEN /\ aborted' = TRUE
            /\ UNCHANGED <<vmMutex, gVM, gVMData, ref, wantsLeak, step>>
       ELSE /\ \/ /\ Locked(gVM)
                  /\ ref' = [ref EXCEPT ![s] = gVM]
                  /\ step' = [step EXCEPT ![s] = "idle"] /\ vmMutex' = "none"
                  /\ wantsLeak' = [wantsLeak EXCEPT ![s] = FALSE]
                  /\ UNCHANGED <<gVM, gVMData>>
               \/ /\ ~Locked(gVM) /\ gVM' = NoVM /\ gVMData' = NoVM
                  /\ step' = [step EXCEPT ![s] = "launch"]
                  /\ UNCHANGED <<vmMutex, ref, wantsLeak>>
            /\ UNCHANGED aborted
    /\ UNCHANGED <<dependents, gVMLeak, vm, vmService>>

\* A launch that wants the VM to end after one that does not is refused; a VM
\* that runs is shared, whatever the settings say; otherwise the old pointers
\* are reset under the second lock and a VM is begun.
Create(s) ==
    /\ step[s] = "create" /\ ~aborted
    /\ IF ~wantsLeak[s] /\ gVMLeak # NoVM
       THEN /\ aborted' = TRUE
            /\ UNCHANGED <<vmMutex, dependents, gVM, gVMData, ref, wantsLeak, step, vm, vmService>>
       ELSE /\ \/ /\ Locked(gVM)
                  /\ ref' = [ref EXCEPT ![s] = gVM]
                  /\ step' = [step EXCEPT ![s] = "idle"] /\ vmMutex' = "none"
                  /\ wantsLeak' = [wantsLeak EXCEPT ![s] = FALSE]
                  /\ UNCHANGED <<dependents, gVM, gVMData, vm, vmService>>
               \/ /\ ~Locked(gVM) /\ dependents = "none"
                  /\ dependents' = s /\ gVM' = NoVM /\ gVMData' = NoVM
                  /\ step' = [step EXCEPT ![s] = "launch"]
                  /\ UNCHANGED <<vmMutex, ref, wantsLeak, vm, vmService>>
            /\ UNCHANGED aborted
    /\ UNCHANGED gVMLeak

\* DartVM::Create: there is no VM data and the launch fails, or the constructor
\* runs and Dart_Initialize starts the service isolate.
Launch(s) ==
    /\ step[s] = "launch" /\ ~aborted
    /\ \/ /\ step' = [step EXCEPT ![s] = "idle"]
          /\ wantsLeak' = [wantsLeak EXCEPT ![s] = FALSE]
          /\ vmMutex' = "none" /\ dependents' = "none"
          /\ UNCHANGED <<vm, vmService>>
       \/ /\ \E v \in Fresh : /\ vm' = [vm EXCEPT ![v] = "starting"]
                              /\ vmService' = [vmService EXCEPT ![v] = "starting"]
          /\ step' = [step EXCEPT ![s] = "publish"]
          /\ UNCHANGED <<vmMutex, dependents, wantsLeak>>
    /\ UNCHANGED <<gVM, gVMData, gVMLeak, ref, aborted>>

\* The constructor has returned: the pointers are set and the locks released.
Publish(s) ==
    /\ step[s] = "publish" /\ ~aborted
    /\ \E v \in Instances :
          /\ vm[v] = "starting"
          /\ vm' = [vm EXCEPT ![v] = "running"]
          /\ gVM' = v /\ gVMData' = v
          /\ gVMLeak' = IF wantsLeak[s] THEN v ELSE gVMLeak
          /\ ref' = [ref EXCEPT ![s] = v]
    /\ step' = [step EXCEPT ![s] = "idle"] /\ wantsLeak' = [wantsLeak EXCEPT ![s] = FALSE]
    /\ vmMutex' = "none" /\ dependents' = "none"
    /\ UNCHANGED <<vmService, aborted>>

\* ~DartVMRef: under the lifecycle lock the reference is dropped, and the last
\* one starts the destructor of the VM.
EnterDrop(s) ==
    /\ step[s] = "idle" /\ ref[s] # NoVM /\ vmMutex = "none" /\ ~aborted
    /\ ref' = [ref EXCEPT ![s] = NoVM]
    /\ IF HasOtherRef(s, ref[s]) THEN UNCHANGED <<vmMutex, vm, step>>
       ELSE /\ vmMutex' = s
            /\ vm' = [vm EXCEPT ![ref[s]] = "ending"]
            /\ step' = [step EXCEPT ![s] = "destroy"]
    /\ UNCHANGED <<dependents, gVM, gVMData, gVMLeak, vmService, wantsLeak, aborted>>

\* Mutant: the destructor shuts the lookups out while it waits.
DestroyHoldingDependents(s) ==
    /\ step[s] = "destroy" /\ ~aborted
    /\ IF dependents # s
       THEN dependents = "none" /\ dependents' = s /\ UNCHANGED <<vm, step, vmMutex>>
       ELSE /\ \E v \in Instances : /\ vm[v] = "ending" /\ vmService[v] \in {"ended", "missed"}
                                    /\ vm' = [vm EXCEPT ![v] = "dead"]
            /\ dependents' = "none" /\ step' = [step EXCEPT ![s] = "idle"]
            /\ vmMutex' = IF vmMutex = s THEN "none" ELSE vmMutex
    /\ UNCHANGED <<gVM, gVMData, gVMLeak, vmService, ref, wantsLeak, aborted>>

\* ~DartVM returns once Dart_Cleanup has ended the VM's isolates.
Destroy(s) ==
    /\ step[s] = "destroy" /\ ~aborted
    /\ \E v \in Instances : /\ vm[v] = "ending" /\ vmService[v] \in {"ended", "missed"}
                            /\ vm' = [vm EXCEPT ![v] = "dead"]
    /\ step' = [step EXCEPT ![s] = "idle"]
    /\ vmMutex' = IF vmMutex = s THEN "none" ELSE vmMutex
    /\ UNCHANGED <<dependents, gVM, gVMData, gVMLeak, vmService, ref, wantsLeak, aborted>>

\* DartCreateAndStartServiceIsolate asks for the VM data under the second lock.
\* The data is a member of the VM, gone only after the destructor's body.
ServiceLookup(v) ==
    /\ vmService[v] = "starting" /\ dependents = "none" /\ ~aborted
    /\ vmService' = [vmService EXCEPT ![v] = IF gVMData # NoVM /\ vm[gVMData] # "dead"
                                         THEN "running" ELSE "missed"]
    /\ UNCHANGED <<vmMutex, dependents, gVM, gVMData, gVMLeak, vm, ref, wantsLeak, step, aborted>>

\* The clean up ends the service isolate.
ServiceEnds(v) ==
    /\ vmService[v] = "running" /\ vm[v] = "ending" /\ ~aborted
    /\ vmService' = [vmService EXCEPT ![v] = "ended"]
    /\ UNCHANGED <<vmMutex, dependents, gVM, gVMData, gVMLeak, vm, ref, wantsLeak, step, aborted>>

ShellStep(s) == Create(s) \/ Launch(s) \/ Publish(s) \/ Destroy(s)
ServiceStep(v) == ServiceLookup(v) \/ ServiceEnds(v)

VMNext ==
    \/ \E s \in Shells, leak \in BOOLEAN : EnterCreate(s, leak)
    \/ \E s \in Shells : ShellStep(s) \/ EnterDrop(s)
    \/ \E v \in Instances : ServiceStep(v)

VMFairness ==
    /\ \A s \in Shells : WF_vmVars(ShellStep(s))
    /\ \A v \in Instances : WF_vmVars(ServiceStep(v))

VMSpec == VMInit /\ [][VMNext]_vmVars /\ VMFairness

-----------------------------------------------------------------------------
\* There is one VM in the process: none starts before the last one has gone
\* through its destructor, on whichever threads the references are dropped and
\* created (gVMMutex around both).
OneVM == \A v, w \in Instances :
    vm[v] \in {"starting", "running", "ending"} /\ vm[w] \in {"starting", "running", "ending"} => v = w

\* The service isolate of a VM finds the VM's data, though it may ask while
\* Create has not set the pointer yet or the destructor has begun.
ServiceFindsVM == \A v \in Instances : vmService[v] # "missed"

\* A VM whose last reference is dropped comes to its end, and so lets the lock
\* go: the clean up waits for a service isolate that may be about to look the
\* VM up.
VMEnds ==
    (\E v \in Instances : vm[v] = "ending") ~> (aborted \/ \A v \in Instances : vm[v] # "ending")

\* DartVMRef and the service isolate: one VM at a time, found while it is needed.
VMSafe == VMTypeOK /\ OneVM /\ ServiceFindsVM
=============================================================================

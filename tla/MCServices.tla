----------------------------- MODULE MCServices -----------------------------
(***************************************************************************)
(* One instance of each component that serves single calls or requests:    *)
(* the stages of a system call, the shared memory helper, the handlers on  *)
(* entry and exit, the allocator, the sessions of the terminal and the     *)
(* set-up of their root file system.  They share no state, so a history    *)
(* moves one of them, chosen at the start, and the others stay as they     *)
(* began: what is checked of a component is what its own specification     *)
(* says.                                                                   *)
(***************************************************************************)
EXTENDS SyscallStages, SysVShm, SyscallHandlers, Talloc, Sessions, RootfsSetup

VARIABLE unit   \* the component this history is about

Is(u) == unit = u /\ unit' = u

\* Of the kernels that SyscallStages starts under, one for the other histories.
AnyKernel == CHOOSE kernel \in Kernels : TRUE

Init ==
  /\ unit \in {"stages", "shm", "handlers", "talloc", "sessions", "rootfs"}
  /\ StagesInit /\ ShmInit /\ HandlerInit /\ TallocInit /\ SessionInit
  /\ RootfsInit
  /\ unit # "stages" => s.kernel = AnyKernel

\* A bound: of the three sessions of a history at most one runs other than Ubuntu's shell.
MostlyPlain ==
  Cardinality({i \in DOMAIN shells' : shells'[i].runs # <<Ubuntu, None>>}) <= 1

Next ==
  \/ Is("stages") /\ StagesNext
     /\ UNCHANGED <<shmVars, handlerVars, tallocVars, sessionVars, rootfsVars>>
  \/ Is("shm") /\ ShmNext
     /\ UNCHANGED <<s, handlerVars, tallocVars, sessionVars, rootfsVars>>
  \/ Is("handlers") /\ HandlerNext
     /\ UNCHANGED <<s, shmVars, tallocVars, sessionVars, rootfsVars>>
  \/ Is("talloc") /\ TallocNext
     /\ UNCHANGED <<s, shmVars, handlerVars, sessionVars, rootfsVars>>
  \/ Is("sessions") /\ SessionNext /\ MostlyPlain
     /\ UNCHANGED <<s, shmVars, handlerVars, tallocVars, rootfsVars>>
  \/ Is("rootfs") /\ RootfsNext
     /\ UNCHANGED <<s, shmVars, handlerVars, tallocVars, sessionVars>>

serviceVars ==
  <<unit, s, shmVars, handlerVars, tallocVars, sessionVars, rootfsVars>>

\* The fairness of SyscallStages and of SysVShm, each for its own histories.
Fairness ==
  /\ WF_s(unit = "stages" /\ Kernel) /\ WF_s(unit = "stages" /\ HandleStop)
  /\ WF_shmVars(unit = "shm" /\ Helper)
  /\ \A t \in Tracees : WF_shmVars(unit = "shm" /\ Progress(t))

Spec == Init /\ [][Next]_serviceVars /\ Fairness

\* CallsEnd of SyscallStages: every call ends; no chain of calls, rewritten call or
\* workaround repeats for ever (syscall/chain.c, tracee/event.c).
StageCallsEnd == (unit = "stages" /\ ~ Returned) ~> Returned

(* The instance of SyscallStages.  Under an allow list the guest does not   *)
(* ask to be traced, nor reads /proc/self/auxv (see README.md).             *)
MCRequests ==
  [policy \in {"none", "allow list"} |->
     IF policy = "none" THEN Numbers \ {"open", "gone"} ELSE Numbers \ {"traceme"}]

MCTraced == [policy \in {"allow list"} |-> {"traceme", "path", "open"}]

\* The shells that PRoot can start besides the first one.
CONSTANT m1
MCMains == <<m1>>
=============================================================================

--------------------------- MODULE SysVIpcWaitProofs ---------------------------
(***************************************************************************)
(* The wait mechanism keeps its invariant whatever the system calls do,    *)
(* for every set of tracees, reasons, results and entry paths.             *)
(***************************************************************************)
EXTENDS SysVIpcWait, TLAPS

WaitInv == WaitTypeOK /\ WaitConsistent

(***************************************************************************)
(* sysvipc_syscall_common: a call that wakes some of the waiters keeps the *)
(* invariant, whichever way it entered and whether it waits or returns.    *)
(***************************************************************************)
LEMMA CallKeepsWaitInv ==
  ASSUME WaitInv,
         NEW t \in Tracees, NEW path \in EntryPaths, NEW why \in Reasons \cup {"none"},
         NEW r \in Results, NEW W \in SUBSET Waiters, NEW s \in Results, NEW again \in BOOLEAN,
         SyscallCommon(t, path, why, r, W, s, again)
  PROVE  WaitInv'
<1> USE WaitAssumption
<1> USE DEF WaitInv, SyscallCommon, Waiters
<1>1. WaitTypeOK'
  BY DEF WaitTypeOK, PlaceAfterCall, StateAfterCall, WokenState, Places, WaitStates
<1>2. WaitConsistent'
  <2> SUFFICES ASSUME NEW u \in Tracees
               PROVE  WaitConsistent!(u)'
    BY DEF WaitConsistent
  <2>1. CASE u = t
    <3>1. ~retry[u] /\ u \notin W
      BY <2>1 DEF WaitConsistent, WaitTypeOK
    <3>2. path \in {"ptrace", "sigsys"}
      OBVIOUS
    <3> QED
      BY <2>1, <3>1, <3>2 DEF WaitTypeOK, PlaceAfterCall, StateAfterCall
  <2>2. CASE u # t /\ u \in W
    <3>1. wstate[u] \in {"RESTARTED_INTO_PPOLL", "ENTERED_PPOLL"}
      BY <2>2 DEF WaitConsistent, WaitTypeOK
    <3> QED
      BY <2>2, <3>1 DEF WaitConsistent, WaitTypeOK, WokenState
  <2>3. CASE u # t /\ u \notin W
    BY <2>3 DEF WaitConsistent, WaitTypeOK
  <2> QED
    BY <2>1, <2>2, <2>3
<1> QED
  BY <1>1, <1>2

(***************************************************************************)
(* sysvipc_wake_tracee alone: its assert() on wait_state holds for every   *)
(* waiter, and waking it keeps the invariant.                              *)
(***************************************************************************)
LEMMA WakeKeepsWaitInv ==
  ASSUME WaitInv, NEW u \in Waiters, NEW s \in Results,
         WakeTracee(u, s), UNCHANGED <<at, retry>>
  PROVE  WaitInv'
<1> USE WaitAssumption
<1> USE DEF WaitInv, WakeTracee, Waiters
<1>1. u \in Tracees /\ wstate[u] \in {"RESTARTED_INTO_PPOLL", "ENTERED_PPOLL"}
  BY DEF WaitConsistent, WaitTypeOK
<1>2. WaitTypeOK'
  BY <1>1 DEF WaitTypeOK, WokenState, WaitStates
<1>3. WaitConsistent'
  BY <1>1 DEF WaitConsistent, WaitTypeOK, WokenState
<1> QED
  BY <1>2, <1>3

(***************************************************************************)
(* Entering ppoll(), leaving it, returning from the call, being killed and *)
(* being reaped keep the invariant.                                        *)
(***************************************************************************)
LEMMA StopKeepsWaitInv ==
  ASSUME WaitInv, NEW t \in Tracees,
         \/ EnterPpoll(t) \/ SigstopInterrupts(t) \/ SignalInterrupts(t)
         \/ \E r \in Results : Resume(t, r)
         \/ Interrupted(t) \/ Kill(t) \/ Reap(t)
  PROVE  WaitInv'
<1> USE WaitAssumption
<1> USE DEF WaitInv
<1>1. CASE EnterPpoll(t)
  BY <1>1 DEF EnterPpoll, WaitTypeOK, WaitConsistent, Places, WaitStates
<1>2. CASE SigstopInterrupts(t) \/ SignalInterrupts(t)
  BY <1>2 DEF SigstopInterrupts, SignalInterrupts, WaitTypeOK, WaitConsistent, Places
<1>3. CASE \E r \in Results : Resume(t, r)
  <2>1. reason[t] = "none"
    BY <1>3 DEF Resume, AtResult, WaitTypeOK, WaitConsistent
  <2> QED
    BY <1>3, <2>1 DEF Resume, WaitTypeOK, WaitConsistent, Places, WaitStates
<1>4. CASE Interrupted(t)
  BY <1>4 DEF Interrupted, WaitTypeOK, WaitConsistent, Places, WaitStates
<1>5. CASE Kill(t)
  BY <1>5 DEF Kill, WaitTypeOK, WaitConsistent, Places
<1>6. CASE Reap(t)
  BY <1>6 DEF Reap, WaitTypeOK, WaitConsistent, Places, WaitStates
<1> QED
  BY <1>1, <1>2, <1>3, <1>4, <1>5, <1>6

(***************************************************************************)
(* Every step that WaitNext allows keeps the invariant: the systems that   *)
(* use the mechanism inherit it from here.                                 *)
(***************************************************************************)
LEMMA WaitStepKeepsWaitInv == WaitInv /\ [WaitNext]_waitVars => WaitInv'
<1> SUFFICES ASSUME WaitInv, [WaitNext]_waitVars
             PROVE  WaitInv'
  OBVIOUS
<1>1. CASE UNCHANGED waitVars
  BY <1>1 DEF waitVars, WaitInv, WaitTypeOK, WaitConsistent
<1>2. ASSUME NEW t \in Tracees, AnyCall(t)
      PROVE  WaitInv'
  BY <1>2, CallKeepsWaitInv DEF AnyCall
<1>3. ASSUME NEW t \in Tracees, NEW s \in Results,
             t \in Waiters, WakeTracee(t, s), UNCHANGED <<at, retry>>
      PROVE  WaitInv'
  BY <1>3, WakeKeepsWaitInv
<1> QED
  BY <1>1, <1>2, <1>3, StopKeepsWaitInv DEF WaitNext

\* Before any call the invariant holds.
LEMMA WaitInitInv == WaitInit => WaitInv
BY WaitAssumption DEF WaitInit, WaitInv, WaitTypeOK, WaitConsistent, Places, WaitStates

(***************************************************************************)
(* The asserts of the wait mechanism hold: in every behaviour in which the *)
(* handlers only do what WaitNext allows, the state of each tracee is      *)
(* consistent with where it is stopped.                                    *)
(***************************************************************************)
THEOREM WaitSafety == WaitSpec => [](WaitTypeOK /\ WaitConsistent)
<1>1. WaitInv => WaitTypeOK /\ WaitConsistent
  BY DEF WaitInv
<1> QED
  BY <1>1, WaitInitInv, WaitStepKeepsWaitInv, PTL DEF WaitSpec
================================================================================

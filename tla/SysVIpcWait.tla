------------------------------ MODULE SysVIpcWait ------------------------------
(***************************************************************************)
(* The wait mechanism of PRoot's System V IPC extension (sysvipc.c): how   *)
(* an emulated system call that must block is turned into ppoll(), how     *)
(* another tracee's call wakes it, and how its result gets back.           *)
(*                                                                         *)
(* PRoot is one thread: each of its handlers runs to its end before the    *)
(* next one.  The tracees run concurrently with it: a tracee may be killed *)
(* or have its ppoll() interrupted between any two handlers.  The calls    *)
(* themselves (SysVSem, SysVMsg) extend this module; here a call is any    *)
(* handler that blocks or returns and wakes some waiters, so that          *)
(* WaitSpec is what every such handler promises to the mechanism.          *)
(***************************************************************************)
CONSTANTS
  Tracees,     \* the tracees sharing one IPC namespace
  Mortal,      \* the tracees that may be killed (bounds the model)
  Reasons,     \* the WR_WAIT_* values
  Results,     \* the classes of system call results the model distinguishes
  EntryPaths   \* how a call reaches the handler: subset of {"ptrace", "sigsys"}

ASSUME WaitAssumption ==
  /\ Mortal \subseteq Tracees
  /\ "none" \notin Reasons
  /\ {"none", "EINTR"} \subseteq Results
  /\ EntryPaths \subseteq {"ptrace", "sigsys"}

VARIABLES
  at,       \* where each tracee is, see Places
  reason,   \* config->wait_reason
  wstate,   \* config->wait_state
  retry,    \* config->chain_state = CSTATE_MSGRCV_RETRY
  status    \* config->status_after_wait, then what the call has returned

waitVars == <<at, reason, wstate, retry, status>>

(***************************************************************************)
(* "guest" runs guest code; "enter" was restarted after a SIGSYS and will  *)
(* enter ppoll(); "ppoll" sleeps in it; "ppoll_ret" is stopped at its      *)
(* exit; "getpid" is in the harmless call that replaces a call already     *)
(* emulated; "dead" was killed but is still in the tracees list; "gone"    *)
(* has been reaped and freed.                                              *)
(***************************************************************************)
Places == {"guest", "enter", "ppoll", "ppoll_ret", "getpid", "dead", "gone"}

WaitStates == {"NOT_WAITING", "RESTARTED_INTO_PPOLL_CANCELED",
               "RESTARTED_INTO_PPOLL", "ENTERED_PPOLL", "SIGNALED_PPOLL",
               "ENTERED_GETPID"}

Alive(t) == at[t] \notin {"dead", "gone"}
Waiters  == {t \in Tracees : reason[t] # "none"}

WaitTypeOK ==
  /\ at     \in [Tracees -> Places]
  /\ reason \in [Tracees -> Reasons \cup {"none"}]
  /\ wstate \in [Tracees -> WaitStates]
  /\ retry  \in [Tracees -> BOOLEAN]
  /\ status \in [Tracees -> Results]

WaitInit ==
  /\ at     = [t \in Tracees |-> "guest"]
  /\ reason = [t \in Tracees |-> "none"]
  /\ wstate = [t \in Tracees |-> "NOT_WAITING"]
  /\ retry  = [t \in Tracees |-> FALSE]
  /\ status = [t \in Tracees |-> "none"]

--------------------------------------------------------------------------------
(* The system call handlers *)

\* Mutant of WokenState: a waiter still on its way into ppoll() is not cancelled.
MutLostCancel(w) == IF w = "ENTERED_PPOLL" THEN "SIGNALED_PPOLL" ELSE w

\* Mutant of WokenState: every waiter is taken for one on its way into ppoll().
MutAlwaysCancel(w) == "RESTARTED_INTO_PPOLL_CANCELED"

\* sysvipc_wake_tracee on the wait_state of a waiter.
WokenState(w) ==
  IF w = "ENTERED_PPOLL" THEN "SIGNALED_PPOLL" ELSE "RESTARTED_INTO_PPOLL_CANCELED"

\* sysvipc_wake_tracee alone, of tracee u with result s.
WakeTracee(u, s) ==
  /\ reason' = [reason EXCEPT ![u] = "none"]
  /\ status' = [status EXCEPT ![u] = s]
  /\ wstate' = [wstate EXCEPT ![u] = WokenState(@)]

\* Where sysvipc_syscall_common leaves a caller that waits for why, or,
\* when why is "none", one whose call is over.
PlaceAfterCall(path, why) ==
  CASE why # "none" /\ path = "ptrace" -> "ppoll"
    [] why # "none" /\ path = "sigsys" -> "enter"
    [] why = "none" /\ path = "ptrace" -> "getpid"
    [] OTHER                           -> "guest"

StateAfterCall(path, why) ==
  CASE why # "none" /\ path = "ptrace" -> "ENTERED_PPOLL"
    [] why # "none" /\ path = "sigsys" -> "RESTARTED_INTO_PPOLL"
    [] why = "none" /\ path = "ptrace" -> "ENTERED_GETPID"
    [] OTHER                           -> "NOT_WAITING"

(***************************************************************************)
(* A call of t, from SYSCALL_ENTER_START ("ptrace") or SIGSYS_OCC          *)
(* ("sigsys"): its handler wakes the waiters W with status s (through the  *)
(* msgrcv retry when again holds), and t waits for why or gets result r.   *)
(***************************************************************************)
SyscallCommon(t, path, why, r, W, s, again) ==
  /\ at[t] = "guest"
  /\ at'     = [at EXCEPT ![t] = PlaceAfterCall(path, why)]
  /\ reason' = [u \in Tracees |-> IF u = t THEN why
                                  ELSE IF u \in W THEN "none" ELSE reason[u]]
  /\ wstate' = [u \in Tracees |-> IF u = t THEN StateAfterCall(path, why)
                                  ELSE IF u \in W THEN WokenState(wstate[u])
                                  ELSE wstate[u]]
  /\ retry'  = [u \in Tracees |-> retry[u] \/ (u \in W /\ again)]
  /\ status' = [u \in Tracees |->
                  IF u = t THEN r ELSE IF u \in W THEN s ELSE status[u]]

\* A call that wakes nobody.
Returns(t, path, r)  == SyscallCommon(t, path, "none", r, {}, "none", FALSE)
Blocks(t, path, why) == SyscallCommon(t, path, why, "none", {}, "none", FALSE)

--------------------------------------------------------------------------------
(* The other events of the mechanism *)

\* SYSCALL_ENTER_START of the ppoll() a SIGSYS was turned into.
EnterPpoll(t) ==
  /\ at[t] = "enter" /\ wstate[t] = "RESTARTED_INTO_PPOLL"
  /\ at'     = [at EXCEPT ![t] = "ppoll"]
  /\ wstate' = [wstate EXCEPT ![t] = "ENTERED_PPOLL"]
  /\ UNCHANGED <<reason, retry, status>>

\* The SIGSTOP of sysvipc_wake_tracee interrupts ppoll().
SigstopInterrupts(t) ==
  /\ at[t] = "ppoll" /\ wstate[t] = "SIGNALED_PPOLL"
  /\ at' = [at EXCEPT ![t] = "ppoll_ret"]
  /\ UNCHANGED <<reason, wstate, retry, status>>

\* Another signal, or the timeout of semtimedop(), ends ppoll().
SignalInterrupts(t) ==
  /\ at[t] = "ppoll" /\ wstate[t] = "ENTERED_PPOLL"
  /\ at' = [at EXCEPT ![t] = "ppoll_ret"]
  /\ UNCHANGED <<reason, wstate, retry, status>>

\* t is stopped where the result of its call is due.
AtResult(t) ==
  \/ at[t] = "enter" /\ wstate[t] = "RESTARTED_INTO_PPOLL_CANCELED"
  \/ at[t] \in {"ppoll_ret", "getpid"} /\ wstate[t] \in {"SIGNALED_PPOLL", "ENTERED_GETPID"}

\* Its call returns r; msgrcv's retry computes r, otherwise it is status.
Resume(t, r) ==
  /\ AtResult(t)
  /\ at'     = [at EXCEPT ![t] = "guest"]
  /\ wstate' = [wstate EXCEPT ![t] = "NOT_WAITING"]
  /\ retry'  = [retry EXCEPT ![t] = FALSE]
  /\ status' = [status EXCEPT ![t] = r]
  /\ UNCHANGED reason

\* SYSCALL_EXIT_START of a ppoll() that nobody woke: the call fails with EINTR, or with the
\* EFAULT of ppoll() itself, which stands for the same here.
Interrupted(t) ==
  /\ at[t] = "ppoll_ret" /\ wstate[t] = "ENTERED_PPOLL"
  /\ at'     = [at EXCEPT ![t] = "guest"]
  /\ wstate' = [wstate EXCEPT ![t] = "NOT_WAITING"]
  /\ reason' = [reason EXCEPT ![t] = "none"]
  /\ status' = [status EXCEPT ![t] = "EINTR"]
  /\ UNCHANGED retry

\* SIGKILL: the tracee stays in the tracees list until PRoot sees its exit.
Kill(t) ==
  /\ t \in Mortal /\ Alive(t)
  /\ at' = [at EXCEPT ![t] = "dead"]
  /\ UNCHANGED <<reason, wstate, retry, status>>

\* PRoot handles the exit and frees the tracee with its configuration.
Reap(t) ==
  /\ at[t] = "dead"
  /\ at'     = [at EXCEPT ![t] = "gone"]
  /\ reason' = [reason EXCEPT ![t] = "none"]
  /\ wstate' = [wstate EXCEPT ![t] = "NOT_WAITING"]
  /\ retry'  = [retry EXCEPT ![t] = FALSE]
  /\ status' = [status EXCEPT ![t] = "none"]

--------------------------------------------------------------------------------
(* What a handler may do, whatever the call *)

AnyCall(t) ==
  \E path \in EntryPaths, why \in Reasons \cup {"none"}, r \in Results,
     W \in SUBSET Waiters, s \in Results, again \in BOOLEAN :
    SyscallCommon(t, path, why, r, W, s, again)

WaitNext ==
  \E t \in Tracees :
    \/ AnyCall(t)
    \/ \E s \in Results : /\ t \in Waiters
                          /\ WakeTracee(t, s)
                          /\ UNCHANGED <<at, retry>>
    \/ EnterPpoll(t)
    \/ SigstopInterrupts(t)
    \/ SignalInterrupts(t)
    \/ \E r \in Results : Resume(t, r) /\ (r = status[t] \/ retry[t])
    \/ Interrupted(t)
    \/ Kill(t)
    \/ Reap(t)

WaitSpec == WaitInit /\ [][WaitNext]_waitVars

--------------------------------------------------------------------------------
(* Properties *)

(***************************************************************************)
(* The wait_state always says what the tracee is stopped in, a tracee has  *)
(* a wait_reason exactly while it can be woken, and the msgrcv retry is    *)
(* only pending on a woken tracee.  It makes every assert() of             *)
(* sysvipc_wake_tracee, sysvipc_syscall_common and of the                  *)
(* SYSCALL_ENTER_START and SYSCALL_EXIT_START handlers true.               *)
(***************************************************************************)
WaitConsistent ==
  \A t \in Tracees :
    /\ at[t] \in {"guest", "gone"}      => wstate[t] = "NOT_WAITING"
    /\ at[t] = "enter"                  => wstate[t] \in {"RESTARTED_INTO_PPOLL",
                                                          "RESTARTED_INTO_PPOLL_CANCELED"}
    /\ at[t] \in {"ppoll", "ppoll_ret"} => wstate[t] \in {"ENTERED_PPOLL", "SIGNALED_PPOLL"}
    /\ at[t] = "getpid"                 => wstate[t] = "ENTERED_GETPID"
    /\ reason[t] # "none"              <=> wstate[t] \in {"RESTARTED_INTO_PPOLL", "ENTERED_PPOLL"}
    /\ retry[t] => wstate[t] \in {"SIGNALED_PPOLL", "RESTARTED_INTO_PPOLL_CANCELED"}

\* A woken tracee: it is in its call, with a result and no reason to wait.
Woken(t) == Alive(t) /\ at[t] # "guest" /\ reason[t] = "none"
================================================================================

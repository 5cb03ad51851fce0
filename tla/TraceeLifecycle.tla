---------------------------- MODULE TraceeLifecycle ----------------------------
(***************************************************************************)
(* How PRoot follows the processes it traces (tracee/event.c and           *)
(* tracee/tracee.c): clone(2) and its two notifications, the entries of    *)
(* the tracees list, exits, SIGKILL and --kill-on-exit.                    *)
(*                                                                         *)
(* A clone(2) makes the kernel report two stops in any order: the parent's *)
(* PTRACE_EVENT_CLONE and the first SIGSTOP of the child.  Only the first  *)
(* tells PRoot who the parent is, so that a child that stops first is held *)
(* in an entry without configuration (exe is NULL).  The kernel discards   *)
(* the stop of a process that is killed before PRoot waits for it.         *)
(*                                                                         *)
(* PRoot is one thread: it waits for one event, handles it, restarts the   *)
(* process and frees what has terminated (one action Handle...).  The      *)
(* processes run concurrently with it.                                     *)
(***************************************************************************)
EXTENDS Naturals

CONSTANTS
  Pids,        \* the process identifiers
  Root,        \* the main command, started by launch_process
  Mortal,      \* the processes that may be killed by another one
  KillOnExit,  \* --kill-on-exit
  NoPid

ASSUME LifecycleAssumption ==
  /\ Root \in Pids /\ Mortal \subseteq Pids
  /\ NoPid \notin Pids
  /\ KillOnExit \in BOOLEAN

VARIABLES
  proc,     \* the processes: see ProcStates
  why,      \* what a stopped process is stopped for
  child,    \* PTRACE_GETEVENTMSG of a stop "clone"
  entry,    \* the tracees list: "absent", "anonymous" (exe is NULL) or "configured"
  sigstop,  \* tracee->sigstop
  parent,   \* tracee->parent, NoPid for NULL
  lost,     \* history: the children whose parent was killed before it was notified
  early     \* history: the children freed before PRoot knew their parent

kernelVars == <<proc, why, child>>
prootVars  == <<entry, sigstop, parent>>
vars       == <<kernelVars, prootVars, lost, early>>

\* "free" was never used; "run" runs guest code; "stop" has stopped and PRoot
\* has not waited for it; "held" was waited for and not restarted; "exit" is
\* dead, PRoot has not waited for it; "gone" was waited for after its death.
ProcStates == {"free", "run", "stop", "held", "exit", "gone"}

Lives(p)  == proc[p] \in {"run", "stop", "held"}
InList(p) == entry[p] # "absent"

LifecycleTypeOK ==
  /\ proc    \in [Pids -> ProcStates]
  /\ why     \in [Pids -> {"none", "sigstop", "clone", "signal"}]
  /\ child   \in [Pids -> Pids \cup {NoPid}]
  /\ entry   \in [Pids -> {"absent", "anonymous", "configured"}]
  /\ sigstop \in [Pids -> {"IGNORED", "ALLOWED", "PENDING"}]
  /\ parent  \in [Pids -> Pids \cup {NoPid}]
  /\ lost  \subseteq Pids
  /\ early \subseteq Pids

\* launch_process has forked the main command, which sends itself SIGSTOP.
LifecycleInit ==
  /\ proc    = [p \in Pids |-> IF p = Root THEN "stop" ELSE "free"]
  /\ why     = [p \in Pids |-> IF p = Root THEN "sigstop" ELSE "none"]
  /\ child   = [p \in Pids |-> NoPid]
  /\ entry   = [p \in Pids |-> IF p = Root THEN "configured" ELSE "absent"]
  /\ sigstop = [p \in Pids |-> "IGNORED"]
  /\ parent  = [p \in Pids |-> NoPid]
  /\ lost    = {}
  /\ early   = {}

--------------------------------------------------------------------------------
(* The processes *)

\* p calls clone(2), fork(2) or vfork(2): both it and its child c stop.
Clone(p, c) ==
  /\ proc[p] = "run" /\ proc[c] = "free"
  /\ proc'  = [proc EXCEPT ![p] = "stop", ![c] = "stop"]
  /\ why'   = [why EXCEPT ![p] = "clone", ![c] = "sigstop"]
  /\ child' = [child EXCEPT ![p] = c]
  /\ UNCHANGED <<prootVars, lost, early>>

\* p stops for a SIGSTOP sent by a process, or for anything else: a signal, the
\* entry or the exit of a system call, execve(2), ...
Stops(p) ==
  /\ proc[p] = "run"
  /\ proc' = [proc EXCEPT ![p] = "stop"]
  /\ \E w \in {"sigstop", "signal"} : why' = [why EXCEPT ![p] = w]
  /\ UNCHANGED <<child, prootVars, lost, early>>

Exits(p) ==
  /\ proc[p] = "run"
  /\ proc' = [proc EXCEPT ![p] = "exit"]
  /\ UNCHANGED <<why, child, prootVars, lost, early>>

\* The stop of p will tell PRoot that c is its child.
Announces(p, c) == proc[p] = "stop" /\ why[p] = "clone" /\ child[p] = c

\* The children whose parent's stop is discarded when the processes K are killed.
Unannounced(K) == {c \in Pids : \E p \in K : Announces(p, c)}

\* SIGKILL, also of a process that is stopped.
Killed(p) ==
  /\ p \in Mortal /\ Lives(p)
  /\ proc' = [proc EXCEPT ![p] = "exit"]
  /\ lost' = lost \cup Unannounced({p})
  /\ UNCHANGED <<why, child, prootVars, early>>

--------------------------------------------------------------------------------
(* The event loop of PRoot *)

\* Mutants of WithoutEntry: the children of a freed tracee keep their pointer,
\* to its entry or to what is now there.
MutWithoutEntry(p) == [parent EXCEPT ![p] = NoPid]
MutDangling(p) == [q \in Pids |-> IF parent[q] = p THEN "freed" ELSE parent[q]]

\* remove_tracee on the parents: the children of p are now orphan.
WithoutEntry(p) == [q \in Pids |-> IF q = p \/ parent[q] = p THEN NoPid ELSE parent[q]]

\* Mutant of Freed: a tracee that still has children is kept.
MutFreed(p) == IF \E q \in Pids : parent[q] = p THEN entry ELSE [entry EXCEPT ![p] = "absent"]

\* The tracees list without p.
Freed(p) == [entry EXCEPT ![p] = "absent"]

\* kill_all_tracees, when the main command has terminated.
Victims(p) ==
  IF p = Root /\ KillOnExit THEN {q \in Pids : InList(q) /\ Lives(q)} ELSE {}

(***************************************************************************)
(* waitpid() returns the end of p: terminate_tracee, with                  *)
(* kill_all_tracees for the main command, and free_terminated_tracees.     *)
(***************************************************************************)
HandleExit(p) ==
  /\ proc[p] = "exit"
  /\ proc'    = [q \in Pids |-> IF q = p THEN "gone"
                                ELSE IF q \in Victims(p) THEN "exit" ELSE proc[q]]
  /\ entry'   = Freed(p)
  /\ sigstop' = [sigstop EXCEPT ![p] = "IGNORED"]
  /\ parent'  = WithoutEntry(p)
  /\ lost'    = lost \cup Unannounced(Victims(p))
  /\ early'   = IF entry[p] # "configured" THEN early \cup {p} ELSE early
  /\ UNCHANGED <<why, child>>

\* Mutant of Knows: a tracee whose parent is unknown is not told apart.
MutKnows(p) == TRUE

\* tracee->exe is set, once waitpid() has returned a stop of p.
Knows(p) == entry[p] = "configured"

(***************************************************************************)
(* The first SIGSTOP is for PRoot.  It stops p until PRoot has received    *)
(* the event of its parent; later ones are delivered.                      *)
(***************************************************************************)
HandleSigstop(p) ==
  /\ proc[p] = "stop" /\ why[p] = "sigstop"
  /\ IF Knows(p)
     THEN /\ proc'    = [proc EXCEPT ![p] = "run"]
          /\ sigstop' = [sigstop EXCEPT ![p] = "ALLOWED"]
          /\ UNCHANGED entry
     ELSE /\ proc'    = [proc EXCEPT ![p] = "held"]
          /\ sigstop' = [sigstop EXCEPT ![p] = "PENDING"]
          /\ entry'   = [entry EXCEPT ![p] = "anonymous"]
  /\ UNCHANGED <<why, child, parent, lost, early>>

\* Mutant of Released: a child that waits for its parent's event stays held.
MutReleased(c) == FALSE

\* new_child restarts the child: it was already alive but stopped.
Released(c) == sigstop[c] = "PENDING" /\ proc[c] = "held"

\* new_child for the event of p, with or without CLONE_PARENT.
HandleClone(p) ==
  LET c == child[p]
  IN /\ proc[p] = "stop" /\ why[p] = "clone"
     /\ proc'  = [proc EXCEPT ![p] = "run", ![c] = IF Released(c) THEN "run" ELSE @]
     /\ entry' = [entry EXCEPT ![c] = "configured"]
     /\ \E q \in {p, parent[p]} : parent' = [parent EXCEPT ![c] = q]
     /\ sigstop' = [sigstop EXCEPT ![c] = IF @ = "PENDING" THEN "ALLOWED" ELSE @]
     /\ UNCHANGED <<why, child, lost, early>>

\* Any other stop: handled and restarted.
HandleOther(p) ==
  /\ proc[p] = "stop" /\ why[p] = "signal"
  /\ proc' = [proc EXCEPT ![p] = "run"]
  /\ UNCHANGED <<why, child, prootVars, lost, early>>

Handle(p) == HandleExit(p) \/ HandleSigstop(p) \/ HandleClone(p) \/ HandleOther(p)

LifecycleNext ==
  \E p \in Pids :
    \/ \E c \in Pids : Clone(p, c)
    \/ Stops(p)
    \/ Exits(p)
    \/ Killed(p)
    \/ Handle(p)

LifecycleSpec == LifecycleInit /\ [][LifecycleNext]_vars

\* waitpid() in the event loop returns every event that stays reported.
\* Nothing makes a process stop, clone, exit or be killed.
LifecycleFairSpec == LifecycleSpec /\ \A p \in Pids : WF_vars(Handle(p))

--------------------------------------------------------------------------------
(* Properties *)

(***************************************************************************)
(* No process runs guest code before new_child has given it the rootfs,    *)
(* bindings and extensions of its parent, or after its entry was freed:    *)
(* its system calls would reach the host untranslated.                     *)
(***************************************************************************)
RunsConfigured == \A p \in Pids : proc[p] = "run" => entry[p] = "configured"

(***************************************************************************)
(* tracee->parent never points to a freed tracee, also after CLONE_PARENT  *)
(* and whatever the order in which parent, child and grandparent end.      *)
(***************************************************************************)
ParentsInList == \A p \in Pids : parent[p] # NoPid => InList(p) /\ InList(parent[p])

(***************************************************************************)
(* A child is held at its first SIGSTOP only while its parent's event is   *)
(* on its way, unless the parent was killed first (event.c:671).           *)
(***************************************************************************)
HeldExpected ==
  \A c \in Pids : proc[c] = "held" =>
    c \in lost \/ \E p \in Pids : Announces(p, c)

(***************************************************************************)
(* The tracees list names only processes that PRoot has not seen the end   *)
(* of, but for a child whose end was seen before its parent's event: it    *)
(* is added again by new_child, and never freed.                           *)
(***************************************************************************)
EntriesLive ==
  \A p \in Pids : InList(p) =>
    /\ proc[p] # "free"
    /\ proc[p] = "gone" => p \in early

(***************************************************************************)
(* A held child gets to run (or is killed), unless its parent was killed   *)
(* before PRoot received its event.                                        *)
(***************************************************************************)
HeldResume == \A c \in Pids : proc[c] = "held" ~> (proc[c] # "held" \/ c \in lost)

(***************************************************************************)
(* --kill-on-exit "forces the immediate termination of all tracee          *)
(* processes when the main command exits" (cli/proot.h:161).               *)
(***************************************************************************)
AllTerminated ==
  proc[Root] = "gone" ~> \A p \in Pids : proc[p] \in {"free", "gone"}
================================================================================

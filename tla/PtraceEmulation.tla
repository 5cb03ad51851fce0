---------------------------- MODULE PtraceEmulation ----------------------------
(***************************************************************************)
(* PRoot's emulation of ptrace(2) and of the wait(2) of a ptracer          *)
(* (ptrace/ptrace.c, ptrace/wait.c, and their half of tracee/tracee.c and  *)
(* tracee/event.c).  PRoot is the only tracer the kernel knows: the guest's *)
(* ptracers and ptracees exist in its tables only.                         *)
(*                                                                         *)
(* A ptrace call is made void at its entry and performed at its exit.  So  *)
(* is a wait call of a tracee that has ptracees; one without goes to the   *)
(* kernel, and comes back to PRoot when a child asks to be traced in the   *)
(* meantime.  An event of a ptracee is shown to its ptracer, the ptracee   *)
(* is kept stopped until the ptracer restarts it, and a ptracer with       *)
(* nothing to wait for yet is kept stopped by its wait_pid.                *)
(*                                                                         *)
(* Each tracee is one record: what the kernel knows of it, then the fields *)
(* of its Tracee.  The handlers of PRoot's event loop are operators from   *)
(* tables to tables; Handle(p) runs one iteration of the loop.  Threads    *)
(* (tracee->clone), signal numbers and SIGSYS are abstracted.              *)
(***************************************************************************)
EXTENDS Integers, Sequences, FiniteSets, SequencesExt

CONSTANTS
  Pids,       \* process identifiers, in the order of their creation
  ParentOf,   \* the process that forks each one, 0 for none
  Unborn,     \* those that a fork(2) is still to create
  Mortal,     \* those that may be killed at any moment
  Calls,      \* the calls each process may make
  Options,    \* the events a ptracer may ask for by PTRACE_SETOPTIONS
  Steps       \* bound: the steps each process makes before it ends

ASSUME PtraceAssumption ==
  /\ Pids \subseteq Nat \ {0} /\ IsFiniteSet(Pids)
  /\ ParentOf \in [Pids -> Pids \cup {0}]
  /\ Unborn \subseteq Pids /\ Mortal \subseteq Pids
  /\ Steps \in [Pids -> Nat]

VARIABLE t    \* the tracees

AnyPid  == -1    \* the pid -1 of wait(2)
NULL == 0     \* no ptracer, no parent; wait_pid of a tracee that does not wait

Call(nr, pid, how) == [nr |-> nr, pid |-> pid, how |-> how]
NoCall  == Call("none", 0, "")
Wait(pid, how)   == Call("wait", pid, how)      \* how: "" or "WNOHANG"
Ptrace(req, pid) == Call("ptrace", pid, req)

\* The stops the kernel reports to PRoot.  "enter" and "exit" are those of a
\* system call; "SIG" is any signal but SIGSTOP.
Stops  == {"enter", "exit", "SIG", "STOP", "fork", "exec"}
Events == Stops \cup {"exited"}

Event(pending, value) == [pending |-> pending, value |-> value]
NoEvent == Event(FALSE, "none")

FreshPid(p) ==
  [st |-> IF p \in Unborn THEN "unborn" ELSE "run",
   at |-> "none", new |-> FALSE,   \* its last stop; PRoot has not waited for it
   call |-> NoCall, void |-> FALSE, again |-> FALSE, result |-> 0,
   stopped |-> FALSE,              \* a SIGSTOP was sent and is not delivered
   left |-> Steps[p],
   listed |-> p \notin Unborn, exe |-> p \notin Unborn, running |-> TRUE,
   parent |-> IF p \in Unborn THEN NULL ELSE ParentOf[p],
   status |-> 0, chain |-> "none", sigstop |-> IF p \in Unborn THEN "IGNORED" ELSE "ALLOWED",
   nb_ptracees |-> 0, zombies |-> <<>>, wait_pid |-> NULL, waits_in |-> "DOESNT_WAIT",
   ptracer |-> NULL, proot |-> NoEvent, event |-> NoEvent,
   tracing_started |-> FALSE, ignore_syscalls |-> FALSE, options |-> {},
   told |-> {}, twice |-> FALSE, lost |-> FALSE, left_stopped |-> FALSE]

PtraceInit == t = [p \in Pids |-> FreshPid(p)]

PtraceTypeOK ==
  \A p \in Pids :
    /\ t[p].st \in {"unborn", "run", "sys", "stop", "dead", "zombie", "gone"}
    /\ t[p].at \in Events \cup {"none"}
    /\ {t[p].ptracer, t[p].parent} \subseteq Pids \cup {NULL}
    /\ t[p].wait_pid \in Pids \cup {NULL, AnyPid}
    /\ t[p].waits_in \in {"DOESNT_WAIT", "IN_KERNEL", "IN_PROOT"}
    /\ t[p].chain \in {"none", "queued", "last"}
    /\ t[p].sigstop \in {"IGNORED", "ALLOWED", "PENDING"}
    /\ t[p].nb_ptracees \in Nat

Lives(S, p)  == S[p].st \in {"run", "sys", "stop"}
Newest(s)    == CHOOSE p \in s : \A q \in s : q <= p      \* the list is LIFO
ZombiePids(S, r) == {z.pid : z \in ToSet(S[r].zombies)}

--------------------------------------------------------------------------------
(* Attaching, waking and restarting *)

NoPtracee == [ptracer |-> NULL, proot |-> NoEvent, event |-> NoEvent,
              tracing_started |-> FALSE, ignore_syscalls |-> FALSE, options |-> {}]

ClearPtracee(S, p) == [S EXCEPT ![p] = NoPtracee @@ @]

\* Mutant of attach_to_ptracer: the ptracees are not counted.
MutAttach(S, p, r) == [ClearPtracee(S, p) EXCEPT ![p].ptracer = r]

attach_to_ptracer(S, p, r) ==
  [ClearPtracee(S, p) EXCEPT ![p].ptracer = r, ![r].nb_ptracees = @ + 1]

detach_from_ptracer(S, p) ==
  LET r == S[p].ptracer IN [S EXCEPT ![r].nb_ptracees = @ - 1, ![p].ptracer = NULL]

\* A restart is refused to a tracee that waits for its ptracees.  The kernel
\* refuses it to one that died.
Restarts(S, p) == S[p].wait_pid = NULL /\ S[p].st = "stop"

restart_tracee(S, p) ==
  IF ~Restarts(S, p) THEN S
  ELSE [S EXCEPT ![p].running = TRUE, ![p].st = IF @ = "stop" /\ S[p].at = "enter" THEN "sys" ELSE "run"]

\* restart_original_syscall, then chain_next_syscall: the wait call is made
\* again, by the kernel this time.
restart_original_syscall(S, p) == [S EXCEPT ![p].chain = "queued"]

ChainNext(S, p) ==
  IF S[p].chain = "queued"
  THEN [S EXCEPT ![p].chain = "last", ![p].again = TRUE]
  ELSE [S EXCEPT ![p].chain = "none"]

\* get_ptracee for the pid of the call: zombies first, then the newest ptracee
\* that is stopped, with an event for its ptracer when the caller wants one.
Matches(pid, q) == pid \in {AnyPid, q}

ZombiesOf(S, r, pid) == SelectSeq(S[r].zombies, LAMBDA z : Matches(pid, z.pid))

\* Mutant of PtraceesOfAny: takes the children for ptracees.
MutPtraceesOfAny(S, r) == {q \in Pids : S[q].listed /\ r \in {S[q].ptracer, S[q].parent}}

PtraceesOfAny(S, r) == {q \in Pids : S[q].listed /\ S[q].ptracer = r}

PtraceesOf(S, r, pid) == {q \in PtraceesOfAny(S, r) : Matches(pid, q)}

StoppedPtracees(S, r, pid, withEvent) ==
  {q \in PtraceesOf(S, r, pid) : ~S[q].running /\ (withEvent => S[q].event.pending)}

has_ptracees(S, r, pid) == ZombiesOf(S, r, pid) # <<>> \/ PtraceesOf(S, r, pid) # {}

--------------------------------------------------------------------------------
(* wait(2) *)

\* The wait call of r gives it the death of q.
Tells(S, r, q) == [S EXCEPT ![r].told = @ \cup {q}, ![r].twice = @ \/ q \in S[r].told]

translate_wait_enter(S, r) ==
  LET pid == S[r].call.pid
      emulated == /\ S[r].nb_ptracees > 0
                  /\ pid = AnyPid \/ (S[pid].listed /\ S[pid].ptracer = r)
  IN [S EXCEPT ![r].waits_in = IF emulated THEN "IN_PROOT" ELSE "IN_KERNEL", ![r].void = emulated]

\* Mutant of ToldByKernel: PRoot gives every death itself.
MutToldByKernel(S, r, parent, death) == FALSE

ToldByKernel(S, r, parent, death) == parent = r /\ death

\* Gives the event of q, or of the zombie z = <<[pid, parent]>>, to the wait of
\* r.  A ptracer that is the parent gets the death from the kernel, by making
\* its call again: the kernel keeps a zombie until its parent has waited for it.
update_wait_status(S, r, q, z) ==
  LET zombie == z # <<>>
      pid    == IF zombie THEN z[1].pid ELSE q
      parent == IF zombie THEN z[1].parent ELSE S[q].parent
      death  == zombie \/ S[q].event.value = "exited"
      detached == IF zombie
                  THEN [S EXCEPT ![r].zombies = SelectSeq(@, LAMBDA x : x # z[1]), ![r].nb_ptracees = @ - 1]
                  ELSE detach_from_ptracer(S, q)
  IN IF ToldByKernel(S, r, parent, death)
     THEN [S |-> restart_original_syscall(detached, r), result |-> 0]
     ELSE [S |-> LET S1 == IF zombie THEN detached ELSE [S EXCEPT ![q].event.pending = FALSE]
                 IN IF death THEN Tells(S1, r, pid) ELSE S1,
           result |-> pid]

translate_wait_exit(S0, r) ==
  LET call == S0[r].call
      S    == [S0 EXCEPT ![r].waits_in = "DOESNT_WAIT",
                         ![r].lost = @ \/ (~S0[r].void /\ S0[r].result # 0)]
      zs   == ZombiesOf(S, r, call.pid)
      qs   == StoppedPtracees(S, r, call.pid, TRUE)
  IN CASE zs # <<>> -> update_wait_status(S, r, NULL, <<zs[1]>>).S
       [] zs = <<>> /\ qs # {} -> update_wait_status(S, r, Newest(qs), <<>>).S
       [] OTHER -> IF S[r].nb_ptracees = 0 \/ call.how = "WNOHANG"
                   THEN S                          \* -ECHILD, or 0
                   ELSE [S EXCEPT ![r].wait_pid = call.pid]

\* Mutant of Wakes: only a wait for this very pid is woken.
MutWakes(S, r, q) == S[r].wait_pid = q

Wakes(S, r, q) == S[r].wait_pid \in {AnyPid, q}

\* The end of handle_ptracee_event: the event ev of q is shown to its ptracer,
\* whose wait it may end.  The ptracee is kept stopped unless it is dead; also
\* when its ptracer was woken, provided this one was restarted.
Show(S0, q, ev) ==
  LET r == S0[q].ptracer
      S == [S0 EXCEPT ![q].event = Event(TRUE, ev)]
      keep == ev # "exited"
  IN IF Wakes(S, r, q)
     THEN LET u  == update_wait_status(S, r, q, <<>>)
              S1 == IF u.result = 0 THEN ChainNext(u.S, r) ELSE u.S
              S2 == [S1 EXCEPT ![r].wait_pid = NULL]
          IN [S |-> restart_tracee(S2, r), keep |-> keep /\ Restarts(S2, r)]
     ELSE [S |-> S, keep |-> keep]

--------------------------------------------------------------------------------
(* The first stops: entry of a system call, signals *)

\* signal -1: do not restart
handle_stop(S0, p, ev) ==
  LET S == [S0 EXCEPT ![p].proot.pending = FALSE] IN
  CASE ev = "enter" ->
         IF S[p].chain # "none" THEN [S |-> [S EXCEPT ![p].status = 1, ![p].void = FALSE], go |-> TRUE]
         ELSE LET S1 == CASE S[p].call.nr = "wait"   -> translate_wait_enter(S, p)
                          [] S[p].call.nr = "ptrace" -> [S EXCEPT ![p].void = TRUE]
                          [] OTHER                   -> [S EXCEPT ![p].void = FALSE]
              IN [S |-> [S1 EXCEPT ![p].status = 1], go |-> TRUE]
    [] ev = "STOP" /\ ~S[p].exe -> [S |-> [S EXCEPT ![p].sigstop = "PENDING"], go |-> FALSE]
    [] ev = "STOP" /\ S[p].exe /\ S[p].sigstop = "IGNORED" ->
         [S |-> [S EXCEPT ![p].sigstop = "ALLOWED"], go |-> TRUE]
    [] OTHER -> [S |-> S, go |-> TRUE]

\* What becomes of the event a ptracee was stopped for, once its ptracer lets
\* it go: PRoot handles it now unless it has already.
ReleaseEvent(S, q) ==
  LET h == IF S[q].proot.pending THEN handle_stop(S, q, S[q].proot.value) ELSE [S |-> S, go |-> TRUE]
  IN IF h.go THEN restart_tracee(h.S, q) ELSE h.S

--------------------------------------------------------------------------------
(* ptrace(2) *)

\* Mutant of Attachable: a second ptracer takes the ptracee.
MutAttachable(S, p, r) == p # r

\* One ptracer per process.
Attachable(S, p, r) == S[p].ptracer = NULL /\ p # r

\* An orphan makes PRoot dereference NULL and is left out.
Traceme(S, p) ==
  LET r == S[p].parent IN
  IF r = NULL \/ ~Attachable(S, p, r) THEN S
  ELSE LET S1 == attach_to_ptracer(S, p, r) IN
       IF S1[r].waits_in = "IN_KERNEL" /\ Lives(S1, r)
       THEN [S1 EXCEPT ![r].stopped = TRUE, ![r].sigstop = "IGNORED", ![r].waits_in = "IN_PROOT"]
       ELSE S1

Attach(S, r, q) ==
  IF ~S[q].listed \/ ~Attachable(S, q, r) THEN S
  ELSE [attach_to_ptracer(S, q, r) EXCEPT ![q].stopped = TRUE]

\* Mutant of Restarting: a ptracee that is let go is not restarted.
MutRestarting == {"SYSCALL", "CONT", "SINGLESTEP", "SINGLEBLOCK", "KILL"}

Restarting == {"SYSCALL", "CONT", "SINGLESTEP", "SINGLEBLOCK", "KILL", "DETACH"}

\* The others (PEEK..., GETREGS, ...) read or write the ptracee and leave it stopped.
Request(S, r, q, req) ==
  LET S1 == CASE req = "SYSCALL"    -> [S EXCEPT ![q].ignore_syscalls = FALSE]
              [] req = "CONT"       -> [S EXCEPT ![q].ignore_syscalls = TRUE]
              [] req = "DETACH"     -> detach_from_ptracer(S, q)
              [] req = "SETOPTIONS" -> [S EXCEPT ![q].options = Options]
              [] req = "KILL"       -> [S EXCEPT ![q].st = "dead", ![q].at = "exited", ![q].new = TRUE]
              [] OTHER              -> S
  IN IF req \in Restarting THEN ReleaseEvent(S1, q) ELSE S1

translate_ptrace_exit(S, p) ==
  LET req == S[p].call.how
      q   == S[p].call.pid
      stopped == ZombiesOf(S, p, q) = <<>> /\ q \in StoppedPtracees(S, p, q, FALSE)
  IN CASE req = "TRACEME" -> Traceme(S, p)
       [] req = "ATTACH"  -> Attach(S, p, q)
       [] OTHER           -> IF stopped THEN Request(S, p, q, req) ELSE S   \* -ESRCH

--------------------------------------------------------------------------------
(* The other stops *)

\* new_child: c gets its parent, the ptracer of p when this one asked for
\* children, and is restarted if it was held at its first SIGSTOP.
new_child(S, p, c) ==
  LET S1 == [S EXCEPT ![c].listed = TRUE, ![c].exe = TRUE, ![c].parent = p]
      S2 == IF S[p].ptracer # NULL /\ "fork" \in S[p].options
            THEN [attach_to_ptracer(S1, c, S[p].ptracer) EXCEPT ![c].options = S[p].options]
            ELSE S1
      S3 == [S2 EXCEPT ![c].sigstop = "ALLOWED"]
  IN IF S[c].sigstop # "PENDING" THEN S2
     ELSE IF S3[c].ptracer = NULL THEN restart_tracee(S3, c)
     ELSE LET s == Show([S3 EXCEPT ![c].tracing_started = TRUE], c, "STOP")
          IN IF s.keep THEN s.S ELSE restart_tracee(s.S, c)

ExitWithEvents(S, p) ==
  IF S[p].chain # "none"                                       \* a chained call
  THEN IF S[p].result # 0 THEN Tells(S, p, S[p].result) ELSE S
  ELSE CASE S[p].call.nr = "wait" ->
              IF S[p].waits_in = "IN_PROOT" THEN translate_wait_exit(S, p)
              ELSE IF S[p].result # 0 THEN Tells(S, p, S[p].result) ELSE S
         [] S[p].call.nr = "ptrace" -> translate_ptrace_exit(S, p)
         [] OTHER -> S

ForkOf(p, S) == CHOOSE c \in Unborn : ParentOf[c] = p

handle_tracee_event(S, p, ev) ==
  CASE ev = "exit" ->
         LET S1 == ExitWithEvents(S, p)
             S2 == [S1 EXCEPT ![p].status = 0, ![p].proot.pending = FALSE]
         IN [S |-> IF S2[p].chain # "none" THEN ChainNext(S2, p) ELSE S2, go |-> TRUE]
    [] ev = "fork"   -> [S |-> [new_child(S, p, ForkOf(p, S)) EXCEPT ![p].proot.pending = FALSE], go |-> TRUE]
    [] ev = "exec"   -> [S |-> [S EXCEPT ![p].proot.pending = FALSE], go |-> TRUE]
    [] ev = "exited" -> [S |-> [S EXCEPT ![p].proot.pending = FALSE], go |-> TRUE]
    [] OTHER         -> handle_stop(S, p, ev)

\* Does the ptracer of p see the event ev ?
Shown(S, p, ev) ==
  CASE ev \in {"enter", "exit"} -> ~S[p].ignore_syscalls /\ S[p].tracing_started
    [] ev \in {"fork", "exec"}  -> ev \in S[p].options
    [] OTHER                    -> TRUE

\* The result's "keep" tells the event loop to leave p alone.
handle_ptracee_event(S0, p, ev) ==
  LET starts == ev \notin {"enter", "exit"} /\ Shown(S0, p, ev)
      S == [S0 EXCEPT ![p].proot = Event(TRUE, ev), ![p].tracing_started = @ \/ starts]
      first == ev \in {"fork", "exec", "exit"}                 \* handled_by_proot_first
  IN IF ~Shown(S0, p, ev) THEN [S |-> S, keep |-> FALSE]
     ELSE IF first THEN Show(handle_tracee_event(S, p, ev).S, p, ev)
     ELSE Show(S, p, ev)

\* remove_tracee: p's children and ptracees are let go; its own ptracer keeps a
\* zombie of it until told, or has nothing to wait for any more.
LetGo(S, q) ==
  LET S1 == [S EXCEPT ![q].ptracer = NULL]
      pending == S[q].proot.pending \/ S[q].event.pending
  IN ClearPtracee(IF pending THEN ReleaseEvent(S1, q)
                  ELSE [S1 EXCEPT ![q].left_stopped = @ \/ (~S[q].running /\ S[q].wait_pid = NULL)], q)

remove_tracee(S0, p) ==
  LET ptracees == PtraceesOfAny(S0, p)
      S1 == [q \in Pids |-> IF q = p THEN [S0[p] EXCEPT !.listed = FALSE, !.zombies = <<>>]
                            ELSE IF S0[q].parent = p THEN [S0[q] EXCEPT !.parent = NULL] ELSE S0[q]]
      S2 == FoldLeft(LetGo, S1, SetToSortSeq(ptracees, >))
      r  == S2[p].ptracer
      S3 == detach_from_ptracer(S2, p)
  IN IF r = NULL THEN S2
     ELSE IF S2[p].event = Event(TRUE, "exited")
     THEN [S3 EXCEPT ![r].zombies = <<[pid |-> p, parent |-> S2[p].parent]>> \o @, ![r].nb_ptracees = @ + 1]
     ELSE IF S3[r].nb_ptracees = 0 /\ S3[r].wait_pid # NULL
     THEN restart_tracee([S3 EXCEPT ![r].wait_pid = NULL], r)
     ELSE S3

--------------------------------------------------------------------------------
(* The processes and the kernel *)

Stop(p, ev) == [t[p] EXCEPT !.st = "stop", !.at = ev, !.new = TRUE]

CanStep(p) == t[p].st = "run" /\ ~t[p].again /\ ~t[p].stopped /\ t[p].left > 0

\* p reaches the entry of a system call.
Enter(p) ==
  /\ CanStep(p)
  /\ \E c \in Calls[p] :
       t' = [t EXCEPT ![p] = [Stop(p, "enter") EXCEPT !.call = c, !.result = 0, !.left = @ - 1]]

\* p reaches it again with the same arguments: a chained call, or one that a
\* signal interrupted.
EnterAgain(p) ==
  /\ t[p].st = "run" /\ t[p].again /\ ~t[p].stopped
  /\ t' = [t EXCEPT ![p] = [Stop(p, "enter") EXCEPT !.again = FALSE, !.result = 0]]

\* p receives a signal, or calls execve(2).
Interrupted(p) ==
  /\ CanStep(p)
  /\ \E ev \in {"SIG", "exec"} : t' = [t EXCEPT ![p] = [Stop(p, ev) EXCEPT !.left = @ - 1]]

\* The SIGSTOP that PRoot sent to p for an ATTACH or a TRACEME.
DeliverStop(p) ==
  /\ t[p].st = "run" /\ t[p].stopped
  /\ t' = [t EXCEPT ![p] = [Stop(p, "STOP") EXCEPT !.stopped = FALSE]]

Fork(p, c) ==
  /\ CanStep(p) /\ t[c].st = "unborn" /\ ParentOf[c] = p
  /\ t' = [t EXCEPT ![p] = [Stop(p, "fork") EXCEPT !.left = @ - 1], ![c] = Stop(c, "STOP")]

\* The kernel returns from a call that is not a wait, or that PRoot made void.
Return(p) ==
  /\ t[p].st = "sys" /\ (t[p].void \/ t[p].call.nr # "wait")
  /\ t' = [t EXCEPT ![p] = Stop(p, "exit")]

Children(p) == {c \in Pids : ParentOf[c] = p /\ t[c].st \notin {"unborn", "gone"} /\ Matches(t[p].call.pid, c)}

\* The kernel's own wait(2): a dead child, none to wait for, none dead yet.
KernelWait(p) ==
  /\ t[p].st = "sys" /\ ~t[p].void /\ t[p].call.nr = "wait"
  /\ \/ \E c \in Children(p) : /\ t[c].st = "zombie"
                               /\ t' = [t EXCEPT ![p] = [Stop(p, "exit") EXCEPT !.result = c],
                                                 ![c].st = "gone"]
     \/ /\ Children(p) = {} \/ t[p].call.how = "WNOHANG"
        /\ \A c \in Children(p) : t[c].st # "zombie"
        /\ t' = [t EXCEPT ![p] = Stop(p, "exit")]
     \/ /\ t[p].stopped
        /\ t' = [t EXCEPT ![p] = [Stop(p, "exit") EXCEPT !.again = TRUE]]

\* A death between the stop "fork" and its iteration is left to TraceeLifecycle.
Dies(p) ==
  /\ \/ t[p].st = "run" /\ ~t[p].again /\ ~t[p].stopped
     \/ p \in Mortal /\ Lives(t, p) /\ ~(t[p].new /\ t[p].at = "fork")
  /\ t' = [t EXCEPT ![p].st = "dead", ![p].at = "exited", ![p].new = TRUE]

--------------------------------------------------------------------------------
(* PRoot: one iteration of event_loop *)

\* The kernel, once PRoot has waited for the death of p: a zombie for a parent
\* that lives, and no zombie left of the children of p.
Reaped(S, p) ==
  [q \in Pids |->
     IF q = p THEN [S[p] EXCEPT !.st = IF ParentOf[p] # NULL /\ Lives(S, ParentOf[p]) THEN "zombie" ELSE "gone"]
     ELSE IF ParentOf[q] = p /\ S[q].st = "zombie" THEN [S[q] EXCEPT !.st = "gone"] ELSE S[q]]

\* handle_tracee_event and restart_tracee, unless the ptracer keeps p stopped.
event_loop(S0, p, ev) ==
  LET pe == IF S0[p].ptracer # NULL THEN handle_ptracee_event(S0, p, ev) ELSE [S |-> S0, keep |-> FALSE]
      h  == handle_tracee_event(pe.S, p, ev)
  IN IF pe.keep THEN pe.S ELSE IF h.go THEN restart_tracee(h.S, p) ELSE h.S

Handle(p) ==
  /\ t[p].new
  /\ LET ev == t[p].at
         S  == event_loop([t EXCEPT ![p].new = FALSE, ![p].running = FALSE, ![p].listed = TRUE], p, ev)
     IN t' = IF ev = "exited" THEN remove_tracee(Reaped(S, p), p) ELSE S

PtraceNext ==
  \/ \E p \in Pids : Enter(p) \/ EnterAgain(p) \/ Interrupted(p) \/ DeliverStop(p)
                     \/ Return(p) \/ KernelWait(p) \/ Dies(p) \/ Handle(p)
  \/ \E p, c \in Pids : Fork(p, c)

PtraceSpec == PtraceInit /\ [][PtraceNext]_t

--------------------------------------------------------------------------------
(* Properties *)

\* PRoot has waited for the last stop of p and has not restarted it.
Held(p) == t[p].listed /\ t[p].st = "stop" /\ ~t[p].new

\* nb_ptracees, which decides whether a wait is emulated and whether it can end,
\* counts the ptracees and the zombies of a ptracer after any TRACEME, ATTACH,
\* DETACH, fork, death and wait.
CountsPtracees ==
  \A r \in Pids : t[r].listed =>
    t[r].nb_ptracees = Cardinality({q \in Pids : t[q].listed /\ t[q].ptracer = r}) + Len(t[r].zombies)

\* A ptracer that is kept in its wait (wait_pid) has something to wait for, and
\* no event that its wait should have returned: no wake-up is lost between the
\* entry of the wait, its exit and the events of the ptracees.
NoLostWakeup ==
  \A r \in Pids : (t[r].listed /\ t[r].wait_pid # NULL) =>
    /\ t[r].nb_ptracees > 0
    /\ ZombiesOf(t, r, t[r].wait_pid) = <<>>
    /\ StoppedPtracees(t, r, t[r].wait_pid, TRUE) = {}

\* Whoever is kept stopped waits for its ptracees, has a ptracer that can restart
\* it, or is a child whose parent PRoot does not know yet.  Except the ptracees
\* that PtraceesFree is about.
NobodyInLimbo ==
  \A p \in Pids : Held(p) =>
    t[p].wait_pid # NULL \/ t[p].ptracer # NULL \/ ~t[p].exe \/ t[p].left_stopped

\* The death of a process is told to a waiting process once, by PRoot's emulation
\* or by the kernel's wait that it hands the event to, not by both.
DeathsToldOnce == \A p \in Pids : ~t[p].twice

\* The waits that PRoot emulates: whoever is kept in one has something to wait for,
\* by a count that is right, and what it waits for is told once (ptrace/wait.c).
WaitsAnswered == CountsPtracees /\ NoLostWakeup /\ DeathsToldOnce

\* wait.c:249: a ptracee shown to its ptracer is kept stopped until its ptracer
\* restarts it: it starts again only in an iteration for its ptracer.
KeptStopped ==
  [][\A q \in Pids :
       LET r == t[q].ptracer
           shown == /\ t[q].event.value = t[q].at
                    /\ t[q].at \in {"enter", "exit"} => ~t[q].ignore_syscalls
       IN (Held(q) /\ r # NULL /\ shown /\ t'[q].running) => t[r].new /\ ~t'[r].new]_t

\* tracee.c:420-431, "Sanity checks" of new_child: the child that a fork announces has no
\* program, no parent and no ptracer yet.  Not so when a PTRACE_ATTACH came
\* between the first stop of the child and the handling of the fork.
NewChildSane ==
  [][\A p \in Pids : t[p].new /\ t[p].at = "fork" /\ ~t'[p].new =>
       LET c == ForkOf(p, t) IN ~t[c].exe /\ t[c].parent = NULL /\ t[c].ptracer = NULL]_t

\* wait.c:98: a wait for one pid is emulated only when this pid is a ptracee.
WaitsForPtracee ==
  \A r \in Pids : (t[r].listed /\ t[r].wait_pid \in Pids) => t[t[r].wait_pid].ptracer = r

\* tracee.c:104: when a ptracer ends its ptracees are free, those too that were
\* shown to it and wait for its restart.
PtraceesFree == \A p \in Pids : ~t[p].left_stopped
================================================================================

------------------------------- MODULE SysVShm -------------------------------
(***************************************************************************)
(* The emulated System V shared memory of PRoot (sysvipc_shm.c): segments, *)
(* the mappings each process has of them, and shmat, which is not one call *)
(* but a chain of five that the tracee makes: socket() and connect() to a  *)
(* helper process, recvmsg() of the segment's descriptor, mmap() of it and *)
(* close().  Three sides run at once: PRoot, whose handlers are atomic,    *)
(* the tracees, and the helper, which serves PRoot's requests in order.    *)
(* The wait for a busy helper is the mechanism of SysVIpcWait, told again  *)
(* here because its waker also starts the waiter's chain.                  *)
(***************************************************************************)
EXTENDS Integers, Sequences, FiniteSets, SequencesExt, FiniteSetsExt

CONSTANTS
  Tracees,     \* the tracees that may exist; a process bears its first one's name
  Root,        \* the first tracee
  Threads,     \* may a tracee be a thread of another's process?
  EntryPaths,  \* how shmat reaches its handler: subset of {"ptrace", "sigsys"}
  Faults,      \* what may go wrong: subset of FaultKinds
  Keys,        \* the keys of the segments
  MaxSlots,    \* bounds of the model: slots, generations of a slot,
  MaxGen,      \* mappings of all the processes
  MaxMaps

FaultKinds == {"kill", "signal", "nospace", "refused", "unwritable", "nomap"}

ASSUME ShmAssumption ==
  /\ Root \in Tracees
  /\ Threads \in BOOLEAN
  /\ EntryPaths \subseteq {"ptrace", "sigsys"}
  /\ Faults \subseteq FaultKinds
  /\ MaxSlots \in Nat /\ MaxGen \in Nat /\ MaxMaps \in Nat

VARIABLES
  tr,       \* the tracees: where they are and their struct SysVIpcConfig
  proc,     \* config->process: the tracee that the process is named after
  maps,     \* process->mapped_shms: per process and slot, how many of each kind
  slots,    \* ipc_namespace->shms
  reqs,     \* requests in the pipe to the helper
  openFds,     \* the segments' descriptors that are open in the helper
  conns,    \* connections the helper has not accepted yet, oldest first
  inbox,    \* what recvmsg() of each tracee will return
  crashed   \* an assert() of PRoot has failed

shmVars == <<tr, proc, maps, slots, reqs, openFds, conns, inbox, crashed>>

(***************************************************************************)
(* at: the system call a tracee makes, "connected" once the kernel has done*)
(* connect().  ws: config->wait_state; it has a wait_reason exactly when   *)
(* it is in Sleeping.  cs: config->chain_state, "none" outside of shmat.   *)
(***************************************************************************)
CallStages    == {"enter", "ppoll", "ppoll_ret", "socket", "connect", "connected",
             "recvmsg", "mmap", "close"}
Sleeping == {"RESTARTED_INTO_PPOLL", "ENTERED_PPOLL"}
WStates  == {"NOT_WAITING", "RESTARTED_INTO_PPOLL_CANCELED", "SIGNALED_PPOLL"} \cup Sleeping
BusyStages     == {"connect", "recvmsg", "mmap"}   \* above SOCKET, up to MMAP
Kinds    == {"pending", "attached", "failed"}
Nothing  == 0    \* no message yet; a descriptor is positive
Eof      == -1
NoMaps   == [i \in 1 .. MaxSlots |-> [k \in Kinds |-> 0]]

Idle     == [at |-> "guest", ws |-> "NOT_WAITING", cs |-> "none",
             slot |-> 0, gen |-> 0, fd |-> 0]
Unborn   == [Idle EXCEPT !.at = "unborn"]

IsAlive(t)   == tr[t].at \notin {"unborn", "dead", "gone"}
InShmat(t) == tr[t].at \in CallStages
Sharing(t) == {u \in Tracees : proc[u] = proc[t] /\ tr[u].at \notin {"unborn", "gone"}}

\* Slot i has a mapping in M: the list of its mappings is not empty.
Mapped(M, i) == \E p \in Tracees, k \in Kinds : M[p][i][k] > 0

\* How many mappings M has of slot i.
Count(M, i) ==
  MapThenSumSet(LAMBDA p : MapThenSumSet(LAMBDA k : M[p][i][k], Kinds), Tracees)

ShmTypeOK ==
  /\ \A t \in Tracees : /\ tr[t].at \in CallStages \cup {"guest", "unborn", "dead", "gone"}
                        /\ tr[t].ws \in WStates
                        /\ tr[t].cs \in BusyStages \cup {"none", "socket"}
                        /\ tr[t].slot \in 0 .. Len(slots) /\ tr[t].fd \in Nat
  /\ \A p \in Tracees, i \in 1 .. MaxSlots, k \in Kinds : maps[p][i][k] \in 0 .. MaxMaps
  /\ slots \in Seq([key : Keys, gen : Nat, valid : BOOLEAN, rmid : BOOLEAN, fd : Nat])
  /\ proc \in [Tracees -> Tracees]
  /\ conns \in Seq(Tracees \cup {"stale"})

ShmInit ==
  /\ tr      = [t \in Tracees |-> IF t = Root THEN Idle ELSE Unborn]
  /\ proc    = [t \in Tracees |-> t]
  /\ maps    = [p \in Tracees |-> NoMaps]
  /\ slots   = <<>>
  /\ reqs    = <<>>
  /\ openFds    = {}
  /\ conns   = <<>>
  /\ inbox   = [t \in Tracees |-> Nothing]
  /\ crashed = FALSE

--------------------------------------------------------------------------------
(* shmget, shmdt, shmctl; they return without waiting for anybody *)

Guest(t) == tr[t].at = "guest" /\ ~crashed

\* sysvipc_shmget on key with IPC_CREAT; the helper allocates the memory and
\* replies, so it has served every earlier request.
Shmget(t, key) ==
  LET found  == {i \in DOMAIN slots : slots[i].valid /\ slots[i].key = key}
      unused == {i \in DOMAIN slots : ~slots[i].valid}
      fd     == Min((1 .. MaxSlots + 1) \ openFds)
      fresh(gen) == [key |-> key, gen |-> gen, valid |-> TRUE, rmid |-> FALSE, fd |-> fd]
      never  == [key |-> key, gen |-> 0, valid |-> FALSE, rmid |-> FALSE, fd |-> 0]
  IN /\ Guest(t) /\ reqs = <<>> /\ found = {}
     /\ \/ /\ unused # {}
           /\ slots' = [slots EXCEPT ![Min(unused)] = fresh(@.gen)]
           /\ openFds' = openFds \cup {fd}
        \/ /\ unused = {} /\ Len(slots) < MaxSlots
           /\ slots' = Append(slots, fresh(0))
           /\ openFds' = openFds \cup {fd}
        \/ /\ "nospace" \in Faults
           /\ unused = {} /\ Len(slots) < MaxSlots
           /\ slots' = Append(slots, never)
           /\ UNCHANGED openFds
     /\ UNCHANGED <<tr, proc, maps, reqs, conns, inbox, crashed>>

\* The slot after sysvipc_do_rmid.
Removed(s) == [s EXCEPT !.valid = FALSE, !.rmid = FALSE, !.fd = 0, !.gen = @ + 1]

\* Mutant of FreeRequest: the descriptor is reset before the request is made.
MutFree(s) == [op |-> "free", fd |-> Removed(s).fd]

\* The request to close the segment in s.
FreeRequest(s) == [op |-> "free", fd |-> s.fd]

\* Mutant of Completes: a removal is completed by the next one to detach.
MutCompletes(M, i) == slots[i].rmid /\ Count(M, i) < Count(maps, i)

\* A removal that waited for the last of the mappings, M being those left.
Completes(M, i) == slots[i].rmid /\ ~Mapped(M, i)

\* The mappings become M: sysvipc_shm_memmap_destructor of those that go.
Unmap(M) ==
  LET over == {i \in DOMAIN slots : Completes(M, i)}
  IN /\ maps'  = M
     /\ slots' = [i \in DOMAIN slots |-> IF i \in over THEN Removed(slots[i]) ELSE slots[i]]
     /\ reqs'  = reqs \o [n \in 1 .. Cardinality(over) |-> FreeRequest(slots[SetToSeq(over)[n]])]

\* Mutant of WaitsForMaps: IPC_RMID looks only at the memory that is attached.
MutWaitsForMaps(i) == \E p \in Tracees : maps[p][i]["attached"] > 0

\* IPC_RMID must wait: the segment has mappings.
WaitsForMaps(i) == Mapped(maps, i)

\* sysvipc_shmctl with IPC_RMID.
Rmid(t, i) ==
  /\ Guest(t) /\ i \in DOMAIN slots /\ slots[i].valid /\ slots[i].gen < MaxGen
  /\ \/ /\ WaitsForMaps(i)
        /\ slots' = [slots EXCEPT ![i].rmid = TRUE]
        /\ UNCHANGED reqs
     \/ /\ ~WaitsForMaps(i)
        /\ slots' = [slots EXCEPT ![i] = Removed(@)]
        /\ reqs' = Append(reqs, FreeRequest(slots[i]))
  /\ UNCHANGED <<tr, proc, maps, openFds, conns, inbox, crashed>>

\* sysvipc_shmdt looks at the address only: shmdt(0) takes a pending mapping for an
\* attached segment, and the errno of a failed shmat names its mapping.
Shmdt(t, i, kind) ==
  /\ Guest(t) /\ i \in DOMAIN slots
  /\ kind \in Kinds /\ maps[proc[t]][i][kind] > 0
  /\ Unmap([maps EXCEPT ![proc[t]][i][kind] = @ - 1])
  /\ UNCHANGED <<tr, proc, openFds, conns, inbox, crashed>>

--------------------------------------------------------------------------------
(* shmat *)

\* sysvipc_shmat registers the mapping at once.
Registers(p, i) == [maps EXCEPT ![p][i]["pending"] = @ + 1]

\* A tracee in the middle of its chain; one still in its socket() does not count.
HelperBusy(t) == \E u \in Tracees : tr[u].cs \in BusyStages

\* sysvipc_shmat of slot i, then what sysvipc_syscall_common makes of the call.
Shmat(t, path, i) ==
  LET call == [tr[t] EXCEPT !.slot = i, !.gen = slots[i].gen]
  IN /\ Guest(t) /\ i \in DOMAIN slots /\ slots[i].valid
     /\ MapThenSumSet(LAMBDA j : Count(maps, j), 1 .. MaxSlots) < MaxMaps
     /\ maps' = Registers(proc[t], i)
     /\ \/ /\ HelperBusy(t) /\ path = "ptrace"
           /\ tr' = [tr EXCEPT ![t] = [call EXCEPT !.at = "ppoll", !.ws = "ENTERED_PPOLL"]]
        \/ /\ HelperBusy(t) /\ path = "sigsys"
           /\ tr' = [tr EXCEPT ![t] = [call EXCEPT !.at = "enter", !.ws = "RESTARTED_INTO_PPOLL"]]
        \/ /\ ~HelperBusy(t)
           /\ tr' = [tr EXCEPT ![t] = [call EXCEPT !.at = "socket", !.cs = "socket"]]
     /\ UNCHANGED <<proc, slots, reqs, openFds, conns, inbox, crashed>>

\* sysvipc_shm_wake_pending_shmat, T being the tracees so far: the first waiter
\* of the list, here any, is woken and its chain starts.
WakePendingShmat(T) ==
  LET waiters == {u \in Tracees : T[u].ws \in Sleeping}
      woken(c) == [c EXCEPT !.cs = "socket",
                            !.ws = IF @ = "ENTERED_PPOLL" THEN "SIGNALED_PPOLL"
                                   ELSE "RESTARTED_INTO_PPOLL_CANCELED"]
  IN \/ waiters = {} /\ tr' = T
     \/ \E u \in waiters : tr' = [T EXCEPT ![u] = woken(@)]

\* The tracee goes on to call next of its chain, cs.
GoesOn(t, next) == tr' = [tr EXCEPT ![t].at = next, ![t].cs = next]

\* sysvipc_shm_find_pending_mapping finds nothing.
NoPending(t) == maps[proc[t]][tr[t].slot]["pending"] = 0

\* An assert() of sysvipc_shmat_chain fails at the end of this call of t.
Fails(t, needs_pending) ==
  \/ ~slots[tr[t].slot].valid
  \/ needs_pending /\ NoPending(t)

Crash(t) == /\ crashed' = TRUE
            /\ UNCHANGED <<tr, proc, maps, slots, reqs, openFds, conns, inbox>>

\* Mutant of Wakes: a failed shmat forgets those that wait for it.
MutWakes(T) == tr' = T

\* What follows the end of a shmat that failed.
Wakes(T) == WakePendingShmat(T)

\* fail_dont_close ("guest") and fail_close_socket ("close").
GivesUp(t, next) ==
  \/ Fails(t, TRUE) /\ Crash(t)
  \/ /\ ~Fails(t, TRUE)
     /\ Unmap([maps EXCEPT ![proc[t]][tr[t].slot]["pending"] = @ - 1])
     /\ Wakes([tr EXCEPT ![t] = [Idle EXCEPT !.at = next]])
     /\ conns' = [n \in DOMAIN conns |-> IF conns[n] = t THEN "stale" ELSE conns[n]]
     /\ inbox' = [inbox EXCEPT ![t] = Nothing]
     /\ UNCHANGED <<proc, openFds, crashed>>

\* A handler of the chain that only registers the next call.
Registered(t, next) ==
  \/ Fails(t, FALSE) /\ Crash(t)
  \/ /\ ~Fails(t, FALSE)
     /\ GoesOn(t, next)
     /\ UNCHANGED <<proc, maps, slots, reqs, openFds, conns, inbox, crashed>>

\* End of socket(): CSTATE_SHMAT_SOCKET.
AfterSocket(t) ==
  /\ tr[t].at = "socket" /\ ~crashed
  /\ Registered(t, "connect") \/ ("refused" \in Faults /\ GivesUp(t, "guest"))

\* The kernel queues the connection; the queue holds as many as listen(fd, 1) says.
Connect(t) ==
  /\ tr[t].at = "connect" /\ Len(conns) < 2 /\ ~crashed
  /\ tr' = [tr EXCEPT ![t].at = "connected"]
  /\ conns' = Append(conns, t)
  /\ UNCHANGED <<proc, maps, slots, reqs, openFds, inbox, crashed>>

\* connect() fails: CSTATE_SHMAT_CONNECT.
ConnectRefused(t) ==
  /\ tr[t].at = "connect" /\ "refused" \in Faults /\ ~crashed
  /\ GivesUp(t, "close")

\* End of connect(): CSTATE_SHMAT_CONNECT asks the helper for the descriptor.
AfterConnect(t) ==
  /\ tr[t].at = "connected" /\ ~crashed
  /\ \/ Fails(t, FALSE) /\ Crash(t)
     \/ /\ ~Fails(t, FALSE)
        /\ reqs' = Append(reqs, [op |-> "distribute", fd |-> slots[tr[t].slot].fd])
        /\ GoesOn(t, "recvmsg")
        /\ UNCHANGED <<proc, maps, slots, openFds, conns, inbox, crashed>>
     \/ "unwritable" \in Faults /\ GivesUp(t, "close")

\* End of recvmsg(): CSTATE_SHMAT_RECVMSG.
AfterRecvmsg(t) ==
  /\ tr[t].at = "recvmsg" /\ inbox[t] # Nothing /\ ~crashed
  /\ \/ inbox[t] = Eof /\ GivesUp(t, "close")
     \/ inbox[t] # Eof /\ Fails(t, FALSE) /\ Crash(t)
     \/ /\ inbox[t] # Eof /\ ~Fails(t, FALSE)
        /\ tr' = [tr EXCEPT ![t].at = "mmap", ![t].cs = "mmap", ![t].fd = inbox[t]]
        /\ inbox' = [inbox EXCEPT ![t] = Nothing]
        /\ UNCHANGED <<proc, maps, slots, reqs, openFds, conns, crashed>>

\* End of mmap(): CSTATE_SHMAT_MMAP.  Its result is recorded even if it is an error; of a
\* segment without length it is one, and with the size 0 the mapping still looks pending.
AfterMmap(t) ==
  LET i == tr[t].slot
  IN /\ tr[t].at = "mmap" /\ ~crashed
     /\ \/ Fails(t, TRUE) /\ Crash(t)
        \/ /\ ~Fails(t, TRUE)
           /\ \/ \E kind \in {"attached"} \cup ({"failed"} \cap {f \in Kinds : "nomap" \in Faults}) :
                   maps' = [maps EXCEPT ![proc[t]][i]["pending"] = @ - 1,
                                        ![proc[t]][i][kind] = @ + 1]
              \/ "nomap" \in Faults /\ UNCHANGED maps
           /\ WakePendingShmat([tr EXCEPT ![t] = [Idle EXCEPT !.at = "close"]])
           /\ UNCHANGED <<proc, slots, reqs, openFds, conns, inbox, crashed>>

\* The close() calls are over: shmat returns.
AfterClose(t) ==
  /\ tr[t].at = "close" /\ ~crashed
  /\ tr' = [tr EXCEPT ![t].at = "guest"]
  /\ UNCHANGED <<proc, maps, slots, reqs, openFds, conns, inbox, crashed>>

--------------------------------------------------------------------------------
(* The wait for the helper *)

Goes(t, at, ws) ==
  /\ tr' = [tr EXCEPT ![t].at = at, ![t].ws = ws]
  /\ UNCHANGED <<proc, maps, slots, reqs, openFds, conns, inbox, crashed>>

\* SYSCALL_ENTER_START of the ppoll() of a waiter, or SYSCALL_CHAINED_ENTER if it was woken.
EnterPpoll(t) ==
  /\ tr[t].at = "enter" /\ ~crashed
  /\ Goes(t, "ppoll", IF tr[t].ws = "RESTARTED_INTO_PPOLL" THEN "ENTERED_PPOLL"
                      ELSE "SIGNALED_PPOLL")

\* The waker's SIGSTOP, or the bad timeout of a waiter woken on its way in, ends ppoll().
PpollEnds(t) ==
  /\ tr[t].at = "ppoll" /\ tr[t].ws = "SIGNALED_PPOLL" /\ ~crashed
  /\ Goes(t, "ppoll_ret", tr[t].ws)

\* Another signal ends it.
Signal(t) ==
  /\ tr[t].at = "ppoll" /\ tr[t].ws = "ENTERED_PPOLL" /\ "signal" \in Faults /\ ~crashed
  /\ Goes(t, "ppoll_ret", tr[t].ws)

\* Exit of ppoll(): SYSCALL_CHAINED_EXIT of a woken waiter starts its chain,
\* SYSCALL_EXIT_START of another fails with EINTR and leaves its mapping pending.
AfterPpoll(t) ==
  /\ tr[t].at = "ppoll_ret" /\ ~crashed
  /\ \/ tr[t].ws = "SIGNALED_PPOLL" /\ Goes(t, "socket", "NOT_WAITING")
     \/ /\ tr[t].ws = "ENTERED_PPOLL"
        /\ tr' = [tr EXCEPT ![t] = Idle]
        /\ UNCHANGED <<proc, maps, slots, reqs, openFds, conns, inbox, crashed>>

--------------------------------------------------------------------------------
(* Processes and the helper *)

\* sysvipc_shm_inherit_process: a new process has the mappings of its parent.
Inherits(p) == maps[p]

\* INHERIT_CHILD: a thread of the process of t, or a new process.
ShmClone(t, c, thread) ==
  /\ Guest(t) /\ tr[c].at = "unborn" /\ (thread => Threads)
  /\ thread \/ \A i \in 1 .. MaxSlots : \A k \in Kinds : 2 * maps[proc[t]][i][k] <= MaxMaps
  /\ tr' = [tr EXCEPT ![c] = Idle]
  /\ proc' = [proc EXCEPT ![c] = IF thread THEN proc[t] ELSE c]
  /\ maps' = IF thread THEN maps ELSE [maps EXCEPT ![c] = Inherits(proc[t])]
  /\ UNCHANGED <<slots, reqs, openFds, conns, inbox, crashed>>

\* SYSCALL_ENTER_END of execve: the mappings are removed before the kernel runs
\* it; if it succeeds, the other threads of the process are dead.
ShmExec(t) ==
  /\ Guest(t) /\ maps[proc[t]] # NoMaps
  /\ Unmap([maps EXCEPT ![proc[t]] = NoMaps])
  /\ \/ UNCHANGED tr
     \/ tr' = [u \in Tracees |-> IF u \in Sharing(t) \ {t} THEN [tr[u] EXCEPT !.at = "dead"]
                                 ELSE tr[u]]
  /\ UNCHANGED <<proc, openFds, conns, inbox, crashed>>

\* SIGKILL: the tracee stays in the tracees list until PRoot sees its exit.
Kill(t) ==
  /\ "kill" \in Faults /\ IsAlive(t) /\ t # Root /\ ~crashed
  /\ tr' = [tr EXCEPT ![t].at = "dead"]
  /\ UNCHANGED <<proc, maps, slots, reqs, openFds, conns, inbox, crashed>>

\* PRoot frees the tracee, and with the last of them its process.
Reap(t) ==
  /\ tr[t].at = "dead" /\ ~crashed
  /\ tr' = [tr EXCEPT ![t] = [Idle EXCEPT !.at = "gone"]]
  /\ Unmap(IF Sharing(t) = {t} THEN [maps EXCEPT ![proc[t]] = NoMaps] ELSE maps)
  /\ inbox' = [inbox EXCEPT ![t] = Nothing]
  /\ UNCHANGED <<proc, openFds, conns, crashed>>

\* sysvipc_shm_helper_main: SHMHELPER_FREE.
HelperFree ==
  /\ reqs # <<>> /\ Head(reqs).op = "free" /\ ~crashed
  /\ openFds' = openFds \ {Head(reqs).fd}
  /\ reqs' = Tail(reqs)
  /\ UNCHANGED <<tr, proc, maps, slots, conns, inbox, crashed>>

\* SHMHELPER_DISTRIBUTE: the oldest connection gets the descriptor, or nothing
\* when sendmsg() fails; the peer may be gone.
HelperDistribute ==
  LET c == Head(conns)
      got == IF Head(reqs).fd \in openFds THEN Head(reqs).fd ELSE Eof
  IN /\ reqs # <<>> /\ Head(reqs).op = "distribute" /\ conns # <<>> /\ ~crashed
     /\ inbox' = [t \in Tracees |-> IF t = c /\ IsAlive(t) THEN got ELSE inbox[t]]
     /\ conns' = Tail(conns)
     /\ reqs'  = Tail(reqs)
     /\ UNCHANGED <<tr, proc, maps, slots, openFds, crashed>>

--------------------------------------------------------------------------------
(* The specification *)

\* The steps of PRoot and of the kernel that finish a call already made.
Progress(t) ==
  \/ AfterSocket(t) \/ Connect(t) \/ ConnectRefused(t) \/ AfterConnect(t)
  \/ AfterRecvmsg(t) \/ AfterMmap(t) \/ AfterClose(t)
  \/ EnterPpoll(t) \/ PpollEnds(t) \/ AfterPpoll(t) \/ Reap(t)

Helper == HelperFree \/ HelperDistribute

ShmNext ==
  \/ Helper
  \/ \E t \in Tracees :
       \/ Progress(t)
       \/ \E key \in Keys : Shmget(t, key)
       \/ \E i \in 1 .. MaxSlots : \/ Rmid(t, i)
                                   \/ \E kind \in Kinds : Shmdt(t, i, kind)
                                   \/ \E path \in EntryPaths : Shmat(t, path, i)
       \/ \E c \in Tracees, thread \in BOOLEAN : ShmClone(t, c, thread)
       \/ ShmExec(t) \/ Signal(t) \/ Kill(t)

\* Stops are handled and the helper runs; guests need not do anything.
ShmFairness == WF_shmVars(Helper) /\ \A t \in Tracees : WF_shmVars(Progress(t))

ShmSpec == ShmInit /\ [][ShmNext]_shmVars /\ ShmFairness

--------------------------------------------------------------------------------
(* Properties *)

(***************************************************************************)
(* A segment lives as long as somebody needs it: from the shmat that named *)
(* it (sysvipc_shmat looks it up once, sysvipc_shmat_chain uses the index  *)
(* four stops later), the slot holds the same segment, even if it is       *)
(* removed in between by another process, or reused.                       *)
(***************************************************************************)
SegmentStays ==
  \A t \in Tracees :
    InShmat(t) /\ tr[t].slot # 0 => /\ slots[tr[t].slot].valid
                                    /\ slots[tr[t].slot].gen = tr[t].gen
                                    /\ ~NoPending(t)

(***************************************************************************)
(* No removal is lost and none is early: rmid_pending is only set while a  *)
(* mapping is left to complete it (sysvipc_shm_memmap_destructor), and no  *)
(* mapping of any process names a slot without a segment.                  *)
(***************************************************************************)
RemovalsComplete ==
  \A i \in DOMAIN slots : /\ slots[i].rmid => Mapped(maps, i)
                          /\ Mapped(maps, i) => slots[i].valid

\* The descriptors that the first n requests of the pipe free.
Freed(n) == {reqs[m].fd : m \in {k \in 1 .. n : reqs[k].op = "free"}}

(***************************************************************************)
(* The helper and PRoot agree on the descriptors although PRoot never waits*)
(* for SHMHELPER_FREE and SHMHELPER_DISTRIBUTE: those the helper will have *)
(* open after the requests in the pipe are those of the segments, each its *)
(* own, and a request finds the descriptor it names still open.            *)
(***************************************************************************)
HelperInStep ==
  LET live == {i \in DOMAIN slots : slots[i].valid}
  IN /\ openFds \ Freed(Len(reqs)) = {slots[i].fd : i \in live}
     /\ \A i, j \in live : slots[i].fd = slots[j].fd => i = j
     /\ \A n \in DOMAIN reqs : reqs[n].fd \in openFds \ Freed(n - 1)

\* What PRoot knows of the segments is true: of those that calls under way name, of
\* the mappings that keep them, and of the helper's descriptors (sysvipc_shm.c).
SegmentsKept == SegmentStays /\ RemovalsComplete /\ HelperInStep

\* Somebody calls shmat.
Attaching == \E u \in Tracees : tr[u].at = "guest" /\ tr'[u].at \in CallStages

(***************************************************************************)
(* Every shmat ends however calls of the chains fail: the waiters are woken*)
(* one after the other (sysvipc_shm_wake_pending_shmat), the last of them  *)
(* once no new shmat overtakes it.  Unless a tracee was killed: nobody     *)
(* wakes those that waited for it.                                         *)
(***************************************************************************)
ShmatReturns ==
  <>[][~Attaching]_shmVars =>
    \A t \in Tracees :
      InShmat(t) ~> (~InShmat(t) \/ \E u \in Tracees : tr[u].at \in {"dead", "gone"})

(***************************************************************************)
(* A shmat maps the segment it asked for.  Only one tracee at a time should*)
(* talk to the helper, which hands the descriptors out in the order of the *)
(* connections (sysvipc_shmat: "Check if any tracee is running concurrent  *)
(* shmat and wait if so").                                                 *)
(***************************************************************************)
AttachesAsked ==
  \A t \in Tracees : tr[t].at = "mmap" => tr[t].fd = slots[tr[t].slot].fd

(***************************************************************************)
(* The asserts of the chain hold: assert(shm->valid) and                   *)
(* assert(!"No pending mapping found").                                    *)
(***************************************************************************)
ChainAsserts == ~crashed
================================================================================

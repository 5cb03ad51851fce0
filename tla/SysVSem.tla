-------------------------------- MODULE SysVSem --------------------------------
(***************************************************************************)
(* The emulated System V semaphores of PRoot (sysvipc_sem.c) on top of the *)
(* wait mechanism: semget, semop, semtimedop and semctl, with operations   *)
(* that block, wake-ups in the order of the tracees list, removal of a set *)
(* under its waiters, signals, timeouts and killed tracees.                *)
(*                                                                         *)
(* semop is one handler but takes several steps: Semop, one ScanNext per   *)
(* waiter its loop finds on the set, and ScanEnd.  Nothing happens in      *)
(* between: no other handler runs, and what the kernel and the tracees do  *)
(* meanwhile changes only at, which the loop does not read.  The loop      *)
(* follows the tracees list, that is the order the tracees were created    *)
(* in; the model takes any order.                                          *)
(***************************************************************************)
EXTENDS SysVIpcWait, Integers, Sequences, FiniteSets

CONSTANTS
  Keys,         \* the keys guests use; Private \in Keys is IPC_PRIVATE
  Private,
  Sizes,        \* the values of nsems guests ask for
  OpSeqs,       \* the sequences of [num, op, nowait] guests pass to semop
  MaxSems,      \* SYSVIPC_MAX_SEMS
  MaxSemval,    \* SYSVIPC_MAX_SEMVAL
  MaxGen,       \* bound on the generation of a slot
  NoTracee

ASSUME SemAssumption ==
  /\ NoTracee \notin Tracees
  /\ "semop" \in Reasons
  /\ {"ok", "error", "EIDRM", "wait"} \subseteq Results
  /\ Sizes \subseteq Nat \ {0}
  /\ \A ops \in OpSeqs : /\ ops \in Seq([num : Nat, op : Int, nowait : BOOLEAN])
                         /\ ops # <<>>
  /\ MaxSems \in Nat /\ MaxSemval \in Nat /\ MaxGen \in Nat

VARIABLES
  sems,    \* ipc_namespace->semaphores: [key, gen, valid, vals], vals[0 .. nsems - 1]
  target,  \* config->waiting_object_index
  sops,    \* config->semop_sops, <<>> when NULL
  scan     \* the semop handler that is running: see NoScan

semVars == <<sems, target, sops, scan>>
vars    == <<waitVars, semVars>>

\* No handler is running.  Otherwise caller's semop on set came by path, has
\* status result ("wait" for 1) and has the waiters of todo left to look at.
NoScan == [caller |-> NoTracee, path |-> "none", set |-> 0, result |-> "none", todo |-> {}]

Idle  == scan = NoScan
Slots == DOMAIN sems

SemTypeOK ==
  /\ WaitTypeOK
  /\ DOMAIN sems = 1 .. Len(sems)
  /\ \A i \in Slots :
       /\ sems[i].key \in Keys /\ sems[i].gen \in Nat /\ sems[i].valid \in BOOLEAN
       /\ \E n \in Sizes \cup {0} : sems[i].vals \in [0 .. n - 1 -> Int]
  /\ target \in [Tracees -> Nat]
  /\ sops \in [Tracees -> OpSeqs \cup {<<>>}]
  /\ scan \in [caller : Tracees \cup {NoTracee}, path : EntryPaths \cup {"none"},
               set : Nat, result : Results, todo : SUBSET Tracees]

SemInit ==
  /\ WaitInit
  /\ sems   = <<>>
  /\ target = [t \in Tracees |-> 1]   \* zeroed: the first slot
  /\ sops   = [t \in Tracees |-> <<>>]
  /\ scan   = NoScan

--------------------------------------------------------------------------------
(* semget *)

\* Mutant of Zeroes: one semaphore too many.
MutZeroes(n) == [k \in 0 .. n |-> 0]

\* The values of a new set of n semaphores.
Zeroes(n) == [k \in 0 .. n - 1 |-> 0]

\* sysvipc_semget on key for n semaphores with IPC_CREAT and IPC_EXCL.
Semget(t, path, key, n, creat, excl) ==
  LET found  == {i \in Slots : sems[i].valid /\ key # Private /\ sems[i].key = key}
      unused == {i \in Slots : ~sems[i].valid}
      fresh(gen) == [key |-> key, gen |-> gen, valid |-> TRUE, vals |-> Zeroes(n)]
  IN /\ \/ /\ found # {}
           /\ \A i \in found : Returns(t, path,
                IF (creat /\ excl) \/ Cardinality(DOMAIN sems[i].vals) < n
                THEN "error" ELSE "ok")
           /\ UNCHANGED sems
        \/ /\ found = {} /\ (~creat \/ (unused = {} /\ Len(sems) >= MaxSems))
           /\ Returns(t, path, "error")
           /\ UNCHANGED sems
        \/ /\ found = {} /\ creat
           /\ \E i \in unused : /\ \A j \in unused : i <= j
                                /\ sems' = [sems EXCEPT ![i] = fresh(sems[i].gen)]
           /\ Returns(t, path, "ok")
        \/ /\ found = {} /\ creat /\ unused = {} /\ Len(sems) < MaxSems
           /\ sems' = Append(sems, fresh(0))
           /\ Returns(t, path, "ok")
     /\ UNCHANGED <<target, sops, scan>>

--------------------------------------------------------------------------------
(* semop and semtimedop *)

\* One operation.
Operated(vals, op) == [vals EXCEPT ![op.num] = @ + op.op]

\* The values of the semaphores after the first i operations of ops.
After(ops, vals) ==
  LET after[i \in 0 .. Len(ops)] == IF i = 0 THEN vals ELSE Operated(after[i - 1], ops[i])
  IN after

\* Mutant of Stops: the ERANGE test is dropped.
MutStops(ops, after, i) ==
  IF ops[i].op = 0 THEN after[i - 1][ops[i].num] # 0 ELSE after[i][ops[i].num] < 0

\* Operation i cannot be performed after those before it.
Stops(ops, after, i) ==
  IF ops[i].op = 0 THEN after[i - 1][ops[i].num] # 0
                   ELSE after[i][ops[i].num] \notin 0 .. MaxSemval

\* Mutant of Commit: the operations before the one that stops are kept.
MutCommit(vals, after, last, stopped) ==
  [k \in DOMAIN vals |-> after[IF stopped = {} THEN last ELSE 1][k]]

\* The values sem_check leaves: it copies new_sems back when nothing stopped it.
Commit(vals, after, last, stopped) ==
  [k \in DOMAIN vals |-> IF stopped = {} THEN after[last][k] ELSE vals[k]]

(***************************************************************************)
(* sysvipc_sem_check: the status of ops on vals, "wait" when the tracee    *)
(* should still wait, and the values they leave.                           *)
(***************************************************************************)
SemCheck(ops, vals) ==
  LET after   == After(ops, vals)
      stopped == {i \in 1 .. Len(ops) : Stops(ops, after, i)}
      first   == CHOOSE i \in stopped : \A j \in stopped : i <= j
  IN [status |-> IF stopped = {} THEN "ok"
                 ELSE IF \/ ops[first].nowait                                    \* EAGAIN
                         \/ ops[first].op # 0 /\ after[first][ops[first].num] > 0  \* ERANGE
                 THEN "error" ELSE "wait",
      vals   |-> Commit(vals, after, Len(ops), stopped)]

\* Mutant of WaitersOf: slots are mixed up by an off-by-one.
MutWaitersOf(i) == {u \in Waiters : reason[u] = "semop" /\ target[u] = i + 1}

\* The waiters of slot i.
WaitersOf(i) == {u \in Waiters : reason[u] = "semop" /\ target[u] = i}

\* sysvipc_semop on slot i up to its loop over the waiters.
Semop(t, path, i, ops) ==
  LET check == SemCheck(ops, sems[i].vals)
  IN /\ at[t] = "guest"
     /\ sems[i].valid
     /\ \A k \in DOMAIN ops : ops[k].num \in DOMAIN sems[i].vals
     /\ sems'   = [sems EXCEPT ![i].vals = check.vals]
     /\ target' = [target EXCEPT ![t] = i]
     /\ sops'   = [sops EXCEPT ![t] = ops]
     /\ scan'   = [caller |-> t, path |-> path, set |-> i,
                   result |-> check.status, todo |-> WaitersOf(i)]
     /\ UNCHANGED waitVars

\* One iteration of that loop: waiter u completes, fails or waits on.
ScanNext(u) ==
  LET check == SemCheck(sops[u], sems[scan.set].vals)
  IN /\ u \in scan.todo
     /\ scan' = [scan EXCEPT !.todo = @ \ {u}]
     /\ IF check.status = "wait"
        THEN UNCHANGED <<sems, sops, waitVars>>
        ELSE /\ sems' = [sems EXCEPT ![scan.set].vals = check.vals]
             /\ sops' = [sops EXCEPT ![u] = <<>>]
             /\ WakeTracee(u, check.status)
             /\ UNCHANGED <<at, retry>>
     /\ UNCHANGED target

\* The end of sysvipc_semop and of sysvipc_syscall_common.
ScanEnd ==
  LET t == scan.caller
  IN /\ ~Idle /\ scan.todo = {}
     /\ IF scan.result = "wait"
        THEN Blocks(t, scan.path, "semop") /\ UNCHANGED sops
        ELSE Returns(t, scan.path, scan.result) /\ sops' = [sops EXCEPT ![t] = <<>>]
     /\ scan' = NoScan
     /\ UNCHANGED <<sems, target>>

--------------------------------------------------------------------------------
(* semctl, and the calls that change nothing *)

\* semctl(SETVAL): sets a value, and wakes nobody.
SemctlSetval(t, path, i, k, v) ==
  /\ sems[i].valid /\ k \in DOMAIN sems[i].vals
  /\ sems' = [sems EXCEPT ![i].vals[k] = v]
  /\ Returns(t, path, "ok")
  /\ UNCHANGED <<target, sops, scan>>

\* semctl(IPC_RMID): wakes every waiter of the set and frees the slot.
SemctlRmid(t, path, i) ==
  /\ sems[i].valid
  /\ sems[i].gen < MaxGen
  /\ sems' = [sems EXCEPT ![i] = [key |-> sems[i].key, gen |-> sems[i].gen + 1,
                                  valid |-> FALSE, vals |-> [k \in {} |-> 0]]]
  /\ SyscallCommon(t, path, "none", "ok",
                   WaitersOf(i), "EIDRM", FALSE)
  /\ UNCHANGED <<target, sops, scan>>

\* GETVAL, GETALL, IPC_INFO, SEM_INFO, an id that LOOKUP_IPC_OBJECT rejects,
\* or arguments that are rejected.
SemCallChangesNothing(t, path) ==
  /\ \E r \in {"ok", "error"} : Returns(t, path, r)
  /\ UNCHANGED semVars

--------------------------------------------------------------------------------
(* The other events *)

\* The end of a ppoll() that nobody woke runs sysvipc_semop_timedout.
SemopTimedout(t) ==
  /\ Interrupted(t)
  /\ sops' = [sops EXCEPT ![t] = <<>>]
  /\ UNCHANGED <<sems, target, scan>>

SemReap(t) ==
  /\ Reap(t)
  /\ sops'   = [sops EXCEPT ![t] = <<>>]
  /\ target' = [target EXCEPT ![t] = 1]
  /\ UNCHANGED <<sems, scan>>

\* The handlers PRoot runs, one at a time.
SemHandler(t) ==
  \/ \E path \in EntryPaths :
       \/ \E key \in Keys, n \in Sizes, creat, excl \in BOOLEAN :
            Semget(t, path, key, n, creat, excl)
       \/ \E i \in Slots : \/ \E ops \in OpSeqs : Semop(t, path, i, ops)
                           \/ \E k \in DOMAIN sems[i].vals, v \in 0 .. MaxSemval :
                                SemctlSetval(t, path, i, k, v)
                           \/ SemctlRmid(t, path, i)
       \/ SemCallChangesNothing(t, path)
  \/ EnterPpoll(t) /\ UNCHANGED semVars
  \/ Resume(t, status[t]) /\ UNCHANGED semVars
  \/ SemopTimedout(t)
  \/ SemReap(t)

\* What the kernel and the tracees do between two handlers.
SemTracee(t) ==
  /\ \/ SigstopInterrupts(t)
     \/ SignalInterrupts(t)
     \/ Kill(t)
  /\ UNCHANGED semVars

SemNext ==
  \/ Idle /\ \E t \in Tracees : SemHandler(t) \/ SemTracee(t)
  \/ \E u \in Tracees : ScanNext(u)
  \/ ScanEnd

SemSpec == SemInit /\ [][SemNext]_vars

--------------------------------------------------------------------------------
(* Properties *)

\* The operations of a waiter, and of the handler that runs, name semaphores
\* of slot i that exist.
OpsFit(t, i) ==
  /\ i \in Slots /\ sems[i].valid
  /\ sops[t] # <<>>
  /\ \A k \in DOMAIN sops[t] : sops[t][k].num \in DOMAIN sems[i].vals

(***************************************************************************)
(* A waiter's slot is still the set it called semop on: sysvipc_sem_check  *)
(* reads sems[sem_num] of a waiter without looking at valid or nsems, so   *)
(* a waiter that outlives its set would read past a smaller set that has   *)
(* taken the slot.                                                         *)
(***************************************************************************)
WaiterSetLive ==
  /\ \A t \in Tracees : reason[t] = "semop" => OpsFit(t, target[t])
  /\ ~Idle => /\ scan.set \in Slots /\ sems[scan.set].valid
              /\ target[scan.caller] = scan.set
              /\ OpsFit(scan.caller, scan.set)
              /\ scan.todo \subseteq WaitersOf(scan.set) \ {scan.caller}

(***************************************************************************)
(* No sequence of semop and SETVAL, with the waiters it completes, takes a *)
(* semaphore out of 0 .. SYSVIPC_MAX_SEMVAL (they are kept in 16 bits).    *)
(***************************************************************************)
ValuesInRange ==
  \A i \in Slots : \A k \in DOMAIN sems[i].vals : sems[i].vals[k] \in 0 .. MaxSemval

(***************************************************************************)
(* sysvipc_sem.c implements the semaphore service: every step of PRoot, of *)
(* the kernel and of the tracees is a step of SemService or none.          *)
(***************************************************************************)
CallOf(t) ==
  IF at[t] = "gone" THEN [phase |-> "gone", set |-> 0, ops |-> <<>>, result |-> "none"]
  ELSE IF t = scan.caller /\ scan.result # "wait"
  THEN [phase |-> "done", set |-> 0, ops |-> <<>>, result |-> scan.result]
  ELSE IF t = scan.caller \/ reason[t] = "semop"
  THEN [phase |-> "blocked", set |-> target[t], ops |-> sops[t], result |-> "none"]
  ELSE IF wstate[t] = "NOT_WAITING"
  THEN [phase |-> "idle", set |-> 0, ops |-> <<>>, result |-> status[t]]
  ELSE [phase |-> "done", set |-> 0, ops |-> <<>>, result |-> status[t]]

Service == INSTANCE SemService WITH
  Callers <- Tracees,
  sets    <- [i \in Slots |-> sems[i].vals],
  call    <- [t \in Tracees |-> CallOf(t)]

ImplementsService == Service!Spec

(***************************************************************************)
(* "Returns 1 if tracee should still wait" (sysvipc_sem.c:77): between two *)
(* handlers, each tracee that waits is one sysvipc_sem_check would keep    *)
(* waiting.                                                                *)
(***************************************************************************)
WaitersStillWait ==
  Idle => \A t \in Tracees :
    reason[t] = "semop" => SemCheck(sops[t], sems[target[t]].vals).status = "wait"
================================================================================

----------------------------- MODULE SysVSemProofs -----------------------------
(***************************************************************************)
(* For every set of tracees, every list of operations and every bound:     *)
(* sysvipc_sem.c uses the wait mechanism as it must, no waiter outlives    *)
(* its semaphore set, no semaphore leaves its range, and the semaphore     *)
(* service is implemented: each step of the handlers, of the loop over the *)
(* waiters and of the wait mechanism is one step of SemService, or none.   *)
(***************************************************************************)
EXTENDS SysVSem, SysVIpcWaitProofs, WellFoundedInduction, SequenceTheorems

\* The array of sets is a sequence of slots.
SlotsOK ==
  /\ \E S : sems \in Seq(S)
  /\ \A i \in Slots : sems[i] = [key |-> sems[i].key, gen |-> sems[i].gen,
                                 valid |-> sems[i].valid, vals |-> sems[i].vals]

\* While a semop runs its caller is stopped at its call, and waits for nothing.
ScanOK ==
  ~Idle => /\ scan.caller \in Tracees /\ at[scan.caller] = "guest"
           /\ scan.path \in EntryPaths
           /\ scan.result \in {"ok", "error", "wait"}
           /\ scan = [caller |-> scan.caller, path |-> scan.path, set |-> scan.set,
                      result |-> scan.result, todo |-> scan.todo]

\* The inductive invariant.
SemInv ==
  /\ WaitInv
  /\ target \in [Tracees -> Nat]
  /\ sops \in [Tracees -> OpSeqs \cup {<<>>}]
  /\ SlotsOK
  /\ ScanOK
  /\ WaiterSetLive

\* sem_check answers with one of three results, and its values are those of
\* the same semaphores.
LEMMA SemCheckDomain ==
  ASSUME NEW ops, NEW vals
  PROVE  /\ SemCheck(ops, vals).status \in {"ok", "error", "wait"}
         /\ DOMAIN SemCheck(ops, vals).vals = DOMAIN vals
BY DEF SemCheck, Commit

\* A step of any semaphore call, or of the kernel meanwhile, is one of the
\* steps the wait mechanism allows.
LEMMA SemStepIsWaitStep ==
  ASSUME SemInv, [SemNext]_vars
  PROVE  [WaitNext]_waitVars
<1> USE SemAssumption, WaitAssumption
<1>1. CASE UNCHANGED vars
  BY <1>1 DEF vars
<1>2. ASSUME NEW t \in Tracees, NEW path \in EntryPaths, NEW r \in Results, Returns(t, path, r)
      PROVE  WaitNext
  BY <1>2 DEF Returns, WaitNext, AnyCall
<1>3. ASSUME NEW t \in Tracees, SemHandler(t)
      PROVE  [WaitNext]_waitVars
  <2>1. ASSUME NEW path \in EntryPaths, NEW key \in Keys, NEW n \in Sizes,
               NEW creat \in BOOLEAN, NEW excl \in BOOLEAN, Semget(t, path, key, n, creat, excl)
        PROVE  WaitNext
    BY <1>2, <2>1 DEF Semget
  <2>2. ASSUME NEW path \in EntryPaths, NEW i \in Slots, NEW ops \in OpSeqs, Semop(t, path, i, ops)
        PROVE  UNCHANGED waitVars
    BY <2>2 DEF Semop
  <2>3. ASSUME NEW path \in EntryPaths, NEW i \in Slots, NEW k, NEW v, SemctlSetval(t, path, i, k, v)
        PROVE  WaitNext
    BY <1>2, <2>3 DEF SemctlSetval
  <2>4. ASSUME NEW path \in EntryPaths, NEW i \in Slots, SemctlRmid(t, path, i)
        PROVE  WaitNext
    <3>1. WaitersOf(i) \in SUBSET Waiters
      BY DEF WaitersOf
    <3> QED
      BY <2>4, <3>1 DEF SemctlRmid, WaitNext, AnyCall
  <2>5. ASSUME NEW path \in EntryPaths, SemCallChangesNothing(t, path)
        PROVE  WaitNext
    BY <1>2, <2>5 DEF SemCallChangesNothing
  <2>6. CASE EnterPpoll(t) \/ SemopTimedout(t) \/ SemReap(t)
    BY <2>6 DEF WaitNext, SemopTimedout, SemReap
  <2>7. CASE Resume(t, status[t])
    <3>1. status[t] \in Results
      BY DEF SemInv, WaitInv, WaitTypeOK
    <3> QED
      BY <2>7, <3>1 DEF WaitNext
  <2> QED
    BY <1>3, <2>1, <2>2, <2>3, <2>4, <2>5, <2>6, <2>7 DEF SemHandler
<1>4. ASSUME NEW t \in Tracees, SemTracee(t)
      PROVE  WaitNext
  BY <1>4 DEF SemTracee, WaitNext
<1>5. ASSUME NEW u \in Tracees, ScanNext(u)
      PROVE  [WaitNext]_waitVars
  <2>1. ~Idle
    BY <1>5 DEF ScanNext, Idle, NoScan
  <2>2. u \in Waiters
    BY <1>5, <2>1 DEF ScanNext, SemInv, WaiterSetLive, WaitersOf
  <2> DEFINE s == SemCheck(sops[u], sems[scan.set].vals).status
  <2>3. s \in Results
    BY SemCheckDomain
  <2>4. CASE s = "wait"
    BY <1>5, <2>4 DEF ScanNext
  <2>5. CASE s # "wait"
    <3>1. WakeTracee(u, s) /\ UNCHANGED <<at, retry>>
      BY <1>5, <2>5 DEF ScanNext
    <3> QED
      BY <2>2, <2>3, <3>1 DEF WaitNext
  <2> QED
    BY <2>4, <2>5
<1>6. CASE ScanEnd
  <2>1. /\ scan.caller \in Tracees /\ scan.path \in EntryPaths
        /\ scan.result \in Results
    BY <1>6 DEF ScanEnd, SemInv, ScanOK
  <2>2. CASE scan.result = "wait"
    BY <1>6, <2>1, <2>2 DEF ScanEnd, Blocks, WaitNext, AnyCall
  <2>3. CASE scan.result # "wait"
    BY <1>2, <1>6, <2>1, <2>3 DEF ScanEnd
  <2> QED
    BY <2>2, <2>3
<1> QED
  BY <1>1, <1>3, <1>4, <1>5, <1>6 DEF SemNext

\* A slot with other values.
LEMMA SlotFields ==
  ASSUME SlotsOK, NEW i \in Slots, NEW v
  PROVE  [sems[i] EXCEPT !.vals = v] =
           [key |-> sems[i].key, gen |-> sems[i].gen, valid |-> sems[i].valid, vals |-> v]
<1>1. ASSUME NEW k, NEW g, NEW b, NEW w
      PROVE  [[key |-> k, gen |-> g, valid |-> b, vals |-> w] EXCEPT !.vals = v] =
               [key |-> k, gen |-> g, valid |-> b, vals |-> v]
  OBVIOUS
<1>2. sems[i] = [key |-> sems[i].key, gen |-> sems[i].gen,
                 valid |-> sems[i].valid, vals |-> sems[i].vals]
  BY DEF SlotsOK
<1> DEFINE s == sems[i]
<1>3. [s EXCEPT !.vals = v] = [[key |-> s.key, gen |-> s.gen, valid |-> s.valid, vals |-> s.vals]
                                 EXCEPT !.vals = v]
  BY <1>2, Zenon
<1>4. [[key |-> s.key, gen |-> s.gen, valid |-> s.valid, vals |-> s.vals] EXCEPT !.vals = v] =
        [key |-> s.key, gen |-> s.gen, valid |-> s.valid, vals |-> v]
  BY <1>1, Zenon
<1> QED
  BY <1>3, <1>4

\* Replacing slot i, or adding a slot, keeps the array of sets one.
LEMMA SlotReplaced ==
  ASSUME SlotsOK, NEW i \in Slots, NEW key, NEW gen, NEW valid, NEW vals,
         sems' = [sems EXCEPT ![i] = [key |-> key, gen |-> gen, valid |-> valid, vals |-> vals]]
  PROVE  SlotsOK' /\ Slots' = Slots
<1> DEFINE x == [key |-> key, gen |-> gen, valid |-> valid, vals |-> vals]
<1>1. PICK S : sems \in Seq(S)
  BY DEF SlotsOK
<1>2. sems' \in Seq(S \cup {x}) /\ Slots' = Slots
  BY <1>1 DEF Slots
<1>3. \A j \in Slots' : sems'[j] = IF j = i THEN x ELSE sems[j]
  BY <1>1, <1>2 DEF Slots
<1> QED
  BY <1>2, <1>3 DEF SlotsOK

LEMMA SlotAppended ==
  ASSUME SlotsOK, NEW key, NEW gen, NEW valid, NEW vals,
         sems' = Append(sems, [key |-> key, gen |-> gen, valid |-> valid, vals |-> vals])
  PROVE  /\ SlotsOK' /\ Slots \subseteq Slots'
         /\ \A i \in Slots : sems'[i] = sems[i]
<1> DEFINE x == [key |-> key, gen |-> gen, valid |-> valid, vals |-> vals]
<1>1. PICK S : sems \in Seq(S)
  BY DEF SlotsOK
<1>2. sems \in Seq(S \cup {x}) /\ sems' \in Seq(S \cup {x})
  BY <1>1
<1>3. Len(sems') = Len(sems) + 1 /\ Slots = 1 .. Len(sems) /\ Slots' = 1 .. Len(sems')
  BY <1>2 DEF Slots
<1>4. \A i \in Slots' : sems'[i] = IF i = Len(sems) + 1 THEN x ELSE sems[i]
  BY <1>2, <1>3
<1> QED
  BY <1>2, <1>3, <1>4 DEF SlotsOK

(***************************************************************************)
(* A waiter keeps its set when the step leaves the waiter alone and does   *)
(* not remove the set or change its size.                                  *)
(***************************************************************************)
LEMMA OpsStillFit ==
  ASSUME NEW t, NEW i, OpsFit(t, i), sops'[t] = sops[t], i \in Slots',
         sems'[i].valid, DOMAIN sems'[i].vals = DOMAIN sems[i].vals
  PROVE  OpsFit(t, i)'
BY DEF OpsFit

\* A call that is over, or any stop of a tracee, makes no new waiter.
LEMMA NoNewWaiter ==
  ASSUME WaitInv, NEW t \in Tracees,
         \/ \E path, r : Returns(t, path, r)
         \/ \E path, r, W, s, again : SyscallCommon(t, path, "none", r, W, s, again)
         \/ EnterPpoll(t) \/ SigstopInterrupts(t) \/ SignalInterrupts(t)
         \/ \E r : Resume(t, r)
         \/ Interrupted(t) \/ Kill(t) \/ Reap(t)
  PROVE  \A u \in Tracees : reason'[u] \in {reason[u], "none"}
BY DEF Returns, SyscallCommon, EnterPpoll, SigstopInterrupts, SignalInterrupts, Resume,
       Interrupted, Kill, Reap, WaitInv, WaitTypeOK

\* The part of the invariant about the waiters of semop, when no semop runs.
LEMMA IdleWaitersKeep ==
  ASSUME SemInv, Idle, UNCHANGED scan, target' = target, sops' = sops,
         \A u \in Tracees : reason'[u] \in {reason[u], "none"},
         \A u \in Tracees : reason'[u] = "semop" =>
           /\ target[u] \in Slots'
           /\ sems'[target[u]].valid
           /\ DOMAIN sems'[target[u]].vals = DOMAIN sems[target[u]].vals,
         SlotsOK', WaitInv'
  PROVE  SemInv'
<1>1. Idle'
  BY DEF Idle
<1>2. ASSUME NEW u \in Tracees, reason'[u] = "semop"
      PROVE  OpsFit(u, target[u])'
  <2>1. reason[u] = "semop" /\ OpsFit(u, target[u])
    BY <1>2 DEF SemInv, WaiterSetLive
  <2> QED
    BY <1>2, <2>1 DEF OpsFit
<1>3. WaiterSetLive'
  BY <1>1, <1>2 DEF WaiterSetLive, Idle, OpsFit
<1> QED
  BY <1>1, <1>3 DEF SemInv, ScanOK

LEMMA HandlerKeepsSemInv ==
  ASSUME SemInv, Idle, NEW t \in Tracees, SemHandler(t), WaitInv'
  PROVE  SemInv'
<1> USE SemAssumption
<1>1. \A u \in Tracees : reason[u] = "semop" => OpsFit(u, target[u])
  BY DEF SemInv, WaiterSetLive
<1>2. ASSUME NEW path \in EntryPaths, NEW key \in Keys, NEW n \in Sizes,
             NEW creat \in BOOLEAN, NEW excl \in BOOLEAN, Semget(t, path, key, n, creat, excl)
      PROVE  SemInv'
  <2>1. /\ UNCHANGED <<scan, target, sops>>
        /\ \A u \in Tracees : reason'[u] \in {reason[u], "none"}
    <3>1. \E p, r : Returns(t, p, r)
      BY <1>2 DEF Semget
    <3> QED
      BY <1>2, <3>1, NoNewWaiter DEF Semget, SemInv
  <2>2. CASE UNCHANGED sems
    BY <1>1, <2>1, <2>2, IdleWaitersKeep DEF OpsFit, SemInv, SlotsOK, Slots
  <2>3. ASSUME NEW i \in Slots, ~sems[i].valid, NEW gen,
               sems' = [sems EXCEPT ![i] = [key |-> key, gen |-> gen, valid |-> TRUE,
                                            vals |-> Zeroes(n)]]
        PROVE  SemInv'
    <3>1. SlotsOK' /\ Slots' = Slots
      BY <2>3, SlotReplaced DEF SemInv
    <3>2. \A j \in Slots : j # i => sems'[j] = sems[j]
      BY <2>3 DEF Slots
    <3> QED
      BY <1>1, <2>1, <2>3, <3>1, <3>2, IdleWaitersKeep DEF OpsFit
  <2>4. ASSUME NEW gen,
               sems' = Append(sems, [key |-> key, gen |-> gen, valid |-> TRUE, vals |-> Zeroes(n)])
        PROVE  SemInv'
    <3>1. SlotsOK' /\ Slots \subseteq Slots' /\ \A i \in Slots : sems'[i] = sems[i]
      BY <2>4, SlotAppended DEF SemInv
    <3> QED
      BY <1>1, <2>1, <3>1, IdleWaitersKeep DEF OpsFit
  <2> QED
    BY <1>2, <2>2, <2>3, <2>4 DEF Semget
<1>3. ASSUME NEW path \in EntryPaths, NEW i \in Slots, NEW ops \in OpSeqs, Semop(t, path, i, ops)
      PROVE  SemInv'
  <2> DEFINE check == SemCheck(ops, sems[i].vals)
  <2>1. /\ at[t] = "guest" /\ sems[i].valid /\ UNCHANGED waitVars
        /\ \A k \in DOMAIN ops : ops[k].num \in DOMAIN sems[i].vals
        /\ sems' = [sems EXCEPT ![i].vals = check.vals]
        /\ target' = [target EXCEPT ![t] = i] /\ sops' = [sops EXCEPT ![t] = ops]
        /\ scan' = [caller |-> t, path |-> path, set |-> i, result |-> check.status,
                    todo |-> WaitersOf(i)]
    BY <1>3 DEF Semop
  <2>2. sems' = [sems EXCEPT ![i] = [key |-> sems[i].key, gen |-> sems[i].gen,
                                     valid |-> sems[i].valid, vals |-> check.vals]]
    <3>1. sems' = [sems EXCEPT ![i] = [sems[i] EXCEPT !.vals = check.vals]]
      BY <2>1
    <3> QED
      BY <3>1, SlotFields DEF SemInv
  <2>3. SlotsOK' /\ Slots' = Slots
    BY <2>2, SlotReplaced DEF SemInv
  <2>4. /\ DOMAIN check.vals = DOMAIN sems[i].vals
        /\ check.status \in {"ok", "error", "wait"}
    BY SemCheckDomain
  <2>5. \A j \in Slots : /\ sems'[j].valid = sems[j].valid
                         /\ DOMAIN sems'[j].vals = DOMAIN sems[j].vals
    BY <2>2, <2>4 DEF Slots
  <2>6. target' \in [Tracees -> Nat] /\ sops' \in [Tracees -> OpSeqs \cup {<<>>}]
    <3>1. i \in Nat
      BY DEF SemInv, SlotsOK, Slots
    <3> QED
      BY <2>1, <3>1 DEF SemInv
  <2>7. ~Idle' /\ ScanOK'
    BY <2>1, <2>4 DEF ScanOK, Idle, NoScan, waitVars
  <2>8. reason[t] = "none"
    BY <2>1 DEF SemInv, WaitInv, WaitTypeOK, WaitConsistent
  <2>9. \A u \in Tracees : reason[u] = "semop" => OpsFit(u, target[u])'
    <3> SUFFICES ASSUME NEW u \in Tracees, reason[u] = "semop"
                 PROVE  OpsFit(u, target[u])'
      OBVIOUS
    <3>1. u # t /\ target'[u] = target[u] /\ sops'[u] = sops[u]
      BY <2>1, <2>8 DEF SemInv
    <3> QED
      BY <1>1, <2>3, <2>5, <3>1 DEF OpsFit
  <2>10. OpsFit(t, i)'
    BY <2>1, <2>3, <2>5 DEF OpsFit, SemInv
  <2>11. WaitersOf(i) \subseteq WaitersOf(i)' \ {t}
    BY <2>1, <2>8 DEF WaitersOf, Waiters, waitVars, SemInv
  <2>12. WaiterSetLive'
    BY <2>1, <2>3, <2>5, <2>9, <2>10, <2>11 DEF WaiterSetLive, waitVars, SemInv
  <2> QED
    BY <2>3, <2>6, <2>7, <2>12 DEF SemInv
<1>4. ASSUME NEW path \in EntryPaths, NEW i \in Slots, NEW k, NEW v, SemctlSetval(t, path, i, k, v)
      PROVE  SemInv'
  <2> DEFINE vals == [sems[i].vals EXCEPT ![k] = v]
  <2>1. sems' = [sems EXCEPT ![i] = [key |-> sems[i].key, gen |-> sems[i].gen,
                                     valid |-> sems[i].valid, vals |-> vals]]
    <3>1. sems' = [sems EXCEPT ![i] = [sems[i] EXCEPT !.vals = vals]]
      BY <1>4 DEF SemctlSetval
    <3> QED
      BY <3>1, SlotFields DEF SemInv
  <2>2. SlotsOK' /\ Slots' = Slots
    BY <2>1, SlotReplaced DEF SemInv
  <2>3. \A j \in Slots : /\ sems'[j].valid = sems[j].valid
                         /\ DOMAIN sems'[j].vals = DOMAIN sems[j].vals
    BY <2>1 DEF Slots
  <2>4. \A u \in Tracees : reason'[u] \in {reason[u], "none"}
    BY <1>4, NoNewWaiter DEF SemctlSetval, SemInv
  <2> QED
    BY <1>1, <1>4, <2>2, <2>3, <2>4, IdleWaitersKeep DEF SemctlSetval, OpsFit
<1>5. ASSUME NEW path \in EntryPaths, NEW i \in Slots, SemctlRmid(t, path, i)
      PROVE  SemInv'
  <2> DEFINE none == [k \in {} |-> 0]
  <2>1. sems' = [sems EXCEPT ![i] = [key |-> sems[i].key, gen |-> sems[i].gen + 1,
                                     valid |-> FALSE, vals |-> none]]
    BY <1>5 DEF SemctlRmid
  <2>2. SlotsOK' /\ Slots' = Slots
    BY <2>1, SlotReplaced DEF SemInv
  <2>3. \A j \in Slots : j # i => sems'[j] = sems[j]
    BY <2>1 DEF Slots
  <2>4. \A u \in Tracees : reason'[u] \in {reason[u], "none"}
    BY <1>5, NoNewWaiter DEF SemctlRmid, SemInv
  <2>5. \A u \in Tracees : reason'[u] = "semop" => target[u] # i
    BY <1>5, <2>4 DEF SemctlRmid, SyscallCommon, WaitersOf, Waiters
  <2> QED
    BY <1>1, <1>5, <2>2, <2>3, <2>4, <2>5, IdleWaitersKeep DEF SemctlRmid, OpsFit
<1>6. ASSUME UNCHANGED <<sems, target, sops, scan>>,
             \A u \in Tracees : reason'[u] \in {reason[u], "none"}
      PROVE  SemInv'
  BY <1>1, <1>6, IdleWaitersKeep DEF OpsFit, SemInv, SlotsOK, Slots
<1>7. ASSUME NEW path \in EntryPaths, SemCallChangesNothing(t, path)
      PROVE  SemInv'
  BY <1>6, <1>7, NoNewWaiter DEF SemCallChangesNothing, semVars, SemInv
<1>8. CASE EnterPpoll(t) /\ UNCHANGED semVars
  BY <1>6, <1>8, NoNewWaiter DEF semVars, SemInv
<1>9. CASE Resume(t, status[t]) /\ UNCHANGED semVars
  BY <1>6, <1>9, NoNewWaiter DEF semVars, SemInv
<1>10. CASE SemopTimedout(t) \/ SemReap(t)
  <2>1. reason'[t] = "none" /\ \A u \in Tracees : u # t => reason'[u] = reason[u]
    BY <1>10 DEF SemopTimedout, SemReap, Interrupted, Reap, SemInv, WaitInv, WaitTypeOK
  <2>2. /\ UNCHANGED <<sems, scan>>
        /\ target' \in [Tracees -> Nat] /\ sops' \in [Tracees -> OpSeqs \cup {<<>>}]
        /\ \A u \in Tracees : u # t => target'[u] = target[u] /\ sops'[u] = sops[u]
    BY <1>10 DEF SemopTimedout, SemReap, SemInv
  <2>3. WaiterSetLive'
    BY <1>1, <2>1, <2>2 DEF WaiterSetLive, OpsFit, Slots, Idle
  <2> QED
    BY <2>2, <2>3 DEF SemInv, SlotsOK, Slots, ScanOK, Idle
<1> QED
  BY <1>2, <1>3, <1>4, <1>5, <1>7, <1>8, <1>9, <1>10 DEF SemHandler

\* The handler that runs, with fewer waiters left to look at.
LEMMA ScanFields ==
  ASSUME ScanOK, ~Idle, NEW todo
  PROVE  [scan EXCEPT !.todo = todo] =
           [caller |-> scan.caller, path |-> scan.path, set |-> scan.set,
            result |-> scan.result, todo |-> todo]
<1> DEFINE s == scan
<1>1. s = [caller |-> s.caller, path |-> s.path, set |-> s.set, result |-> s.result, todo |-> s.todo]
  BY DEF ScanOK
<1>2. [s EXCEPT !.todo = todo] =
        [[caller |-> s.caller, path |-> s.path, set |-> s.set, result |-> s.result, todo |-> s.todo]
           EXCEPT !.todo = todo]
  BY <1>1, Zenon
<1>3. [[caller |-> s.caller, path |-> s.path, set |-> s.set, result |-> s.result, todo |-> s.todo]
         EXCEPT !.todo = todo] =
        [caller |-> s.caller, path |-> s.path, set |-> s.set, result |-> s.result, todo |-> todo]
  OBVIOUS
<1> QED
  BY <1>2, <1>3

(***************************************************************************)
(* One iteration of the loop of sysvipc_semop: completing a waiter frees   *)
(* its operations and leaves every other waiter its set.                   *)
(***************************************************************************)
LEMMA ScanNextKeepsSemInv ==
  ASSUME SemInv, NEW u \in Tracees, ScanNext(u), WaitInv'
  PROVE  SemInv'
<1> USE SemAssumption
<1> DEFINE i == scan.set
           check == SemCheck(sops[u], sems[i].vals)
<1>1. ~Idle
  BY DEF ScanNext, Idle, NoScan
<1>2. /\ u \in WaitersOf(i) /\ u # scan.caller
      /\ i \in Slots /\ scan.caller \in Tracees /\ reason[scan.caller] = "none"
  BY <1>1 DEF ScanNext, SemInv, WaiterSetLive, ScanOK, WaitInv, WaitTypeOK, WaitConsistent
<1>3. scan' = [caller |-> scan.caller, path |-> scan.path, set |-> i,
               result |-> scan.result, todo |-> scan.todo \ {u}]
  BY <1>1, ScanFields DEF ScanNext, SemInv
<1>4. /\ target' = target /\ at' = at
      /\ sops' \in [Tracees -> OpSeqs \cup {<<>>}]
      /\ \A w \in Tracees : w # u => reason'[w] = reason[w] /\ sops'[w] = sops[w]
      /\ \/ reason'[u] = reason[u] /\ sops'[u] = sops[u]
         \/ reason'[u] = "none"
  BY DEF ScanNext, WakeTracee, SemInv, WaitInv, WaitTypeOK, waitVars
<1>5. /\ SlotsOK' /\ Slots' = Slots
      /\ \A j \in Slots : /\ sems'[j].valid = sems[j].valid
                          /\ DOMAIN sems'[j].vals = DOMAIN sems[j].vals
  <2>1. CASE sems' = sems
    BY <2>1 DEF SemInv, SlotsOK, Slots
  <2>2. CASE sems' = [sems EXCEPT ![i].vals = check.vals]
    <3>1. sems' = [sems EXCEPT ![i] = [key |-> sems[i].key, gen |-> sems[i].gen,
                                       valid |-> sems[i].valid, vals |-> check.vals]]
      <4>1. sems' = [sems EXCEPT ![i] = [sems[i] EXCEPT !.vals = check.vals]]
        BY <2>2
      <4> QED
        BY <1>2, <4>1, SlotFields DEF SemInv
    <3>2. SlotsOK' /\ Slots' = Slots
      BY <1>2, <3>1, SlotReplaced DEF SemInv
    <3>3. DOMAIN check.vals = DOMAIN sems[i].vals
      BY SemCheckDomain
    <3> QED
      BY <3>1, <3>2, <3>3 DEF Slots
  <2> QED
    BY <2>1, <2>2 DEF ScanNext
<1>6. ASSUME NEW w \in Tracees, NEW j, w # u \/ reason'[u] = reason[u], OpsFit(w, j)
      PROVE  OpsFit(w, j)'
  BY <1>2, <1>4, <1>5, <1>6 DEF OpsFit, WaitersOf, Waiters
<1>7. \A w \in Tracees : reason'[w] = "semop" => OpsFit(w, target[w])'
  <2> SUFFICES ASSUME NEW w \in Tracees, reason'[w] = "semop"
               PROVE  OpsFit(w, target[w])'
    OBVIOUS
  <2>1. /\ w # u \/ reason'[u] = reason[u]
        /\ OpsFit(w, target[w])
    BY <1>4 DEF SemInv, WaiterSetLive
  <2> QED
    BY <1>4, <1>6, <2>1
<1>8. /\ OpsFit(scan.caller, i)'
      /\ scan'.todo \subseteq WaitersOf(i)' \ {scan.caller}
  <2>1. OpsFit(scan.caller, i) /\ scan.todo \subseteq WaitersOf(i) \ {scan.caller}
    BY <1>1 DEF SemInv, WaiterSetLive
  <2>2. scan'.todo \subseteq WaitersOf(i)' \ {scan.caller}
    BY <1>3, <1>4, <2>1 DEF WaitersOf, Waiters
  <2> QED
    BY <1>2, <1>3, <1>4, <1>5, <2>1, <2>2 DEF OpsFit
<1>9. WaiterSetLive'
  BY <1>1, <1>2, <1>3, <1>4, <1>5, <1>7, <1>8 DEF WaiterSetLive, SemInv
<1>10. ScanOK'
  BY <1>1, <1>3, <1>4 DEF ScanOK, SemInv
<1> QED
  BY <1>4, <1>5, <1>9, <1>10 DEF SemInv

(***************************************************************************)
(* The end of sysvipc_semop: the caller joins the waiters, with the set    *)
(* and the operations its handler recorded, or its operations are freed.   *)
(***************************************************************************)
LEMMA ScanEndKeepsSemInv ==
  ASSUME SemInv, ScanEnd, WaitInv'
  PROVE  SemInv'
<1> USE SemAssumption
<1> DEFINE t == scan.caller
<1>1. /\ ~Idle /\ t \in Tracees /\ target[t] = scan.set /\ OpsFit(t, scan.set)
      /\ \A w \in Tracees : reason[w] = "semop" => OpsFit(w, target[w])
  BY DEF ScanEnd, SemInv, WaiterSetLive, ScanOK
<1>2. Idle' /\ UNCHANGED <<sems, target>>
  BY DEF ScanEnd, Idle
<1>3. \A w \in Tracees : w # t => reason'[w] = reason[w] /\ sops'[w] = sops[w]
  BY DEF ScanEnd, Blocks, Returns, SyscallCommon, SemInv
<1>4. /\ \/ reason'[t] = "semop" /\ sops'[t] = sops[t]
         \/ reason'[t] = "none"
      /\ sops' \in [Tracees -> OpSeqs \cup {<<>>}]
  BY <1>1 DEF ScanEnd, Blocks, Returns, SyscallCommon, SemInv
<1>5. WaiterSetLive'
  BY <1>1, <1>2, <1>3, <1>4 DEF WaiterSetLive, OpsFit, Slots
<1> QED
  BY <1>2, <1>4, <1>5 DEF SemInv, SlotsOK, Slots, ScanOK

\* What the kernel and the tracees do between two handlers.
LEMMA TraceeKeepsSemInv ==
  ASSUME SemInv, Idle, NEW t \in Tracees, SemTracee(t), WaitInv'
  PROVE  SemInv'
<1>1. \A u \in Tracees : reason'[u] \in {reason[u], "none"}
  BY NoNewWaiter DEF SemTracee, SemInv
<1> QED
  BY <1>1, IdleWaitersKeep DEF SemTracee, semVars, SemInv, WaiterSetLive, OpsFit, SlotsOK, Slots

(***************************************************************************)
(* Every step of PRoot, of the kernel and of the tracees keeps it.         *)
(***************************************************************************)
LEMMA SemStepKeepsSemInv == SemInv /\ [SemNext]_vars => SemInv'
<1> SUFFICES ASSUME SemInv, [SemNext]_vars
             PROVE  SemInv'
  OBVIOUS
<1>1. WaitInv'
  BY SemStepIsWaitStep, WaitStepKeepsWaitInv DEF SemInv
<1>2. CASE UNCHANGED vars
  BY <1>1, <1>2 DEF vars, semVars, waitVars, SemInv, SlotsOK, Slots, ScanOK, Idle,
                    WaiterSetLive, OpsFit, WaitersOf, Waiters
<1> QED
  BY <1>1, <1>2, HandlerKeepsSemInv, TraceeKeepsSemInv, ScanNextKeepsSemInv, ScanEndKeepsSemInv
  DEF SemNext

\* Before any semaphore call it holds.
LEMMA SemInitInv == SemInit => SemInv
BY SemAssumption, WaitInitInv
DEF SemInit, WaitInit, SemInv, SlotsOK, Slots, ScanOK, Idle, WaiterSetLive

(***************************************************************************)
(* The asserts of the wait mechanism hold under semaphore calls, and       *)
(* sysvipc_sem_check never reads past the set of a waiter: a waiter is     *)
(* woken before its set is removed, and leaves its slot with its wait.     *)
(***************************************************************************)
THEOREM SemSafety == SemSpec => [](WaitConsistent /\ WaiterSetLive)
<1>1. SemInv => WaitConsistent /\ WaiterSetLive
  BY DEF SemInv, WaitInv
<1> QED
  BY <1>1, SemInitInv, SemStepKeepsSemInv, PTL DEF SemSpec

(***************************************************************************)
(* The semaphore calls implement the wait mechanism: every step of         *)
(* sysvipc_sem.c is one that SysVIpcWait allows, or leaves it alone.       *)
(***************************************************************************)
THEOREM SemImplementsWait == SemSpec => WaitSpec
<1>1. SemInit => WaitInit
  BY DEF SemInit
<1>2. SemInv /\ [SemNext]_vars => [WaitNext]_waitVars
  BY SemStepIsWaitStep
<1> QED
  BY <1>1, <1>2, SemInitInv, SemStepKeepsSemInv, PTL DEF SemSpec, WaitSpec

-------------------------------------------------------------------------------
(* The values *)

\* The least element of a set of numbers, to argue by the first one that fails.
LEMMA LeastNat ==
  ASSUME NEW S \in SUBSET Nat, NEW n \in S
  PROVE  \E x \in S : \A y \in S : x <= y
<1>1. PICK x \in S : \A y \in S : ~ (<<y, x>> \in OpToRel(<, Nat))
  BY NatLessThanWellFounded, WFMin
<1>2. OpToRel(<, Nat) = {ss \in Nat \X Nat : ss[1] < ss[2]}
  BY Zenon DEF OpToRel
<1>3. ASSUME NEW y \in S
      PROVE  x <= y
  <2>1. <<y, x>> \in Nat \X Nat
    OBVIOUS
  <2>2. ~ (y < x)
    BY <1>1, <1>2, <2>1
  <2> QED
    BY <2>2
<1> QED
  BY <1>3

\* What After computes, of n operations.
AfterRule(after, n, ops, vals) ==
  after = [i \in 0 .. n |-> IF i = 0 THEN vals ELSE Operated(after[i - 1], ops[i])]

LEMMA AfterExists ==
  ASSUME NEW n \in Nat, NEW ops, NEW vals
  PROVE  \E after : AfterRule(after, n, ops, vals)
<1> DEFINE S == {m \in Nat : ~ \E after : AfterRule(after, m, ops, vals)}
<1>1. ASSUME n \in S
      PROVE  FALSE
  <2>1. PICK x \in S : \A y \in S : x <= y
    BY <1>1, LeastNat
  <2>2. CASE x = 0
    <3>1. AfterRule([i \in 0 .. 0 |-> vals], x, ops, vals)
      BY <2>2 DEF AfterRule
    <3> QED
      BY <3>1
  <2>3. CASE x # 0
    <3>1. x - 1 \in Nat /\ x - 1 \notin S
      BY <2>1, <2>3
    <3>2. PICK before : AfterRule(before, x - 1, ops, vals)
      BY <3>1
    <3> DEFINE after == [i \in 0 .. x |-> IF i < x THEN before[i] ELSE Operated(before[x - 1], ops[x])]
    <3>3. ASSUME NEW i \in 0 .. x
          PROVE  after[i] = IF i = 0 THEN vals ELSE Operated(after[i - 1], ops[i])
      <4>1. CASE i < x
        <5>1. i \in 0 .. x - 1 /\ i - 1 < x /\ (i # 0 => i - 1 \in 0 .. x)
          BY <3>1, <4>1
        <5>2. before[i] = IF i = 0 THEN vals ELSE Operated(before[i - 1], ops[i])
          BY <3>2, <5>1 DEF AfterRule
        <5> QED
          BY <4>1, <5>1, <5>2
      <4>2. CASE i = x
        BY <2>3, <3>1, <4>2
      <4> QED
        BY <4>1, <4>2
    <3>4. AfterRule(after, x, ops, vals)
      BY <3>3 DEF AfterRule
    <3> QED
      BY <3>4
  <2> QED
    BY <2>2, <2>3
<1> QED
  BY <1>1

LEMMA AfterIs ==
  ASSUME NEW ops, NEW vals, Len(ops) \in Nat
  PROVE  \A i \in 0 .. Len(ops) :
           After(ops, vals)[i] = IF i = 0 THEN vals ELSE Operated(After(ops, vals)[i - 1], ops[i])
<1>1. AfterRule(After(ops, vals), Len(ops), ops, vals)
  <2>1. \E after : AfterRule(after, Len(ops), ops, vals)
    BY AfterExists
  <2> QED
    BY <2>1, Zenon DEF After, AfterRule
<1> QED
  BY <1>1 DEF AfterRule

\* Values the 16 bits of a semaphore can hold.
InRange(vals) == vals \in [DOMAIN vals -> 0 .. MaxSemval]

(***************************************************************************)
(* sem_check tests the value each operation leaves, in order; the first    *)
(* one out of range stops it.  So when nothing stops it, all are in range. *)
(***************************************************************************)
LEMMA SemCheckInRange ==
  ASSUME NEW ops \in OpSeqs, NEW vals, InRange(vals), \A k \in DOMAIN ops : ops[k].num \in DOMAIN vals
  PROVE  InRange(SemCheck(ops, vals).vals)
<1> DEFINE after == After(ops, vals)
           D == DOMAIN vals
           stopped == {i \in 1 .. Len(ops) : Stops(ops, after, i)}
<1>1. /\ Len(ops) \in Nat /\ DOMAIN ops = 1 .. Len(ops) /\ MaxSemval \in Nat
      /\ \A i \in 1 .. Len(ops) : ops[i].num \in D /\ ops[i].op \in Int
  <2> DEFINE Op == [num : Nat, op : Int, nowait : BOOLEAN]
  <2>1. ops \in Seq(Op) /\ MaxSemval \in Nat
    BY SemAssumption
  <2>2. \A e \in Op : e.op \in Int
    OBVIOUS
  <2> HIDE DEF Op
  <2>3. Len(ops) \in Nat /\ DOMAIN ops = 1 .. Len(ops) /\ \A i \in DOMAIN ops : ops[i] \in Op
    BY <2>1
  <2> QED
    BY <2>1, <2>2, <2>3
<1>2. after[0] = vals /\ \A i \in 1 .. Len(ops) : after[i] = Operated(after[i - 1], ops[i])
  BY <1>1, AfterIs
<1> HIDE DEF after
<1>3. ASSUME stopped = {}
      PROVE  \A i \in 0 .. Len(ops) : after[i] \in [D -> 0 .. MaxSemval]
  <2> DEFINE S == {i \in 0 .. Len(ops) : after[i] \notin [D -> 0 .. MaxSemval]}
  <2>1. ASSUME NEW n \in S
        PROVE  FALSE
    <3>1. PICK x \in S : \A y \in S : x <= y
      <4>1. S \in SUBSET Nat
        BY <1>1
      <4> HIDE DEF S
      <4> QED
        BY <2>1, <4>1, LeastNat
    <3>2. x # 0
      BY <1>2 DEF InRange
    <3>3. x \in 1 .. Len(ops) /\ x - 1 \in 0 .. Len(ops) /\ x - 1 \notin S
      BY <1>1, <3>1, <3>2
    <3>4. after[x - 1] \in [D -> 0 .. MaxSemval] /\ after[x] = Operated(after[x - 1], ops[x])
      BY <1>2, <3>3
    <3>5. ~ Stops(ops, after, x)
      BY <1>3, <3>3
    <3>6. after[x] = [after[x - 1] EXCEPT ![ops[x].num] = after[x - 1][ops[x].num] + ops[x].op]
      BY <3>4 DEF Operated
    <3>7. after[x][ops[x].num] \in 0 .. MaxSemval
      <4>1. ops[x].num \in D /\ ops[x].op \in Int /\ after[x - 1][ops[x].num] \in 0 .. MaxSemval
        BY <1>1, <3>3, <3>4
      <4>2. after[x][ops[x].num] = after[x - 1][ops[x].num] + ops[x].op
        BY <3>4, <3>6, <4>1
      <4>3. CASE ops[x].op = 0
        BY <4>1, <4>2, <4>3
      <4>4. CASE ops[x].op # 0
        BY <3>5, <4>4 DEF Stops
      <4> QED
        BY <4>3, <4>4
    <3>8. after[x] \in [D -> 0 .. MaxSemval]
      BY <1>1, <3>3, <3>4, <3>6, <3>7
    <3> QED
      BY <3>1, <3>8
  <2> QED
    BY <2>1
<1>4. SemCheck(ops, vals).vals = Commit(vals, after, Len(ops), stopped)
  BY DEF SemCheck, after
<1> HIDE DEF stopped
<1>5. CASE stopped = {}
  <2>1. after[Len(ops)] \in [D -> 0 .. MaxSemval]
    BY <1>1, <1>3, <1>5
  <2> QED
    BY <1>4, <1>5, <2>1 DEF Commit, InRange
<1>6. CASE stopped # {}
  BY <1>4, <1>6 DEF Commit, InRange
<1> QED
  BY <1>5, <1>6

RangeOK == \A i \in Slots : InRange(sems[i].vals)

LEMMA RangeAfter ==
  ASSUME SlotsOK, RangeOK, NEW i \in Slots, NEW v, InRange(v), sems' = [sems EXCEPT ![i].vals = v]
  PROVE  RangeOK'
<1>1. sems' = [sems EXCEPT ![i] = [key |-> sems[i].key, gen |-> sems[i].gen,
                                   valid |-> sems[i].valid, vals |-> v]]
  <2>1. sems' = [sems EXCEPT ![i] = [sems[i] EXCEPT !.vals = v]]
    OBVIOUS
  <2> QED
    BY <2>1, SlotFields
<1>2. Slots' = Slots
  BY <1>1 DEF Slots
<1>3. \A j \in Slots : sems'[j].vals = IF j = i THEN v ELSE sems[j].vals
  BY <1>1 DEF Slots
<1> QED
  BY <1>2, <1>3 DEF RangeOK

LEMMA RangeReplaced ==
  ASSUME SlotsOK, RangeOK, NEW i \in Slots, NEW key, NEW gen, NEW valid, NEW v, InRange(v),
         sems' = [sems EXCEPT ![i] = [key |-> key, gen |-> gen, valid |-> valid, vals |-> v]]
  PROVE  RangeOK'
<1>1. Slots' = Slots
  BY SlotReplaced
<1>2. \A j \in Slots : sems'[j].vals = IF j = i THEN v ELSE sems[j].vals
  BY DEF Slots
<1> QED
  BY <1>1, <1>2 DEF RangeOK

\* Every step of any semaphore call keeps the values in range.
LEMMA SemStepKeepsRange ==
  ASSUME SemInv, RangeOK, [SemNext]_vars
  PROVE  RangeOK'
<1>1. SlotsOK
  BY DEF SemInv
<1>2. ASSUME UNCHANGED sems
      PROVE  RangeOK'
  BY <1>2 DEF RangeOK, Slots
<1>3. ASSUME NEW n \in Sizes
      PROVE  InRange(Zeroes(n))
  BY SemAssumption DEF InRange, Zeroes
<1>4. ASSUME NEW t \in Tracees, SemHandler(t)
      PROVE  RangeOK'
  <2>1. ASSUME NEW path \in EntryPaths, NEW key \in Keys, NEW n \in Sizes,
               NEW creat \in BOOLEAN, NEW excl \in BOOLEAN, Semget(t, path, key, n, creat, excl)
        PROVE  RangeOK'
    <3>1. ASSUME NEW i \in Slots, NEW gen,
                 sems' = [sems EXCEPT ![i] = [key |-> key, gen |-> gen, valid |-> TRUE,
                                              vals |-> Zeroes(n)]]
          PROVE  RangeOK'
      BY <1>1, <1>3, <3>1, RangeReplaced
    <3>2. ASSUME NEW gen,
                 sems' = Append(sems, [key |-> key, gen |-> gen, valid |-> TRUE, vals |-> Zeroes(n)])
          PROVE  RangeOK'
      <4> DEFINE slot == [key |-> key, gen |-> gen, valid |-> TRUE, vals |-> Zeroes(n)]
      <4>1. slot.vals = Zeroes(n)
        OBVIOUS
      <4>2. PICK S : sems \in Seq(S)
        BY <1>1 DEF SlotsOK
      <4> HIDE DEF slot
      <4>3. sems \in Seq(S \cup {slot}) /\ sems' = Append(sems, slot)
        BY <3>2, <4>2 DEF slot
      <4>4. /\ Slots' = 1 .. Len(sems) + 1 /\ Slots = 1 .. Len(sems) /\ Len(sems) \in Nat
            /\ sems'[Len(sems) + 1] = slot /\ \A j \in Slots : sems'[j] = sems[j]
        BY <4>3 DEF Slots
      <4>5. ASSUME NEW j \in Slots'
            PROVE  InRange(sems'[j].vals)
        <5>1. j = Len(sems) + 1 \/ j \in Slots
          BY <4>4
        <5> QED
          BY <1>3, <4>1, <4>4, <5>1 DEF RangeOK
      <4> QED
        BY <4>5 DEF RangeOK
    <3> QED
      BY <1>2, <2>1, <3>1, <3>2 DEF Semget
  <2>2. ASSUME NEW path \in EntryPaths, NEW i \in Slots, NEW ops \in OpSeqs, Semop(t, path, i, ops)
        PROVE  RangeOK'
    <3>1. InRange(SemCheck(ops, sems[i].vals).vals)
      BY <2>2, SemCheckInRange DEF Semop, RangeOK
    <3>2. sems' = [sems EXCEPT ![i].vals = SemCheck(ops, sems[i].vals).vals]
      BY <2>2 DEF Semop
    <3> QED
      BY <1>1, <3>1, <3>2, RangeAfter
  <2>3. ASSUME NEW path \in EntryPaths, NEW i \in Slots, NEW k \in DOMAIN sems[i].vals,
               NEW v \in 0 .. MaxSemval, SemctlSetval(t, path, i, k, v)
        PROVE  RangeOK'
    <3> DEFINE vals == [sems[i].vals EXCEPT ![k] = v]
    <3>1. InRange(vals)
      BY DEF RangeOK, InRange
    <3>2. sems' = [sems EXCEPT ![i].vals = vals]
      BY <2>3 DEF SemctlSetval
    <3> HIDE DEF vals
    <3> QED
      BY <1>1, <3>1, <3>2, RangeAfter
  <2>4. ASSUME NEW path \in EntryPaths, NEW i \in Slots, SemctlRmid(t, path, i)
        PROVE  RangeOK'
    <3>1. InRange([k \in {} |-> 0])
      BY DEF InRange
    <3>2. sems' = [sems EXCEPT ![i] = [key |-> sems[i].key, gen |-> sems[i].gen + 1,
                                       valid |-> FALSE, vals |-> [k \in {} |-> 0]]]
      BY <2>4 DEF SemctlRmid
    <3> QED
      BY <1>1, <3>1, <3>2, RangeReplaced
  <2>5. \/ UNCHANGED sems
        \/ \E path \in EntryPaths :
             \/ \E key \in Keys, n \in Sizes, creat, excl \in BOOLEAN :
                  Semget(t, path, key, n, creat, excl)
             \/ \E i \in Slots : \/ \E ops \in OpSeqs : Semop(t, path, i, ops)
                                 \/ \E k \in DOMAIN sems[i].vals, v \in 0 .. MaxSemval :
                                      SemctlSetval(t, path, i, k, v)
                                 \/ SemctlRmid(t, path, i)
    BY <1>4 DEF SemHandler, SemCallChangesNothing, SemopTimedout, SemReap, semVars
  <2> QED
    BY <1>2, <2>1, <2>2, <2>3, <2>4, <2>5
<1>5. ASSUME NEW u \in Tracees, ScanNext(u)
      PROVE  RangeOK'
  <2> DEFINE i == scan.set
             check == SemCheck(sops[u], sems[i].vals)
  <2>1. ~ Idle
    BY <1>5 DEF ScanNext, Idle, NoScan
  <2>2. u \in Waiters /\ reason[u] = "semop" /\ target[u] = i /\ i \in Slots
    BY <1>5, <2>1 DEF ScanNext, SemInv, WaiterSetLive, WaitersOf
  <2>3. OpsFit(u, i)
    BY <2>2 DEF SemInv, WaiterSetLive
  <2>4. sops[u] \in OpSeqs
    BY <2>3 DEF OpsFit, SemInv
  <2>5. InRange(check.vals)
    BY <2>2, <2>3, <2>4, SemCheckInRange DEF OpsFit, RangeOK
  <2>6. UNCHANGED sems \/ sems' = [sems EXCEPT ![i].vals = check.vals]
    BY <1>5 DEF ScanNext
  <2> HIDE DEF check
  <2> QED
    BY <1>1, <1>2, <2>2, <2>5, <2>6, RangeAfter
<1>6. ASSUME \/ UNCHANGED vars
             \/ ScanEnd
             \/ \E t \in Tracees : SemTracee(t)
      PROVE  RangeOK'
  BY <1>2, <1>6 DEF vars, semVars, ScanEnd, SemTracee
<1> QED
  BY <1>4, <1>5, <1>6 DEF SemNext

(***************************************************************************)
(* "if (new_value > SYSVIPC_MAX_SEMVAL) return -ERANGE" of                 *)
(* sysvipc_sem_check (sysvipc_sem.c:110), with the test of SETVAL: for all *)
(* sets, lists of operations and tracees, and for the lists of waiters     *)
(* that one semop completes, no semaphore leaves 0 .. SYSVIPC_MAX_SEMVAL.  *)
(***************************************************************************)
THEOREM SemValues == SemSpec => []ValuesInRange
<1>1. SemInit => RangeOK
  BY DEF SemInit, RangeOK, Slots
<1>2. SemInv /\ RangeOK /\ [SemNext]_vars => RangeOK'
  BY SemStepKeepsRange
<1>3. RangeOK => ValuesInRange
  BY DEF RangeOK, InRange, ValuesInRange
<1> QED
  BY <1>1, <1>2, <1>3, SemInitInv, SemStepKeepsSemInv, PTL DEF SemSpec

--------------------------------------------------------------------------------
(* One call of sem_check *)

\* The values after the first operations, of sem_check and of the service.
LEMMA PartialIsAfter ==
  ASSUME NEW ops, NEW vals, Len(ops) \in Nat
  PROVE  \A i \in 0 .. Len(ops) : Service!Partial(ops, vals)[i] = After(ops, vals)[i]
<1> DEFINE p == Service!Partial(ops, vals)
           a == After(ops, vals)
<1>1. \A i \in 0 .. Len(ops) : p[i] = IF i = 0 THEN vals ELSE Operated(p[i - 1], ops[i])
  <2>1. \E after : AfterRule(after, Len(ops), ops, vals)
    BY AfterExists
  <2>2. AfterRule(p, Len(ops), ops, vals)
    BY <2>1, Zenon DEF Service!Partial, AfterRule, Operated
  <2> HIDE DEF p
  <2> QED
    BY <2>2 DEF AfterRule
<1>2. \A i \in 0 .. Len(ops) : a[i] = IF i = 0 THEN vals ELSE Operated(a[i - 1], ops[i])
  BY AfterIs
<1> HIDE DEF p, a
<1> DEFINE S == {i \in 0 .. Len(ops) : p[i] # a[i]}
<1>3. ASSUME NEW n \in S
      PROVE  FALSE
  <2>1. PICK x \in S : \A y \in S : x <= y
    <3>1. S \in SUBSET Nat
      OBVIOUS
    <3> HIDE DEF S
    <3> QED
      BY <1>3, <3>1, LeastNat
  <2>2. x # 0
    BY <1>1, <1>2
  <2>3. x - 1 \in 0 .. Len(ops) /\ x - 1 \notin S
    BY <2>1, <2>2
  <2> QED
    BY <1>1, <1>2, <2>1, <2>2, <2>3
<1>4. \A i \in 0 .. Len(ops) : p[i] = a[i]
  BY <1>3
<1> QED
  BY <1>4 DEF p, a

(***************************************************************************)
(* sem_check goes through its operations and stops at the first that       *)
(* cannot be performed; the service asks whether all of them can be.       *)
(***************************************************************************)
LEMMA SemCheckIsService ==
  ASSUME NEW ops \in OpSeqs, NEW vals, InRange(vals), \A k \in DOMAIN ops : ops[k].num \in DOMAIN vals
  PROVE  LET check == SemCheck(ops, vals)
         IN  /\ check.status = "ok" <=> Service!Possible(ops, vals)
             /\ check.status \in {"ok", "error", "wait"}
             /\ check.vals = IF check.status = "ok" THEN Service!Partial(ops, vals)[Len(ops)] ELSE vals
<1> DEFINE after == After(ops, vals)
           D == DOMAIN vals
           stopped == {i \in 1 .. Len(ops) : Stops(ops, after, i)}
           p == Service!Partial(ops, vals)
<1>1. /\ Len(ops) \in Nat /\ DOMAIN ops = 1 .. Len(ops) /\ MaxSemval \in Nat
      /\ \A i \in 1 .. Len(ops) : ops[i].num \in D /\ ops[i].op \in Int
  <2> DEFINE Op == [num : Nat, op : Int, nowait : BOOLEAN]
  <2>1. ops \in Seq(Op) /\ MaxSemval \in Nat
    BY SemAssumption
  <2>2. \A e \in Op : e.op \in Int
    OBVIOUS
  <2> HIDE DEF Op
  <2>3. Len(ops) \in Nat /\ DOMAIN ops = 1 .. Len(ops) /\ \A i \in DOMAIN ops : ops[i] \in Op
    BY <2>1
  <2> QED
    BY <2>1, <2>2, <2>3
<1>2. after[0] = vals /\ \A i \in 1 .. Len(ops) : after[i] = Operated(after[i - 1], ops[i])
  BY <1>1, AfterIs
<1>3. \A i \in 0 .. Len(ops) : p[i] = after[i]
  BY <1>1, PartialIsAfter
<1>4. \A i \in 0 .. Len(ops) : after[i] \in [D -> Int]
  <2> HIDE DEF after
  <2> DEFINE S == {i \in 0 .. Len(ops) : after[i] \notin [D -> Int]}
  <2>1. ASSUME NEW n \in S
        PROVE  FALSE
    <3>1. PICK x \in S : \A y \in S : x <= y
      <4>1. S \in SUBSET Nat
        BY <1>1
      <4> HIDE DEF S
      <4> QED
        BY <2>1, <4>1, LeastNat
    <3>2. x # 0
      <4>1. vals \in [D -> Int]
        BY <1>1 DEF InRange
      <4> QED
        BY <1>2, <4>1
    <3>3. x \in 1 .. Len(ops) /\ x - 1 \in 0 .. Len(ops) /\ x - 1 \notin S
      BY <1>1, <3>1, <3>2
    <3>4. after[x - 1] \in [D -> Int]
      BY <3>3
    <3>5. after[x] = [after[x - 1] EXCEPT ![ops[x].num] = after[x - 1][ops[x].num] + ops[x].op]
      BY <1>2, <3>3 DEF Operated
    <3>6. after[x] \in [D -> Int]
      BY <1>1, <3>3, <3>4, <3>5
    <3> QED
      BY <3>1, <3>6
  <2> QED
    BY <2>1
<1>5. ASSUME NEW i \in 1 .. Len(ops)
      PROVE  ~Stops(ops, after, i) <=> /\ p[i][ops[i].num] \in 0 .. MaxSemval
                                       /\ ops[i].op = 0 => p[i - 1][ops[i].num] = 0
  <2> HIDE DEF after, p
  <2>1. i - 1 \in 0 .. Len(ops) /\ i \in 0 .. Len(ops)
    BY <1>1
  <2>2. p[i] = after[i] /\ p[i - 1] = after[i - 1] /\ after[i - 1] \in [D -> Int]
    BY <1>3, <1>4, <2>1
  <2>3. after[i][ops[i].num] = after[i - 1][ops[i].num] + ops[i].op
    BY <1>1, <1>2, <2>2 DEF Operated
  <2>4. after[i - 1][ops[i].num] \in Int
    BY <1>1, <2>2
  <2>5. CASE ops[i].op = 0
    BY <1>1, <2>2, <2>3, <2>4, <2>5 DEF Stops
  <2>6. CASE ops[i].op # 0
    BY <2>2, <2>6 DEF Stops
  <2> QED
    BY <2>5, <2>6
<1>6. Service!Possible(ops, vals) <=> stopped = {}
  BY <1>5 DEF Service!Possible
<1>7. /\ SemCheck(ops, vals).vals = Commit(vals, after, Len(ops), stopped)
      /\ SemCheck(ops, vals).status \in {"ok", "error", "wait"}
      /\ SemCheck(ops, vals).status = "ok" <=> stopped = {}
  BY DEF SemCheck
<1>8. vals = [k \in D |-> vals[k]]
  BY DEF InRange
<1> HIDE DEF stopped, after, p
<1>9. CASE stopped = {}
  <2>1. after[Len(ops)] \in [D -> Int] /\ p[Len(ops)] = after[Len(ops)]
    BY <1>1, <1>3, <1>4
  <2>2. [k \in D |-> after[Len(ops)][k]] = after[Len(ops)]
    BY <2>1
  <2> QED
    BY <1>6, <1>7, <1>9, <2>1, <2>2 DEF Commit, p
<1>10. CASE stopped # {}
  BY <1>6, <1>7, <1>8, <1>10 DEF Commit, p
<1> QED
  BY <1>9, <1>10

--------------------------------------------------------------------------------
(* The invariant, and the calls of the service *)

\* A set in use has semaphores, and nobody waits for anything but semop.
SetsOK    == \A i \in Slots : IF sems[i].valid THEN DOMAIN sems[i].vals # {}
                              ELSE DOMAIN sems[i].vals = {}
ReasonsOK == \A t \in Tracees : reason[t] \in {"none", "semop"}

ServiceInv == SemInv /\ RangeOK /\ SetsOK /\ ReasonsOK

\* A tracee that runs guest code has no call, or one whose handler runs.
LEMMA GuestIsIdle ==
  ASSUME ServiceInv, NEW t \in Tracees, at[t] = "guest", Idle
  PROVE  CallOf(t) = Service!Idle(status[t])
<1>1. t # scan.caller
  BY SemAssumption DEF Idle, NoScan
<1>2. wstate[t] = "NOT_WAITING" /\ reason[t] = "none"
  BY DEF ServiceInv, SemInv, WaitInv, WaitConsistent
<1> QED
  BY <1>1, <1>2 DEF CallOf, Service!Idle

\* A waiter is blocked on its slot, with its operations.
LEMMA WaiterIsBlocked ==
  ASSUME ServiceInv, NEW t \in Tracees, reason[t] # "none", t # scan.caller
  PROVE  /\ CallOf(t) = Service!Blocked(target[t], sops[t])
         /\ OpsFit(t, target[t]) /\ sops[t] \in OpSeqs
<1>1. at[t] # "gone" /\ reason[t] = "semop"
  BY DEF ServiceInv, SemInv, WaitInv, WaitConsistent, ReasonsOK
<1>2. OpsFit(t, target[t])
  BY <1>1 DEF ServiceInv, SemInv, WaiterSetLive
<1>3. sops[t] \in OpSeqs
  BY <1>2 DEF OpsFit, ServiceInv, SemInv
<1> QED
  BY <1>1, <1>2, <1>3 DEF CallOf, Service!Blocked

(***************************************************************************)
(* What the state of PRoot is for the service.                             *)
(***************************************************************************)
Values == [i \in Slots |-> sems[i].vals]
Calls  == [t \in Tracees |-> CallOf(t)]

\* One call changes, the others do not.
LEMMA OneCall ==
  ASSUME NEW t \in Tracees, NEW d, CallOf(t)' = d,
         \A u \in Tracees : u # t => CallOf(u)' = CallOf(u)
  PROVE  Calls' = [Calls EXCEPT ![t] = d]
<1> DEFINE f == [u \in Tracees |-> CallOf(u)]
           g == [u \in Tracees |-> CallOf(u)']
<1>1. g = [f EXCEPT ![t] = d]
  OBVIOUS
<1> QED
  BY <1>1 DEF Calls

LEMMA NoCall ==
  ASSUME \A u \in Tracees : CallOf(u)' = CallOf(u)
  PROVE  Calls' = Calls
BY DEF Calls

\* The values of the sets do not change.
LEMMA NoSet ==
  ASSUME UNCHANGED sems
  PROVE  Values' = Values
BY DEF Values, Slots

\* What one record of the tracee's state means for its call.
LEMMA SameCall ==
  ASSUME NEW t \in Tracees, scan'.caller = scan.caller, scan'.result = scan.result,
         at'[t] = "gone" <=> at[t] = "gone", reason'[t] = reason[t], wstate'[t] = wstate[t],
         status'[t] = status[t], target'[t] = target[t], sops'[t] = sops[t]
  PROVE  CallOf(t)' = CallOf(t)
BY DEF CallOf

(***************************************************************************)
(* sysvipc_syscall_common after a call that is over: the caller gets its   *)
(* result, the waiters that the call woke get theirs, nobody else has one. *)
(***************************************************************************)
IsOver(t, r, W, s) ==
  /\ CallOf(t) = Service!Idle(status[t])
  /\ CallOf(t)' \in {Service!Idle(r), Service!Done(r)}
  /\ t \notin W
  /\ \A u \in W : CallOf(u)' = Service!Done(s)
  /\ \A u \in Tracees : u # t /\ u \notin W => CallOf(u)' = CallOf(u)

LEMMA CallIsOver ==
  ASSUME ServiceInv, Idle, target' = target, sops' = sops, scan' = scan,
         NEW t \in Tracees, NEW path \in EntryPaths,
         NEW r, NEW W \in SUBSET Waiters, NEW s, SyscallCommon(t, path, "none", r, W, s, FALSE)
  PROVE  IsOver(t, r, W, s)
<1>1. \A u \in Tracees : u # scan.caller /\ scan' = scan
  BY SemAssumption DEF Idle, NoScan
<1>2. at[t] = "guest" /\ reason[t] = "none" /\ t \notin W
  BY DEF SyscallCommon, ServiceInv, SemInv, WaitInv, WaitConsistent, Waiters
<1>3. CallOf(t) = Service!Idle(status[t])
  BY <1>2, GuestIsIdle
<1>4. /\ at'[t] # "gone" /\ reason'[t] = "none" /\ status'[t] = r
      /\ wstate'[t] \in {"NOT_WAITING", "ENTERED_GETPID"}
  <2>1. at'[t] = PlaceAfterCall(path, "none")
    BY DEF SyscallCommon, ServiceInv, SemInv, WaitInv, WaitTypeOK
  <2> QED
    BY <2>1, WaitAssumption DEF SyscallCommon, PlaceAfterCall, StateAfterCall
<1>5. CallOf(t)' \in {Service!Idle(r), Service!Done(r)}
  BY <1>1, <1>4 DEF CallOf, Service!Idle, Service!Done
<1>6. ASSUME NEW u \in W
      PROVE  CallOf(u)' = Service!Done(s)
  <2>1. u \in Tracees /\ u # t /\ reason[u] # "none" /\ at[u] # "gone"
    BY <1>2 DEF Waiters, ServiceInv, SemInv, WaitInv, WaitConsistent
  <2>2. /\ at'[u] # "gone" /\ reason'[u] = "none" /\ status'[u] = s
        /\ wstate'[u] # "NOT_WAITING"
    BY <2>1 DEF SyscallCommon, WokenState, ServiceInv, SemInv, WaitInv, WaitTypeOK
  <2> QED
    BY <1>1, <2>1, <2>2 DEF CallOf, Service!Done
<1>7. ASSUME NEW u \in Tracees, u # t, u \notin W
      PROVE  CallOf(u)' = CallOf(u)
  <2>1. at'[u] = at[u] /\ reason'[u] = reason[u] /\ wstate'[u] = wstate[u] /\ status'[u] = status[u]
    BY <1>7 DEF SyscallCommon, ServiceInv, SemInv, WaitInv, WaitTypeOK
  <2> QED
    BY <2>1, SameCall
<1> QED
  BY <1>2, <1>3, <1>5, <1>6, <1>7 DEF IsOver

--------------------------------------------------------------------------------
(* The steps of the service *)

ServiceStep == [Service!Next]_(Service!specVars)

\* A step that changes no set and no call.
LEMMA Stutter ==
  ASSUME UNCHANGED sems, \A u \in Tracees : CallOf(u)' = CallOf(u)
  PROVE  ServiceStep
BY NoCall, NoSet DEF ServiceStep, Service!specVars, Values, Calls

\* A call that is over, as the service sees it.
LEMMA Over ==
  ASSUME ServiceInv, Idle, UNCHANGED <<target, sops, scan>>, NEW t \in Tracees, NEW path \in EntryPaths,
         NEW r, Returns(t, path, r)
  PROVE  Calls[t].phase = "idle" /\ \E d \in {Service!Idle(r), Service!Done(r)} : Calls' = [Calls EXCEPT ![t] = d]
<1>1. PICK W : W = {}
  OBVIOUS
<1>2. W \in SUBSET Waiters /\ SyscallCommon(t, path, "none", r, W, "none", FALSE)
  BY <1>1 DEF Returns
<1>3. target' = target /\ sops' = sops /\ scan' = scan
  OBVIOUS
<1>4. IsOver(t, r, W, "none")
  BY <1>2, <1>3, CallIsOver
<1>5. PICK d \in {Service!Idle(r), Service!Done(r)} : CallOf(t)' = d
  BY <1>4 DEF IsOver
<1>6. Calls' = [Calls EXCEPT ![t] = d]
  BY <1>1, <1>4, <1>5, OneCall DEF IsOver
<1>7. Calls[t].phase = "idle"
  BY <1>4 DEF IsOver, Service!Idle, Calls
<1> QED
  BY <1>5, <1>6, <1>7

\* A call that changes no set.
LEMMA OtherCall ==
  ASSUME ServiceInv, Idle, UNCHANGED semVars, NEW t \in Tracees, NEW path \in EntryPaths,
         NEW r \in {"ok", "error"}, Returns(t, path, r)
  PROVE  ServiceStep
<1>1. UNCHANGED <<target, sops, scan>> /\ UNCHANGED sems
  BY DEF semVars
<1>2. Calls[t].phase = "idle" /\ \E d \in {Service!Idle(r), Service!Done(r)} : Calls' = [Calls EXCEPT ![t] = d]
  BY <1>1, Over
<1>3. Values' = Values
  BY <1>1, NoSet
<1>4. Service!Other(t)
  BY <1>2, <1>3 DEF Service!Other, Service!Ends, Calls, Values
<1> QED
  BY <1>4 DEF ServiceStep, Service!Next

\* The array of the values of the sets is a sequence.
LEMMA ValuesSeq ==
  ASSUME SlotsOK
  PROVE  /\ \E S : Values \in Seq(S)
         /\ Len(Values) = Len(sems)
         /\ Slots = 1 .. Len(sems) /\ Len(sems) \in Nat
<1> DEFINE T == {sems[i].vals : i \in Slots}
           f == [i \in Slots |-> sems[i].vals]
<1>1. Slots = 1 .. Len(sems) /\ Len(sems) \in Nat
  BY DEF SlotsOK, Slots
<1>2. f \in [1 .. Len(sems) -> T]
  BY <1>1
<1>3. f \in Seq(T)
  <2>1. Seq(T) = UNION {[1 .. n -> T] : n \in Nat}
    BY SeqDef
  <2> HIDE DEF f, T
  <2> QED
    BY <1>1, <1>2, <2>1
<1>4. Len(f) = Len(sems)
  <2>1. DOMAIN f = 1 .. Len(f) /\ Len(f) \in Nat
    BY <1>3
  <2> QED
    BY <1>1, <2>1
<1> QED
  BY <1>1, <1>3, <1>4 DEF Values

\* The values of one set are replaced, all of them.
LEMMA SetReplaced ==
  ASSUME SlotsOK, NEW i \in Slots, NEW slot, NEW v, slot.vals = v, sems' = [sems EXCEPT ![i] = slot]
  PROVE  Values' = [Values EXCEPT ![i] = v]
<1>1. Slots' = Slots
  BY DEF Slots
<1>2. \A j \in Slots : sems'[j].vals = IF j = i THEN v ELSE sems[j].vals
  BY DEF Slots
<1> DEFINE g == [j \in Slots |-> sems'[j].vals]
<1>3. g = [[j \in Slots |-> sems[j].vals] EXCEPT ![i] = v]
  BY <1>2
<1> QED
  BY <1>1, <1>3 DEF Values

LEMMA ValuesReplaced ==
  ASSUME SlotsOK, NEW i \in Slots, NEW v, sems' = [sems EXCEPT ![i].vals = v]
  PROVE  Values' = [Values EXCEPT ![i] = v]
<1>1. PICK slot : slot = [sems[i] EXCEPT !.vals = v]
  OBVIOUS
<1>2. slot.vals = v
  BY <1>1, SlotFields
<1>3. Slots' = Slots /\ \A j \in Slots : sems'[j] = IF j = i THEN slot ELSE sems[j]
  BY <1>1 DEF Slots
<1>4. \A j \in Slots : sems'[j].vals = IF j = i THEN v ELSE sems[j].vals
  BY <1>2, <1>3
<1> DEFINE g == [j \in Slots |-> sems'[j].vals]
<1>5. g = [[j \in Slots |-> sems[j].vals] EXCEPT ![i] = v]
  BY <1>4
<1> QED
  BY <1>3, <1>5 DEF Values

\* A set is added behind the others.
LEMMA SetAppended ==
  ASSUME SlotsOK, NEW key, NEW gen, NEW valid, NEW v,
         sems' = Append(sems, [key |-> key, gen |-> gen, valid |-> valid, vals |-> v])
  PROVE  Values' = Append(Values, v)
<1> DEFINE slot == [key |-> key, gen |-> gen, valid |-> valid, vals |-> v]
           f == [j \in Slots |-> sems[j].vals]
           g == [j \in Slots' |-> sems'[j].vals]
<1>1. PICK S : sems \in Seq(S)
  BY DEF SlotsOK
<1>2. slot.vals = v
  OBVIOUS
<1> HIDE DEF slot
<1>3. sems \in Seq(S \cup {slot}) /\ sems' = Append(sems, slot)
  BY <1>1 DEF slot
<1>4. /\ Slots' = 1 .. Len(sems) + 1 /\ Slots = 1 .. Len(sems) /\ Len(sems) \in Nat
      /\ sems'[Len(sems) + 1] = slot /\ \A j \in Slots : sems'[j] = sems[j]
  BY <1>3 DEF Slots
<1>5. PICK T : f \in Seq(T)
  BY ValuesSeq DEF Values
<1>6. f \in Seq(T \cup {v}) /\ Len(f) = Len(sems)
  BY <1>5, ValuesSeq DEF Values
<1>7. \A j \in Slots : f[j] = sems[j].vals
  OBVIOUS
<1> HIDE DEF f
<1>8. /\ Append(f, v) \in Seq(T \cup {v}) /\ Len(Append(f, v)) = Len(sems) + 1
      /\ Append(f, v) = [j \in 1 .. Len(sems) + 1 |-> IF j = Len(sems) + 1 THEN v ELSE f[j]]
  <2> DEFINE h == Append(f, v)
  <2>1. h \in Seq(T \cup {v}) /\ Len(h) = Len(sems) + 1
    BY <1>4, <1>6
  <2>2. \A j \in 1 .. Len(sems) + 1 : h[j] = IF j = Len(sems) + 1 THEN v ELSE f[j]
    BY <1>4, <1>6
  <2> HIDE DEF h
  <2>3. h = [j \in 1 .. Len(h) |-> h[j]]
    BY <2>1
  <2>4. h = [j \in 1 .. Len(sems) + 1 |-> IF j = Len(sems) + 1 THEN v ELSE f[j]]
    BY <2>1, <2>2, <2>3
  <2> QED
    BY <2>1, <2>4 DEF h
<1>9. g = [j \in 1 .. Len(sems) + 1 |-> IF j = Len(sems) + 1 THEN v ELSE f[j]]
  <2>1. \A j \in 1 .. Len(sems) + 1 : sems'[j].vals = IF j = Len(sems) + 1 THEN v ELSE f[j]
    BY <1>2, <1>4, <1>7
  <2> QED
    BY <1>4, <2>1
<1>10. g = Append(f, v)
  BY <1>8, <1>9
<1> QED
  BY <1>10 DEF f, Values

--------------------------------------------------------------------------------
(* semop and its loop *)

(***************************************************************************)
(* A call of semop is decided, at once or from the loop of another one: it *)
(* is performed, it blocks or it is refused.                               *)
(***************************************************************************)
LEMMA Decided ==
  ASSUME ServiceInv, NEW t \in Tracees, NEW i \in Slots, NEW ops \in OpSeqs, sems[i].valid,
         \A k \in DOMAIN ops : ops[k].num \in DOMAIN sems[i].vals,
         Calls[t].phase = "idle" \/ Calls[t] = Service!Blocked(i, ops),
         NEW d, d \in IF SemCheck(ops, sems[i].vals).status = "wait" THEN {Service!Blocked(i, ops)}
                      ELSE {Service!Idle(SemCheck(ops, sems[i].vals).status),
                            Service!Done(SemCheck(ops, sems[i].vals).status)},
         Values' = [Values EXCEPT ![i] = SemCheck(ops, sems[i].vals).vals],
         Calls' = [Calls EXCEPT ![t] = d]
  PROVE  ServiceStep
<1>1. PICK vals, r, w : vals = sems[i].vals /\ r = SemCheck(ops, vals).status /\ w = SemCheck(ops, vals).vals
  OBVIOUS
<1>2. InRange(vals) /\ DOMAIN vals # {} /\ \A k \in DOMAIN ops : ops[k].num \in DOMAIN vals
  BY <1>1 DEF ServiceInv, RangeOK, SetsOK
<1>3. /\ r = "ok" <=> Service!Possible(ops, vals)
      /\ r \in {"ok", "error", "wait"}
      /\ w = IF r = "ok" THEN Service!Partial(ops, vals)[Len(ops)] ELSE vals
  BY <1>1, <1>2, SemCheckIsService
<1>4. /\ Values[i] = vals /\ i \in DOMAIN Values
      /\ Values' = [Values EXCEPT ![i] = w]
      /\ d \in IF r = "wait" THEN {Service!Blocked(i, ops)} ELSE {Service!Idle(r), Service!Done(r)}
  BY <1>1 DEF Values
<1>5. Service!Requests(t, i, ops)
  BY <1>2, <1>4 DEF Service!Requests, Service!Live, Service!NoSet, Values, Calls
<1>6. Values' = Values \/ r = "ok"
  BY <1>3, <1>4 DEF Values
<1>7. Service!Perform(t, i, ops) \/ Service!Block(t, i, ops) \/ Service!Refuse(t, i, ops)
  <2>1. CASE r = "ok"
    <3>1. /\ \E e \in {Service!Idle("ok"), Service!Done("ok")} : Calls' = [Calls EXCEPT ![t] = e]
          /\ Service!Possible(ops, Values[i])
          /\ Values' = [Values EXCEPT ![i] = Service!Partial(ops, Values[i])[Len(ops)]]
      BY <1>3, <1>4, <2>1
    <3> QED
      BY <1>5, <3>1 DEF Service!Perform, Service!Ends, Values, Calls
  <2>2. CASE r = "wait"
    <3>1. /\ Calls' = [Calls EXCEPT ![t] = Service!Blocked(i, ops)] /\ Values' = Values
          /\ ~Service!Possible(ops, Values[i])
      BY <1>3, <1>4, <1>6, <2>2
    <3> QED
      BY <1>5, <3>1 DEF Service!Block, Values, Calls
  <2>3. CASE r = "error"
    <3>1. /\ \E e \in {Service!Idle("error"), Service!Done("error")} : Calls' = [Calls EXCEPT ![t] = e]
          /\ Values' = Values /\ ~Service!Possible(ops, Values[i])
      BY <1>3, <1>4, <1>6, <2>3
    <3> QED
      BY <1>5, <3>1 DEF Service!Refuse, Service!Ends, Values, Calls
  <2> QED
    BY <1>3, <2>1, <2>2, <2>3
<1> QED
  BY <1>4, <1>7 DEF ServiceStep, Service!Next, Values

\* semop up to its loop decides the call of its caller.
LEMMA SemopStep ==
  ASSUME ServiceInv, Idle, NEW t \in Tracees, NEW path \in EntryPaths, NEW i \in Slots,
         NEW ops \in OpSeqs, Semop(t, path, i, ops)
  PROVE  ServiceStep
<1>1. PICK vals, r, w : vals = sems[i].vals /\ r = SemCheck(ops, vals).status /\ w = SemCheck(ops, vals).vals
  OBVIOUS
<1>2. /\ at[t] = "guest" /\ sems[i].valid /\ \A k \in DOMAIN ops : ops[k].num \in DOMAIN vals
      /\ sems' = [sems EXCEPT ![i].vals = w]
      /\ target' = [target EXCEPT ![t] = i] /\ sops' = [sops EXCEPT ![t] = ops]
      /\ scan'.caller = t /\ scan'.result = r
      /\ UNCHANGED waitVars
  BY <1>1 DEF Semop
<1>3. SlotsOK /\ reason[t] = "none"
  BY <1>2 DEF ServiceInv, SemInv, WaitInv, WaitConsistent
<1>4. Values' = [Values EXCEPT ![i] = w]
  BY <1>2, <1>3, ValuesReplaced
<1>5. Calls[t].phase = "idle"
  BY <1>2, GuestIsIdle DEF Calls, Service!Idle
<1>6. PICK d : d = IF r = "wait" THEN Service!Blocked(i, ops) ELSE Service!Done(r)
  OBVIOUS
<1>7. CallOf(t)' = d
  BY <1>2, <1>6 DEF CallOf, waitVars, Service!Blocked, Service!Done, ServiceInv, SemInv
<1>8. ASSUME NEW u \in Tracees, u # t
      PROVE  CallOf(u)' = CallOf(u)
  <2>1. u # scan.caller
    BY SemAssumption DEF Idle, NoScan
  <2> QED
    BY <1>2, <1>8, <2>1 DEF CallOf, waitVars, ServiceInv, SemInv
<1>9. Calls' = [Calls EXCEPT ![t] = d]
  BY <1>7, <1>8, OneCall
<1> QED
  BY <1>1, <1>2, <1>4, <1>5, <1>6, <1>9, Decided

\* The loop decides the call of a waiter, or leaves it blocked.
LEMMA ScanNextStep ==
  ASSUME ServiceInv, NEW u \in Tracees, ScanNext(u)
  PROVE  ServiceStep
<1>1. PICK i, ops, vals, r, w :
        /\ i = scan.set /\ ops = sops[u] /\ vals = sems[i].vals
        /\ r = SemCheck(ops, vals).status /\ w = SemCheck(ops, vals).vals
  OBVIOUS
<1>2. ~Idle
  BY DEF ScanNext, Idle, NoScan
<1>3. /\ u \in WaitersOf(i) /\ u # scan.caller /\ i \in Slots
      /\ reason[u] = "semop" /\ target[u] = i /\ u \in Tracees
  BY <1>1, <1>2 DEF ScanNext, ServiceInv, SemInv, WaiterSetLive, WaitersOf, Waiters
<1>4. /\ CallOf(u) = Service!Blocked(i, ops) /\ ops \in OpSeqs
      /\ sems[i].valid /\ \A k \in DOMAIN ops : ops[k].num \in DOMAIN vals
  BY <1>1, <1>3, WaiterIsBlocked DEF OpsFit
<1>5. scan'.caller = scan.caller /\ scan'.result = scan.result
  BY <1>2, ScanFields DEF ScanNext, ServiceInv, SemInv
<1>6. target' = target
  BY DEF ScanNext
<1>7. CASE r = "wait"
  <2>1. UNCHANGED <<sems, sops, waitVars>>
    BY <1>1, <1>7 DEF ScanNext
  <2>2. \A v \in Tracees : CallOf(v)' = CallOf(v)
    BY <1>5, <1>6, <2>1 DEF CallOf, waitVars
  <2> QED
    BY <2>1, <2>2, Stutter
<1>8. CASE r # "wait"
  <2>1. /\ sems' = [sems EXCEPT ![i].vals = w] /\ sops' = [sops EXCEPT ![u] = <<>>]
        /\ WakeTracee(u, r) /\ UNCHANGED <<at, retry>>
    BY <1>1, <1>8 DEF ScanNext
  <2>2. SlotsOK /\ at[u] # "gone"
    BY <1>3 DEF ServiceInv, SemInv, WaitInv, WaitConsistent
  <2>3. Values' = [Values EXCEPT ![i] = w]
    BY <1>3, <2>1, <2>2, ValuesReplaced
  <2>4. /\ reason'[u] = "none" /\ status'[u] = r /\ wstate'[u] # "NOT_WAITING" /\ at' = at
    BY <2>1 DEF WakeTracee, WokenState, ServiceInv, SemInv, WaitInv, WaitTypeOK
  <2>5. PICK d : d = Service!Done(r)
    OBVIOUS
  <2>6. CallOf(u)' = d
    BY <1>3, <1>5, <2>2, <2>4, <2>5 DEF CallOf, Service!Done
  <2>7. ASSUME NEW v \in Tracees, v # u
        PROVE  CallOf(v)' = CallOf(v)
    <3>1. /\ reason'[v] = reason[v] /\ status'[v] = status[v] /\ wstate'[v] = wstate[v]
          /\ at'[v] = at[v] /\ target'[v] = target[v] /\ sops'[v] = sops[v]
      BY <1>6, <2>1, <2>7 DEF WakeTracee, ServiceInv, SemInv, WaitInv, WaitTypeOK
    <3> QED
      BY <1>5, <3>1, SameCall
  <2>8. Calls' = [Calls EXCEPT ![u] = d]
    BY <2>6, <2>7, OneCall
  <2>9. Calls[u] = Service!Blocked(i, ops)
    BY <1>4 DEF Calls
  <2> QED
    BY <1>1, <1>3, <1>4, <1>8, <2>3, <2>5, <2>8, <2>9, Decided
<1> QED
  BY <1>7, <1>8

\* The end of semop: its caller blocks on, or may see its result.
LEMMA ScanEndStep ==
  ASSUME ServiceInv, ScanEnd
  PROVE  ServiceStep
<1>1. PICK t, r : t = scan.caller /\ r = scan.result
  OBVIOUS
<1>2. /\ ~Idle /\ t \in Tracees /\ at[t] = "guest" /\ scan.path \in EntryPaths
      /\ r \in {"ok", "error", "wait"}
  BY <1>1 DEF ScanEnd, ServiceInv, SemInv, ScanOK
<1>3. scan'.caller = NoTracee /\ UNCHANGED <<sems, target>>
  BY DEF ScanEnd, NoScan
<1>4. NoTracee \notin Tracees
  BY SemAssumption
<1>5. ASSUME NEW u \in Tracees, u # t
      PROVE  CallOf(u)' = CallOf(u)
  <2>1. /\ reason'[u] = reason[u] /\ status'[u] = status[u] /\ wstate'[u] = wstate[u]
        /\ at'[u] = at[u] /\ sops'[u] = sops[u]
    BY <1>1, <1>5 DEF ScanEnd, Blocks, Returns, SyscallCommon, ServiceInv, SemInv, WaitInv, WaitTypeOK
  <2> QED
    BY <1>1, <1>3, <1>4, <1>5, <2>1 DEF CallOf
<1>6. CASE r = "wait"
  <2>1. Blocks(t, scan.path, "semop") /\ UNCHANGED sops
    BY <1>1, <1>6 DEF ScanEnd
  <2>2. reason'[t] = "semop"
    BY <1>2, <2>1 DEF Blocks, SyscallCommon
  <2>3. at'[t] # "gone"
    BY <1>2, <2>1, WaitAssumption DEF Blocks, SyscallCommon, PlaceAfterCall, ServiceInv, SemInv, WaitInv, WaitTypeOK
  <2>4. CallOf(t)' = CallOf(t)
    BY <1>1, <1>2, <1>3, <1>4, <1>6, <2>1, <2>2, <2>3 DEF CallOf
  <2> QED
    BY <1>3, <1>5, <2>4, Stutter
<1>7. CASE r # "wait"
  <2>1. Returns(t, scan.path, r)
    BY <1>1, <1>7 DEF ScanEnd
  <2>2. /\ reason'[t] = "none" /\ status'[t] = r /\ wstate'[t] \in {"NOT_WAITING", "ENTERED_GETPID"}
    BY <1>2, <2>1, WaitAssumption DEF Returns, SyscallCommon, StateAfterCall
  <2>3. at'[t] # "gone"
    BY <1>2, <2>1, WaitAssumption DEF Returns, SyscallCommon, PlaceAfterCall, ServiceInv, SemInv, WaitInv, WaitTypeOK
  <2>4. PICK d \in {Service!Idle(r), Service!Done(r)} : CallOf(t)' = d
    BY <1>2, <1>3, <1>4, <2>2, <2>3 DEF CallOf, Service!Idle, Service!Done
  <2>5. CallOf(t) = Service!Done(r)
    BY <1>1, <1>2, <1>7 DEF CallOf, Service!Done
  <2>6. CASE d = Service!Done(r)
    BY <1>2, <1>3, <1>5, <2>4, <2>5, <2>6, Stutter
  <2>7. CASE d = Service!Idle(r)
    <3>1. Calls' = [Calls EXCEPT ![t] = Service!Idle(r)]
      <4>1. Calls' = [Calls EXCEPT ![t] = d]
        BY <1>2, <1>5, <2>4, OneCall
      <4> QED
        BY <2>7, <4>1
    <3>2. Calls[t].phase = "done" /\ Calls[t].result = r
      BY <1>2, <2>5 DEF Calls, Service!Done
    <3>3. Values' = Values
      BY <1>3, NoSet
    <3>4. Service!Return(t)
      BY <3>1, <3>2, <3>3 DEF Service!Return, Calls, Values
    <3> QED
      BY <1>2, <3>4 DEF ServiceStep, Service!Next
  <2> QED
    BY <2>4, <2>6, <2>7
<1> QED
  BY <1>6, <1>7

--------------------------------------------------------------------------------
(* The other calls *)

\* An empty array of values is no set.
LEMMA EmptyIsNoSet ==
  ASSUME NEW vals, DOMAIN vals = {}, InRange(vals)
  PROVE  vals = Service!NoSet
<1>1. vals = [k \in {} |-> vals[k]]
  BY DEF InRange
<1>2. <<>> \in [1 .. 0 -> {}]
  OBVIOUS
<1>3. <<>> = [k \in {} |-> vals[k]]
  BY <1>2
<1> QED
  BY <1>1, <1>3 DEF Service!NoSet

\* semget finds a set or rejects the call, or creates a set in a free slot.
LEMMA SemgetStep ==
  ASSUME ServiceInv, Idle, NEW t \in Tracees, NEW path \in EntryPaths, NEW key, NEW n \in Sizes,
         NEW creat, NEW excl, Semget(t, path, key, n, creat, excl)
  PROVE  ServiceStep
<1>1. SlotsOK /\ target' = target /\ sops' = sops /\ scan' = scan
  BY DEF Semget, ServiceInv, SemInv
<1>2. ASSUME NEW r \in {"ok", "error"}, Returns(t, path, r), UNCHANGED sems
      PROVE  ServiceStep
  BY <1>1, <1>2, OtherCall DEF semVars
<1>3. ASSUME Returns(t, path, "ok"), NEW v, v = Zeroes(n),
             \/ Values' = Append(Values, v)
             \/ \E i \in Slots : ~sems[i].valid /\ Values' = [Values EXCEPT ![i] = v]
      PROVE  ServiceStep
  <2>1. PICK r : r = "ok"
    OBVIOUS
  <2>2. Calls[t].phase = "idle" /\ \E d \in {Service!Idle(r), Service!Done(r)} : Calls' = [Calls EXCEPT ![t] = d]
    BY <1>1, <1>3, <2>1, Over
  <2>3. ASSUME NEW i \in Slots, ~sems[i].valid
        PROVE  i \in DOMAIN Values /\ Values[i] = Service!NoSet
    <3>1. InRange(sems[i].vals) /\ DOMAIN sems[i].vals = {}
      BY <2>3 DEF ServiceInv, RangeOK, SetsOK
    <3> QED
      BY <2>3, <3>1, EmptyIsNoSet DEF Values
  <2>4. \/ Values' = Append(Values, v)
        \/ \E i \in DOMAIN Values : ~Service!Live(i) /\ Values' = [Values EXCEPT ![i] = v]
    BY <1>3, <2>3 DEF Service!Live, Values
  <2>5. Service!Create(t, n)
    BY <1>3, <2>1, <2>2, <2>4 DEF Service!Create, Service!Ends, Zeroes, Values, Calls
  <2> QED
    BY <2>5 DEF ServiceStep, Service!Next
<1>4. CASE UNCHANGED sems /\ \E r \in {"ok", "error"} : Returns(t, path, r)
  BY <1>2, <1>4
<1>5. PICK v : v = Zeroes(n)
  OBVIOUS
<1>6. CASE \E i \in Slots : /\ ~sems[i].valid /\ Returns(t, path, "ok")
                            /\ sems' = [sems EXCEPT ![i] = [key |-> key, gen |-> sems[i].gen,
                                                            valid |-> TRUE, vals |-> v]]
  <2>1. PICK i \in Slots : /\ ~sems[i].valid /\ Returns(t, path, "ok")
                           /\ sems' = [sems EXCEPT ![i] = [key |-> key, gen |-> sems[i].gen,
                                                           valid |-> TRUE, vals |-> v]]
    BY <1>6
  <2>2. PICK slot : slot = [key |-> key, gen |-> sems[i].gen, valid |-> TRUE, vals |-> v]
    OBVIOUS
  <2>3. slot.vals = v /\ sems' = [sems EXCEPT ![i] = slot]
    BY <2>1, <2>2
  <2>4. Values' = [Values EXCEPT ![i] = v]
    BY <1>1, <2>3, SetReplaced
  <2> QED
    BY <1>3, <1>5, <2>1, <2>4
<1>7. CASE /\ Returns(t, path, "ok")
           /\ sems' = Append(sems, [key |-> key, gen |-> 0, valid |-> TRUE, vals |-> v])
  <2>1. Values' = Append(Values, v)
    BY <1>1, <1>7, SetAppended
  <2> QED
    BY <1>3, <1>5, <1>7, <2>1
<1> QED
  BY <1>4, <1>5, <1>6, <1>7 DEF Semget

\* semctl(SETVAL) sets one value.
LEMMA SetvalStep ==
  ASSUME ServiceInv, Idle, NEW t \in Tracees, NEW path \in EntryPaths, NEW i \in Slots,
         NEW k \in DOMAIN sems[i].vals, NEW v \in 0 .. MaxSemval, SemctlSetval(t, path, i, k, v)
  PROVE  ServiceStep
<1>1. /\ SlotsOK /\ target' = target /\ sops' = sops /\ scan' = scan
      /\ sems[i].valid /\ Returns(t, path, "ok")
      /\ sems' = [sems EXCEPT ![i].vals = [sems[i].vals EXCEPT ![k] = v]]
  BY DEF SemctlSetval, ServiceInv, SemInv
<1>2. PICK r, w : r = "ok" /\ w = [sems[i].vals EXCEPT ![k] = v]
  OBVIOUS
<1>3. Calls[t].phase = "idle" /\ \E d \in {Service!Idle(r), Service!Done(r)} : Calls' = [Calls EXCEPT ![t] = d]
  BY <1>1, <1>2, Over
<1>4. sems' = [sems EXCEPT ![i].vals = w]
  BY <1>1, <1>2
<1>5. Values' = [Values EXCEPT ![i] = w]
  BY <1>1, <1>4, ValuesReplaced
<1>6. /\ i \in DOMAIN Values /\ Values[i] = sems[i].vals /\ k \in DOMAIN Values[i]
      /\ Values' = [Values EXCEPT ![i][k] = v]
  BY <1>2, <1>5 DEF Values
<1>7. Values[i] # Service!NoSet
  BY <1>6 DEF Service!NoSet
<1>8. Service!Set(t, i, k, v)
  BY <1>2, <1>3, <1>6, <1>7 DEF Service!Set, Service!Live, Service!Ends, Values, Calls
<1> QED
  BY <1>6, <1>8 DEF ServiceStep, Service!Next, Values

(***************************************************************************)
(* semctl(IPC_RMID) fails every call that is blocked on the set: they are  *)
(* those of the waiters of its slot.                                       *)
(***************************************************************************)
LEMMA RmidStep ==
  ASSUME ServiceInv, Idle, NEW t \in Tracees, NEW path \in EntryPaths, NEW i \in Slots,
         SemctlRmid(t, path, i)
  PROVE  ServiceStep
<1>1. PICK W, r, s : W = WaitersOf(i) /\ r = "ok" /\ s = "EIDRM"
  OBVIOUS
<1>2. /\ SlotsOK /\ target' = target /\ sops' = sops /\ scan' = scan /\ sems[i].valid
      /\ SyscallCommon(t, path, "none", r, W, s, FALSE)
  BY <1>1 DEF SemctlRmid, ServiceInv, SemInv
<1>3. W \in SUBSET Waiters
  BY <1>1 DEF WaitersOf
<1>4. IsOver(t, r, W, s)
  BY <1>2, <1>3, CallIsOver
<1>5. PICK d \in {Service!Idle(r), Service!Done(r)} : CallOf(t)' = d
  BY <1>4 DEF IsOver
<1>6. ASSUME NEW b \in Tracees
      PROVE  b \in W <=> Calls[b].phase = "blocked" /\ Calls[b].set = i
  <2>1. b # scan.caller
    BY SemAssumption DEF Idle, NoScan
  <2>2. reason[b] = "semop" => at[b] # "gone"
    BY DEF ServiceInv, SemInv, WaitInv, WaitConsistent
  <2>3. b \in W <=> reason[b] = "semop" /\ target[b] = i
    BY <1>1 DEF WaitersOf, Waiters
  <2> QED
    BY <2>1, <2>2, <2>3 DEF CallOf, Calls
<1>7. Calls' = [b \in Tracees |-> IF b = t THEN d
                                  ELSE IF Calls[b].phase = "blocked" /\ Calls[b].set = i
                                  THEN Service!Done(s) ELSE Calls[b]]
  <2>1. \A b \in Tracees : CallOf(b)' = IF b = t THEN d
                                        ELSE IF Calls[b].phase = "blocked" /\ Calls[b].set = i
                                        THEN Service!Done(s) ELSE Calls[b]
    BY <1>4, <1>5, <1>6 DEF IsOver, Calls
  <2> QED
    BY <2>1 DEF Calls
<1>8. PICK slot : slot = [key |-> sems[i].key, gen |-> sems[i].gen + 1,
                          valid |-> FALSE, vals |-> [k \in {} |-> 0]]
  OBVIOUS
<1>9. PICK v : v = [k \in {} |-> 0]
  OBVIOUS
<1>10. slot.vals = v /\ sems' = [sems EXCEPT ![i] = slot]
  BY <1>8, <1>9 DEF SemctlRmid
<1>11. Values' = [Values EXCEPT ![i] = v]
  BY <1>2, <1>10, SetReplaced
<1>12. v = Service!NoSet
  <2>1. DOMAIN v = {} /\ InRange(v)
    BY <1>9 DEF InRange
  <2> QED
    BY <2>1, EmptyIsNoSet
<1>13. i \in DOMAIN Values /\ Values[i] # Service!NoSet
  BY <1>2 DEF Values, ServiceInv, SetsOK, Service!NoSet
<1>14. Calls[t].phase = "idle"
  BY <1>4 DEF IsOver, Calls, Service!Idle
<1>15. Service!Remove(t, i)
  BY <1>1, <1>5, <1>7, <1>11, <1>12, <1>13, <1>14 DEF Service!Remove, Service!Live, Values, Calls
<1> QED
  BY <1>13, <1>15 DEF ServiceStep, Service!Next, Values

--------------------------------------------------------------------------------
(* The other events *)

\* What the kernel, a signal or PRoot does to one tracee is seen by one caller.
LEMMA EventStep ==
  ASSUME ServiceInv, Idle, NEW t \in Tracees,
         \/ EnterPpoll(t) /\ UNCHANGED semVars
         \/ Resume(t, status[t]) /\ UNCHANGED semVars
         \/ SemopTimedout(t)
         \/ SemReap(t)
         \/ SemTracee(t)
  PROVE  ServiceStep
<1>1. \A u \in Tracees : u # scan.caller
  BY SemAssumption DEF Idle, NoScan
<1>2. UNCHANGED sems /\ scan' = scan
  BY DEF SemopTimedout, SemReap, SemTracee, semVars
<1>3. Values' = Values
  BY <1>2, NoSet
<1>4. ASSUME NEW u \in Tracees, u # t
      PROVE  CallOf(u)' = CallOf(u)
  <2>1. /\ reason'[u] = reason[u] /\ status'[u] = status[u] /\ wstate'[u] = wstate[u]
        /\ at'[u] = at[u] /\ target'[u] = target[u] /\ sops'[u] = sops[u]
    BY <1>4 DEF EnterPpoll, Resume, SemopTimedout, Interrupted, SemReap, Reap, SemTracee,
                SigstopInterrupts, SignalInterrupts, Kill, semVars,
                ServiceInv, SemInv, WaitInv, WaitTypeOK
  <2> QED
    BY <1>2, <2>1, SameCall
<1>5. CASE EnterPpoll(t) /\ UNCHANGED semVars
  <2>1. /\ reason'[t] = reason[t] /\ target' = target /\ sops' = sops
        /\ at[t] # "gone" /\ at'[t] # "gone" /\ reason[t] = "semop"
    BY <1>5 DEF EnterPpoll, semVars, ServiceInv, SemInv, WaitInv, WaitTypeOK, WaitConsistent, ReasonsOK
  <2>2. CallOf(t)' = CallOf(t)
    BY <1>1, <1>2, <2>1 DEF CallOf
  <2> QED
    BY <1>2, <1>4, <2>2, Stutter
<1>6. CASE SemTracee(t)
  <2>1. /\ UNCHANGED <<reason, wstate, status, target, sops>>
        /\ at'[t] = "gone" <=> at[t] = "gone"
    BY <1>6 DEF SemTracee, SigstopInterrupts, SignalInterrupts, Kill, Alive, semVars,
                ServiceInv, SemInv, WaitInv, WaitTypeOK
  <2>2. CallOf(t)' = CallOf(t)
    BY <1>2, <2>1 DEF CallOf
  <2> QED
    BY <1>2, <1>4, <2>2, Stutter
<1>7. CASE Resume(t, status[t]) /\ UNCHANGED semVars
  <2>1. /\ at[t] # "gone" /\ reason[t] = "none" /\ wstate[t] # "NOT_WAITING"
    BY <1>7 DEF Resume, AtResult, ServiceInv, SemInv, WaitInv, WaitConsistent
  <2>2. /\ at'[t] = "guest" /\ reason'[t] = "none" /\ wstate'[t] = "NOT_WAITING"
        /\ status'[t] = status[t]
    BY <1>7, <2>1 DEF Resume, ServiceInv, SemInv, WaitInv, WaitTypeOK
  <2>3. PICK d : d = Service!Idle(status[t])
    OBVIOUS
  <2>4. CallOf(t)' = d
    BY <1>1, <1>2, <2>2, <2>3 DEF CallOf, Service!Idle
  <2>5. CallOf(t) = Service!Done(status[t])
    BY <1>1, <2>1 DEF CallOf, Service!Done
  <2>6. Calls' = [Calls EXCEPT ![t] = d]
    BY <1>4, <2>4, OneCall
  <2>7. Calls[t].phase = "done" /\ Calls[t].result = status[t]
    BY <2>5 DEF Calls, Service!Done
  <2>8. Calls' = [Calls EXCEPT ![t] = Service!Idle(Calls[t].result)]
    BY <2>3, <2>6, <2>7
  <2>9. Service!Return(t)
    BY <1>3, <2>7, <2>8 DEF Service!Return, Calls, Values
  <2> QED
    BY <2>9 DEF ServiceStep, Service!Next
<1>8. CASE SemopTimedout(t)
  <2>1. reason[t] = "semop" /\ at[t] # "gone"
    BY <1>8 DEF SemopTimedout, Interrupted, ServiceInv, SemInv, WaitInv, WaitConsistent, ReasonsOK
  <2>2. /\ at'[t] = "guest" /\ reason'[t] = "none" /\ wstate'[t] = "NOT_WAITING"
        /\ status'[t] = "EINTR"
    BY <1>8 DEF SemopTimedout, Interrupted, ServiceInv, SemInv, WaitInv, WaitTypeOK
  <2>3. PICK d : d = Service!Idle("EINTR")
    OBVIOUS
  <2>4. CallOf(t)' = d
    BY <1>1, <1>2, <2>2, <2>3 DEF CallOf, Service!Idle
  <2>5. Calls' = [Calls EXCEPT ![t] = d]
    BY <1>4, <2>4, OneCall
  <2>6. Calls[t].phase = "blocked"
    BY <1>1, <2>1 DEF CallOf, Calls
  <2>7. Service!Interrupt(t)
    BY <1>3, <2>3, <2>5, <2>6 DEF Service!Interrupt, Calls, Values
  <2> QED
    BY <2>7 DEF ServiceStep, Service!Next
<1>9. CASE SemReap(t)
  <2>1. at'[t] = "gone"
    BY <1>9 DEF SemReap, Reap, ServiceInv, SemInv, WaitInv, WaitTypeOK
  <2>2. PICK d : d = [Service!Idle("none") EXCEPT !.phase = "gone"]
    OBVIOUS
  <2>3. CallOf(t)' = d
    BY <2>1, <2>2 DEF CallOf, Service!Idle
  <2>4. Calls' = [Calls EXCEPT ![t] = d]
    BY <1>4, <2>3, OneCall
  <2>5. Service!Leave(t)
    BY <1>3, <2>2, <2>4 DEF Service!Leave, Calls, Values
  <2> QED
    BY <2>5 DEF ServiceStep, Service!Next
<1> QED
  BY <1>5, <1>6, <1>7, <1>8, <1>9

\* Every step is a step of the service, or none.
LEMMA SemStepIsServiceStep ==
  ASSUME ServiceInv, [SemNext]_vars
  PROVE  ServiceStep
<1>1. CASE UNCHANGED vars
  <2>1. \A u \in Tracees : CallOf(u)' = CallOf(u)
    BY <1>1 DEF vars, waitVars, semVars, CallOf
  <2>2. UNCHANGED sems
    BY <1>1 DEF vars, semVars
  <2> QED
    BY <2>1, <2>2, Stutter
<1>2. ASSUME Idle, NEW t \in Tracees, SemHandler(t)
      PROVE  ServiceStep
  <2>1. ASSUME NEW path \in EntryPaths, SemCallChangesNothing(t, path)
        PROVE  ServiceStep
    BY <1>2, <2>1, OtherCall DEF SemCallChangesNothing
  <2> QED
    BY <1>2, <2>1, SemgetStep, SemopStep, SetvalStep, RmidStep, EventStep DEF SemHandler
<1>3. ASSUME Idle, NEW t \in Tracees, SemTracee(t)
      PROVE  ServiceStep
  BY <1>3, EventStep
<1> QED
  BY <1>1, <1>2, <1>3, ScanNextStep, ScanEndStep DEF SemNext

--------------------------------------------------------------------------------
(* The invariant is one *)

\* What a slot is if it is in use, and if not.
SlotOK(slot) == IF slot.valid THEN DOMAIN slot.vals # {} ELSE DOMAIN slot.vals = {}

LEMMA SetsReplaced ==
  ASSUME SlotsOK, SetsOK, NEW i \in Slots, NEW slot, SlotOK(slot), sems' = [sems EXCEPT ![i] = slot]
  PROVE  SetsOK'
<1>1. Slots' = Slots /\ \A j \in Slots : sems'[j] = IF j = i THEN slot ELSE sems[j]
  BY DEF Slots
<1> QED
  BY <1>1 DEF SetsOK, SlotOK

LEMMA SetsAppended ==
  ASSUME SlotsOK, SetsOK, NEW slot, SlotOK(slot), sems' = Append(sems, slot)
  PROVE  SetsOK'
<1>1. PICK S : sems \in Seq(S)
  BY DEF SlotsOK
<1>2. sems \in Seq(S \cup {slot})
  BY <1>1
<1>3. /\ Slots' = 1 .. Len(sems) + 1 /\ Slots = 1 .. Len(sems) /\ Len(sems) \in Nat
      /\ sems'[Len(sems) + 1] = slot /\ \A j \in Slots : sems'[j] = sems[j]
  BY <1>2 DEF Slots
<1>4. \A j \in Slots' : j \in Slots \/ j = Len(sems) + 1
  BY <1>3
<1> QED
  BY <1>3, <1>4 DEF SetsOK, SlotOK

\* Values that are replaced by as many values.
LEMMA SetsKeepSizes ==
  ASSUME SlotsOK, SetsOK, NEW i \in Slots, NEW v, DOMAIN v = DOMAIN sems[i].vals,
         sems' = [sems EXCEPT ![i].vals = v]
  PROVE  SetsOK'
<1>1. PICK slot : slot = [sems[i] EXCEPT !.vals = v]
  OBVIOUS
<1>2. slot.vals = v /\ slot.valid = sems[i].valid
  BY <1>1, SlotFields
<1>3. Slots' = Slots /\ \A j \in Slots : sems'[j] = IF j = i THEN slot ELSE sems[j]
  BY <1>1 DEF Slots
<1> QED
  BY <1>2, <1>3 DEF SetsOK

LEMMA SemStepKeepsSets ==
  ASSUME SemInv, SetsOK, [SemNext]_vars
  PROVE  SetsOK'
<1>1. SlotsOK
  BY DEF SemInv
<1>2. ASSUME UNCHANGED sems
      PROVE  SetsOK'
  BY <1>2 DEF SetsOK, Slots
<1>3. ASSUME NEW t \in Tracees, SemHandler(t)
      PROVE  SetsOK'
  <2>1. ASSUME NEW path \in EntryPaths, NEW key \in Keys, NEW n \in Sizes,
               NEW creat \in BOOLEAN, NEW excl \in BOOLEAN, Semget(t, path, key, n, creat, excl)
        PROVE  SetsOK'
    <3>1. ASSUME NEW gen
          PROVE  SlotOK([key |-> key, gen |-> gen, valid |-> TRUE, vals |-> Zeroes(n)])
      <4>1. 0 \in DOMAIN Zeroes(n)
        BY SemAssumption DEF Zeroes
      <4> QED
        BY <4>1 DEF SlotOK
    <3>2. CASE \E i \in Slots : sems' = [sems EXCEPT ![i] =
                 [key |-> key, gen |-> sems[i].gen, valid |-> TRUE, vals |-> Zeroes(n)]]
      <4>1. PICK i \in Slots : sems' = [sems EXCEPT ![i] =
              [key |-> key, gen |-> sems[i].gen, valid |-> TRUE, vals |-> Zeroes(n)]]
        BY <3>2
      <4>2. PICK slot : slot = [key |-> key, gen |-> sems[i].gen, valid |-> TRUE, vals |-> Zeroes(n)]
        OBVIOUS
      <4>3. SlotOK(slot) /\ sems' = [sems EXCEPT ![i] = slot]
        BY <3>1, <4>1, <4>2
      <4> QED
        BY <1>1, <4>3, SetsReplaced
    <3>3. CASE sems' = Append(sems, [key |-> key, gen |-> 0, valid |-> TRUE, vals |-> Zeroes(n)])
      <4>1. PICK slot : slot = [key |-> key, gen |-> 0, valid |-> TRUE, vals |-> Zeroes(n)]
        OBVIOUS
      <4>2. SlotOK(slot) /\ sems' = Append(sems, slot)
        BY <3>1, <3>3, <4>1
      <4> QED
        BY <1>1, <4>2, SetsAppended
    <3> QED
      BY <1>2, <2>1, <3>2, <3>3 DEF Semget
  <2>2. ASSUME NEW path \in EntryPaths, NEW i \in Slots, NEW ops \in OpSeqs, Semop(t, path, i, ops)
        PROVE  SetsOK'
    <3>1. PICK v : v = SemCheck(ops, sems[i].vals).vals
      OBVIOUS
    <3>2. DOMAIN v = DOMAIN sems[i].vals /\ sems' = [sems EXCEPT ![i].vals = v]
      BY <2>2, <3>1, SemCheckDomain DEF Semop
    <3> QED
      BY <1>1, <3>2, SetsKeepSizes
  <2>3. ASSUME NEW path \in EntryPaths, NEW i \in Slots, NEW k \in DOMAIN sems[i].vals,
               NEW v \in 0 .. MaxSemval, SemctlSetval(t, path, i, k, v)
        PROVE  SetsOK'
    <3>1. PICK w : w = [sems[i].vals EXCEPT ![k] = v]
      OBVIOUS
    <3>2. DOMAIN w = DOMAIN sems[i].vals /\ sems' = [sems EXCEPT ![i].vals = w]
      BY <2>3, <3>1 DEF SemctlSetval
    <3> QED
      BY <1>1, <3>2, SetsKeepSizes
  <2>4. ASSUME NEW path \in EntryPaths, NEW i \in Slots, SemctlRmid(t, path, i)
        PROVE  SetsOK'
    <3>1. PICK slot : slot = [key |-> sems[i].key, gen |-> sems[i].gen + 1,
                              valid |-> FALSE, vals |-> [k \in {} |-> 0]]
      OBVIOUS
    <3>2. SlotOK(slot) /\ sems' = [sems EXCEPT ![i] = slot]
      BY <2>4, <3>1 DEF SemctlRmid, SlotOK
    <3> QED
      BY <1>1, <3>2, SetsReplaced
  <2>5. \/ UNCHANGED sems
        \/ \E path \in EntryPaths :
             \/ \E key \in Keys, n \in Sizes, creat, excl \in BOOLEAN :
                  Semget(t, path, key, n, creat, excl)
             \/ \E i \in Slots : \/ \E ops \in OpSeqs : Semop(t, path, i, ops)
                                 \/ \E k \in DOMAIN sems[i].vals, v \in 0 .. MaxSemval :
                                      SemctlSetval(t, path, i, k, v)
                                 \/ SemctlRmid(t, path, i)
    BY <1>3 DEF SemHandler, SemCallChangesNothing, SemopTimedout, SemReap, semVars
  <2> QED
    BY <1>2, <2>1, <2>2, <2>3, <2>4, <2>5
<1>4. ASSUME NEW u \in Tracees, ScanNext(u)
      PROVE  SetsOK'
  <2>1. PICK i, v : i = scan.set /\ v = SemCheck(sops[u], sems[i].vals).vals
    OBVIOUS
  <2>2. ~ Idle
    BY <1>4 DEF ScanNext, Idle, NoScan
  <2>3. i \in Slots
    BY <2>1, <2>2 DEF SemInv, WaiterSetLive
  <2>4. DOMAIN v = DOMAIN sems[i].vals /\ (UNCHANGED sems \/ sems' = [sems EXCEPT ![i].vals = v])
    BY <1>4, <2>1, SemCheckDomain DEF ScanNext
  <2> QED
    BY <1>1, <1>2, <2>3, <2>4, SetsKeepSizes
<1>5. ASSUME \/ UNCHANGED vars
             \/ ScanEnd
             \/ \E t \in Tracees : SemTracee(t)
      PROVE  SetsOK'
  BY <1>2, <1>5 DEF vars, semVars, ScanEnd, SemTracee
<1> QED
  BY <1>3, <1>4, <1>5 DEF SemNext

LEMMA SemStepKeepsReasons ==
  ASSUME SemInv, ReasonsOK, [SemNext]_vars
  PROVE  ReasonsOK'
<1>1. WaitInv
  BY DEF SemInv
<1>2. ASSUME NEW t \in Tracees, SemHandler(t)
      PROVE  ReasonsOK'
  <2>1. ASSUME \A u \in Tracees : reason'[u] \in {reason[u], "none"}
        PROVE  ReasonsOK'
    BY <2>1 DEF ReasonsOK
  <2>2. ASSUME NEW path, \/ \E r : Returns(t, path, r)
                         \/ \E r, W, s : SyscallCommon(t, path, "none", r, W, s, FALSE)
        PROVE  ReasonsOK'
    BY <1>1, <2>1, <2>2, NoNewWaiter
  <2>3. ASSUME NEW path \in EntryPaths, NEW key \in Keys, NEW n \in Sizes,
               NEW creat \in BOOLEAN, NEW excl \in BOOLEAN, Semget(t, path, key, n, creat, excl)
        PROVE  ReasonsOK'
    <3>1. \E r : Returns(t, path, r)
      BY <2>3 DEF Semget
    <3> QED
      BY <2>2, <3>1
  <2>4. ASSUME NEW path \in EntryPaths, NEW i \in Slots, NEW ops \in OpSeqs, Semop(t, path, i, ops)
        PROVE  ReasonsOK'
    BY <2>4 DEF Semop, waitVars, ReasonsOK
  <2>5. ASSUME NEW path \in EntryPaths, NEW i \in Slots,
               \/ \E k \in DOMAIN sems[i].vals, v \in 0 .. MaxSemval : SemctlSetval(t, path, i, k, v)
               \/ SemctlRmid(t, path, i)
        PROVE  ReasonsOK'
    BY <2>2, <2>5 DEF SemctlSetval, SemctlRmid
  <2>6. ASSUME NEW path \in EntryPaths, SemCallChangesNothing(t, path)
        PROVE  ReasonsOK'
    BY <2>2, <2>6 DEF SemCallChangesNothing
  <2>7. CASE EnterPpoll(t) \/ Resume(t, status[t]) \/ SemopTimedout(t) \/ SemReap(t)
    BY <1>1, <2>1, <2>7, NoNewWaiter DEF SemopTimedout, SemReap
  <2> QED
    BY <1>2, <2>3, <2>4, <2>5, <2>6, <2>7 DEF SemHandler
<1>3. ASSUME NEW t \in Tracees, SemTracee(t)
      PROVE  ReasonsOK'
  <2>1. \A u \in Tracees : reason'[u] \in {reason[u], "none"}
    BY <1>1, <1>3, NoNewWaiter DEF SemTracee
  <2> QED
    BY <2>1 DEF ReasonsOK
<1>4. ASSUME NEW u \in Tracees, ScanNext(u)
      PROVE  ReasonsOK'
  BY <1>1, <1>4 DEF ScanNext, WakeTracee, waitVars, ReasonsOK, WaitInv, WaitTypeOK
<1>5. CASE ScanEnd
  BY <1>1, <1>5 DEF ScanEnd, Blocks, Returns, SyscallCommon, ReasonsOK
<1>6. CASE UNCHANGED vars
  BY <1>6 DEF vars, waitVars, ReasonsOK
<1> QED
  BY <1>2, <1>3, <1>4, <1>5, <1>6 DEF SemNext

LEMMA ServiceStepKeeps == ServiceInv /\ [SemNext]_vars => ServiceInv'
BY SemStepKeepsSemInv, SemStepKeepsRange, SemStepKeepsSets, SemStepKeepsReasons DEF ServiceInv

\* At the start there is no set and no call.
LEMMA ServiceStarts == SemInit => ServiceInv /\ Service!Init
<1> SUFFICES ASSUME SemInit
             PROVE  ServiceInv /\ Service!Init
  OBVIOUS
<1>1. ServiceInv
  BY SemInitInv DEF SemInit, WaitInit, ServiceInv, RangeOK, SetsOK, ReasonsOK, Slots
<1>2. Values = <<>>
  <2>1. DOMAIN Values = {}
    BY DEF SemInit, Slots, Values
  <2>2. InRange(Values)
    BY <2>1 DEF InRange, Values
  <2> QED
    BY <2>1, <2>2, EmptyIsNoSet DEF Service!NoSet
<1>3. Calls = [c \in Tracees |-> Service!Idle("none")]
  <2>1. \A t \in Tracees : CallOf(t) = Service!Idle("none")
    BY SemAssumption DEF SemInit, WaitInit, NoScan, CallOf, Service!Idle
  <2> QED
    BY <2>1 DEF Calls
<1> QED
  BY <1>1, <1>2, <1>3 DEF Service!Init, Values, Calls

(***************************************************************************)
(* sysvipc_sem.c implements the semaphore service (SysVSem's               *)
(* ImplementsService): for every set of tracees, every list of operations  *)
(* and every bound, semop is applied all at once or not at all, exactly    *)
(* when its caller gets "ok", and a removed set fails all its waiters.     *)
(***************************************************************************)
THEOREM SemRefinesService == SemSpec => ImplementsService
<1>1. SemInit => ServiceInv /\ Service!Init
  BY ServiceStarts
<1>2. ServiceInv /\ [SemNext]_vars => [Service!Next]_(Service!specVars)
  BY SemStepIsServiceStep DEF ServiceStep
<1>3. ServiceInv /\ [SemNext]_vars => ServiceInv'
  BY ServiceStepKeeps
<1> QED
  BY <1>1, <1>2, <1>3, PTL DEF SemSpec, ImplementsService, Service!Spec
===============================================================================

----------------------------- MODULE SysVMsgProofs -----------------------------
(***************************************************************************)
(* For every set of tracees, every message and every bound: sysvipc_msg.c  *)
(* uses the wait mechanism as it must, and every msgrcv that waits is on a *)
(* queue that exists.                                                      *)
(***************************************************************************)
EXTENDS SysVMsg, SysVIpcWaitProofs, FiniteSetTheorems

\* A slot of the array of queues.
IsQueue(q) == q = [f \in {"key", "gen", "valid", "items", "qnum", "cbytes"} |-> q[f]]

QueuesSeq == \E S : queues \in Seq(S)

QueuesOK ==
  /\ QueuesSeq
  /\ \A i \in Slots : IsQueue(queues[i])

\* The inductive invariant.
MsgInv ==
  /\ WaitInv
  /\ target \in [Tracees -> Nat] /\ args \in [Tracees -> RecvArgs \cup {NoArgs}]
  /\ QueuesOK
  /\ ReceiversHaveQueue

--------------------------------------------------------------------------------
(* The wait mechanism *)

\* A step of any queue call, or of the kernel meanwhile, is one of the steps
\* the wait mechanism allows.
LEMMA MsgStepIsWaitStep ==
  ASSUME WaitInv, [MsgNext]_vars
  PROVE  [WaitNext]_waitVars
<1> USE MsgAssumption, WaitAssumption
<1>1. CASE UNCHANGED vars
  BY <1>1 DEF vars
<1>2. ASSUME NEW t \in Tracees, NEW path \in EntryPaths, NEW r \in Results, Returns(t, path, r)
      PROVE  WaitNext
  BY <1>2 DEF Returns, WaitNext, AnyCall
<1>3. ASSUME NEW t \in Tracees, NEW path \in EntryPaths,
             NEW key \in Keys, NEW creat \in BOOLEAN, NEW excl \in BOOLEAN,
             Msgget(t, path, key, creat, excl)
      PROVE  WaitNext
  BY <1>2, <1>3 DEF Msgget
<1>4. ASSUME NEW t \in Tracees, NEW path \in EntryPaths, NEW i \in Slots, NEW kind \in Kinds,
             Msgsnd(t, path, i, kind)
      PROVE  WaitNext
  <2>1. PICK W \in SUBSET Waiters : SyscallCommon(t, path, "none", "ok", W, "EAGAIN", TRUE)
    BY <1>4 DEF Msgsnd, ReceiversOf
  <2> QED
    BY <2>1 DEF WaitNext, AnyCall
<1>5. ASSUME NEW t \in Tracees, NEW path \in EntryPaths, NEW i \in Slots, NEW a \in RecvArgs,
             Msgrcv(t, path, i, a)
      PROVE  WaitNext
  <2>1. CASE \E r \in {"ok", "error"} : Returns(t, path, r)
    BY <1>2, <2>1
  <2>2. CASE Blocks(t, path, "queue_recv")
    BY <2>2 DEF Blocks, WaitNext, AnyCall
  <2> QED
    BY <1>5, <2>1, <2>2 DEF Msgrcv
<1>6. ASSUME NEW t \in Tracees, NEW path \in EntryPaths, NEW i \in Slots, MsgctlRmid(t, path, i)
      PROVE  WaitNext
  <2>1. ReceiversOf(i) \in SUBSET Waiters
    BY DEF ReceiversOf
  <2> QED
    BY <1>6, <2>1 DEF MsgctlRmid, WaitNext, AnyCall
<1>7. ASSUME NEW t \in Tracees, NEW path \in EntryPaths, MsgCallChangesNothing(t, path)
      PROVE  WaitNext
  BY <1>2, <1>7 DEF MsgCallChangesNothing
<1>8. ASSUME NEW t \in Tracees, MsgStop(t)
      PROVE  [WaitNext]_waitVars
  <2>1. CASE MsgrcvRetry(t)
    <3>1. PICK r \in {"ok", "error", "EINTR"} : Resume(t, r) /\ retry[t]
      BY <2>1 DEF MsgrcvRetry
    <3> QED
      BY <3>1 DEF WaitNext
  <2>2. CASE MsgrcvRetryCrashes(t)
    BY <2>2 DEF MsgrcvRetryCrashes
  <2>3. CASE MsgEnds(t)
    <3>1. status[t] \in Results
      BY DEF WaitInv, WaitTypeOK
    <3> QED
      BY <2>3, <3>1 DEF MsgEnds, WaitNext
  <2>4. CASE EnterPpoll(t)
    BY <2>4 DEF WaitNext
  <2> QED
    BY <1>8, <2>1, <2>2, <2>3, <2>4 DEF MsgStop
<1>9. ASSUME NEW t \in Tracees, SigstopInterrupts(t) \/ SignalInterrupts(t) \/ Kill(t)
      PROVE  WaitNext
  BY <1>9 DEF WaitNext
<1> QED
  BY <1>1, <1>3, <1>4, <1>5, <1>6, <1>7, <1>8, <1>9 DEF MsgNext, MsgCall

--------------------------------------------------------------------------------
(* The queues *)

\* A new queue, and one with a message more or less, is a slot in use.
LEMMA FreshQueue ==
  ASSUME NEW key, NEW gen
  PROVE  LET q == [key |-> key, gen |-> gen, valid |-> TRUE,
                   items |-> <<>>, qnum |-> 0, cbytes |-> 0]
         IN IsQueue(q) /\ q.valid
BY DEF IsQueue

LEMMA QueuedQueue ==
  ASSUME NEW q, IsQueue(q), NEW msg
  PROVE  IsQueue(Queued(q, msg)) /\ Queued(q, msg).valid = q.valid
BY DEF IsQueue, Queued

LEMMA DeliveredQueue ==
  ASSUME NEW q, IsQueue(q), NEW j, NEW a
  PROVE  IsQueue(Delivered(q, j, a)) /\ Delivered(q, j, a).valid = q.valid
BY DEF IsQueue, Delivered

\* A removed queue is a slot that is not in use and keeps no message.
LEMMA ReleasedQueue ==
  ASSUME NEW q, IsQueue(q)
  PROVE  /\ IsQueue(Released(q))
         /\ Released(q).valid = FALSE /\ Released(q).items = <<>>
BY DEF IsQueue, Released

(***************************************************************************)
(* What a step has to keep: slots stay slots, a slot in use goes on being  *)
(* used unless nobody waits on it, and a new waiter or a new retry is on a *)
(* slot.                                                                   *)
(***************************************************************************)
LEMMA QueueStepKeepsMsgInv ==
  ASSUME MsgInv, WaitInv',
         target' \in [Tracees -> Nat], args' \in [Tracees -> RecvArgs \cup {NoArgs}],
         QueuesSeq',
         Slots \subseteq Slots',
         \A i \in Slots' : \/ i \in Slots /\ queues'[i] = queues[i]
                           \/ /\ IsQueue(queues'[i])
                              /\ ~queues'[i].valid => queues'[i].items = <<>>,
         \A i \in Slots : queues[i].valid =>
            queues'[i].valid \/ \A t \in Tracees : reason'[t] = "queue_recv" => target'[t] # i,
         \A t \in Tracees : reason'[t] = "queue_recv" =>
            \/ reason[t] = "queue_recv" /\ target'[t] = target[t]
            \/ target'[t] \in Slots' /\ queues'[target'[t]].valid,
         \A t \in Tracees : retry'[t] =>
            \/ retry[t] /\ target'[t] = target[t] /\ status'[t] = status[t]
            \/ target'[t] \in Slots' /\ status'[t] = "EAGAIN"
  PROVE  MsgInv'
<1>1. QueuesOK'
  BY DEF MsgInv, QueuesOK, Slots
<1>2. ReceiversHaveQueue'
  <2>1. \A t \in Tracees : reason'[t] = "queue_recv" =>
          target'[t] \in Slots' /\ queues'[target'[t]].valid
    BY DEF MsgInv, ReceiversHaveQueue
  <2>2. \A t \in Tracees : retry'[t] => target'[t] \in Slots' /\ status'[t] = "EAGAIN"
    BY DEF MsgInv, ReceiversHaveQueue
  <2>3. \A i \in Slots' : ~queues'[i].valid => queues'[i].items = <<>>
    BY DEF MsgInv, ReceiversHaveQueue
  <2> QED
    BY <2>1, <2>2, <2>3 DEF ReceiversHaveQueue
<1> QED
  BY <1>1, <1>2 DEF MsgInv

--------------------------------------------------------------------------------
(* The actions *)

\* A call adds no waiter but its caller, and no retry but of those it wakes.
LEMMA CallWaiters ==
  ASSUME WaitInv, NEW t \in Tracees, NEW path \in EntryPaths, NEW why \in Reasons \cup {"none"},
         NEW r, NEW W \in SUBSET Waiters, NEW s, NEW again \in BOOLEAN,
         SyscallCommon(t, path, why, r, W, s, again)
  PROVE  \A u \in Tracees :
           /\ reason'[u] = "queue_recv" =>
                 \/ u = t /\ why = "queue_recv"
                 \/ u # t /\ u \notin W /\ reason[u] = "queue_recv"
           /\ retry'[u] => \/ u # t /\ retry[u] /\ status'[u] = status[u]
                           \/ u \in W /\ again /\ status'[u] = s
<1> SUFFICES ASSUME NEW u \in Tracees
             PROVE  /\ reason'[u] = "queue_recv" =>
                          \/ u = t /\ why = "queue_recv"
                          \/ u # t /\ u \notin W /\ reason[u] = "queue_recv"
                    /\ retry'[u] => \/ u # t /\ retry[u] /\ status'[u] = status[u]
                                    \/ u \in W /\ again /\ status'[u] = s
  OBVIOUS
<1>1. u \in W => reason[u] # "none"
  BY DEF Waiters
<1>2. t \notin W
  BY WaitAssumption DEF Waiters, WaitInv, WaitConsistent, SyscallCommon
<1>3. retry[u] => u # t /\ u \notin W
  BY <1>1 DEF WaitInv, WaitConsistent, SyscallCommon
<1> QED
  BY <1>2, <1>3 DEF SyscallCommon

\* The other events add none; those that end a call leave none of its tracee.
LEMMA StopWaiters ==
  ASSUME WaitInv, NEW t \in Tracees,
         \/ EnterPpoll(t) \/ SigstopInterrupts(t) \/ SignalInterrupts(t) \/ Kill(t)
         \/ \E r : Resume(t, r)
         \/ Interrupted(t) \/ Reap(t)
  PROVE  /\ \A u \in Tracees : /\ reason'[u] = "queue_recv" => reason[u] = "queue_recv"
                               /\ retry'[u] => retry[u] /\ status'[u] = status[u]
         /\ (\E r : Resume(t, r)) \/ Interrupted(t) \/ Reap(t) =>
              reason'[t] = "none" /\ ~retry'[t]
<1> USE DEF WaitInv, WaitTypeOK
<1>1. CASE EnterPpoll(t) \/ SigstopInterrupts(t) \/ SignalInterrupts(t) \/ Kill(t)
  <2>1. UNCHANGED <<reason, retry, status>>
    BY <1>1 DEF EnterPpoll, SigstopInterrupts, SignalInterrupts, Kill
  <2>2. ~(\E r : Resume(t, r)) /\ ~Interrupted(t) /\ ~Reap(t)
    BY <1>1 DEF EnterPpoll, SigstopInterrupts, SignalInterrupts, Kill, Resume, Interrupted, Reap, Alive
  <2> QED
    BY <2>1, <2>2
<1>2. CASE \E r : Resume(t, r)
  <2>1. reason[t] = "none"
    BY <1>2 DEF Resume, AtResult, WaitConsistent
  <2> QED
    BY <1>2, <2>1 DEF Resume
<1>3. CASE Interrupted(t)
  <2>1. ~retry[t]
    BY <1>3 DEF Interrupted, WaitConsistent
  <2> QED
    BY <1>3, <2>1 DEF Interrupted
<1>4. CASE Reap(t)
  BY <1>4 DEF Reap
<1> QED
  BY <1>1, <1>2, <1>3, <1>4

\* Calls that wake nobody and leave target and args alone.
LEMMA PlainCallKeepsMsgInv ==
  ASSUME MsgInv, WaitInv', NEW t \in Tracees, NEW path \in EntryPaths, NEW r \in Results,
         Returns(t, path, r), target' = target, args' = args,
         QueuesSeq', Slots \subseteq Slots',
         \A i \in Slots' : \/ i \in Slots /\ queues'[i] = queues[i]
                           \/ /\ IsQueue(queues'[i])
                              /\ ~queues'[i].valid => queues'[i].items = <<>>,
         \A i \in Slots : queues[i].valid => queues'[i].valid
  PROVE  MsgInv'
<1>1. \A u \in Tracees : /\ reason'[u] = "queue_recv" => reason[u] = "queue_recv"
                         /\ retry'[u] => retry[u] /\ status'[u] = status[u]
  BY DEF Returns, SyscallCommon, MsgInv, WaitInv, WaitConsistent
<1>2. /\ target' \in [Tracees -> Nat] /\ args' \in [Tracees -> RecvArgs \cup {NoArgs}]
  BY DEF MsgInv
<1> QED
  BY <1>1, <1>2, QueueStepKeepsMsgInv

\* msgget takes a slot that is not in use, or adds one.
LEMMA MsggetKeepsMsgInv ==
  ASSUME MsgInv, WaitInv', NEW t \in Tracees, NEW path \in EntryPaths, NEW key, NEW creat, NEW excl,
         Msgget(t, path, key, creat, excl)
  PROVE  MsgInv'
<1> USE MsgAssumption
<1> DEFINE fresh(gen) == [key |-> key, gen |-> gen, valid |-> TRUE,
                          items |-> <<>>, qnum |-> 0, cbytes |-> 0]
<1>1. PICK r \in Results : target' = target /\ args' = args /\ Returns(t, path, r)
  BY DEF Msgget
<1>2. CASE UNCHANGED queues
  BY <1>1, <1>2, PlainCallKeepsMsgInv DEF MsgInv, QueuesOK, QueuesSeq, Slots
<1>3. CASE \E i \in Slots : ~queues[i].valid /\ queues' = [queues EXCEPT ![i] = fresh(queues[i].gen)]
  <2>1. PICK i \in Slots : ~queues[i].valid /\ queues' = [queues EXCEPT ![i] = fresh(queues[i].gen)]
    BY <1>3
  <2>2. IsQueue(fresh(queues[i].gen)) /\ fresh(queues[i].gen).valid
    BY FreshQueue
  <2> HIDE DEF fresh
  <2>3. PICK S : queues \in Seq(S)
    BY DEF MsgInv, QueuesOK, QueuesSeq
  <2>4. QueuesSeq'
    <3>1. queues' \in Seq(S \cup {fresh(queues[i].gen)})
      BY <2>1, <2>3 DEF Slots
    <3> QED
      BY <3>1 DEF QueuesSeq
  <2>5. /\ Slots' = Slots
        /\ queues'[i] = fresh(queues[i].gen)
        /\ \A j \in Slots : j # i => queues'[j] = queues[j]
    BY <2>1, <2>3 DEF Slots
  <2>6. \A j \in Slots' : \/ j \in Slots /\ queues'[j] = queues[j]
                          \/ /\ IsQueue(queues'[j])
                             /\ ~queues'[j].valid => queues'[j].items = <<>>
    BY <2>2, <2>5
  <2>7. \A j \in Slots : queues[j].valid => queues'[j].valid
    BY <2>2, <2>5
  <2> QED
    BY <1>1, <2>4, <2>5, <2>6, <2>7, PlainCallKeepsMsgInv
<1>4. CASE queues' = Append(queues, fresh(0))
  <2>1. IsQueue(fresh(0)) /\ fresh(0).valid
    BY FreshQueue
  <2> HIDE DEF fresh
  <2>3. PICK S : queues \in Seq(S)
    BY DEF MsgInv, QueuesOK, QueuesSeq
  <2>4. QueuesSeq'
    <3>1. queues' \in Seq(S \cup {fresh(0)})
      BY <1>4, <2>3
    <3> QED
      BY <3>1 DEF QueuesSeq
  <2>5. /\ Slots \subseteq Slots'
        /\ \A j \in Slots' : IF j \in Slots THEN queues'[j] = queues[j] ELSE queues'[j] = fresh(0)
    BY <1>4, <2>3 DEF Slots
  <2>6. \A j \in Slots' : \/ j \in Slots /\ queues'[j] = queues[j]
                          \/ /\ IsQueue(queues'[j])
                             /\ ~queues'[j].valid => queues'[j].items = <<>>
    BY <2>1, <2>5
  <2>7. \A j \in Slots : queues[j].valid => queues'[j].valid
    BY <2>5
  <2> QED
    BY <1>1, <2>4, <2>5, <2>6, <2>7, PlainCallKeepsMsgInv
<1> QED
  BY <1>2, <1>3, <1>4 DEF Msgget

\* The step changes at most queues in use, and leaves them in use.
QueuesKept ==
  /\ QueuesSeq'
  /\ Slots' = Slots
  /\ \A j \in Slots : \/ queues'[j] = queues[j]
                      \/ IsQueue(queues'[j]) /\ queues'[j].valid

\* Replacing one queue leaves the others where they are.
LEMMA QueueReplaced ==
  ASSUME QueuesOK, NEW i \in Slots, NEW q, queues' = [queues EXCEPT ![i] = q]
  PROVE  /\ QueuesSeq'
         /\ Slots' = Slots
         /\ queues'[i] = q
         /\ \A j \in Slots : j # i => queues'[j] = queues[j]
<1>1. PICK S : queues \in Seq(S)
  BY DEF QueuesOK, QueuesSeq
<1>2. queues' \in Seq(S \cup {q})
  BY <1>1 DEF Slots
<1> QED
  BY <1>1, <1>2 DEF Slots, QueuesSeq

\* sysvipc_do_msgrcv takes at most one message out of the queue it looks at.
LEMMA ReceivingKeepsQueues ==
  ASSUME QueuesOK, NEW i \in Slots, queues[i].valid, NEW a,
         (\E r : Receives(i, a, r)) \/ FindsNone(i, a)
  PROVE  QueuesKept
<1>1. CASE queues' = queues
  <2>1. Slots' = Slots /\ QueuesSeq'
    BY <1>1 DEF QueuesOK, QueuesSeq, Slots
  <2> QED
    BY <1>1, <2>1 DEF QueuesKept
<1>2. ASSUME NEW j, queues' = [queues EXCEPT ![i] = Delivered(queues[i], j, a)]
      PROVE  QueuesKept
  <2>1. IsQueue(Delivered(queues[i], j, a)) /\ Delivered(queues[i], j, a).valid
    BY DeliveredQueue DEF QueuesOK
  <2>2. /\ QueuesSeq'
        /\ Slots' = Slots
        /\ queues'[i] = Delivered(queues[i], j, a)
        /\ \A k \in Slots : k # i => queues'[k] = queues[k]
    BY <1>2, QueueReplaced, Zenon
  <2> QED
    BY <2>1, <2>2 DEF QueuesKept
<1> QED
  BY <1>1, <1>2 DEF Receives, FindsNone

\* msgsnd queues its message and wakes at most one receiver for a retry.
LEMMA MsgsndKeepsMsgInv ==
  ASSUME MsgInv, WaitInv', NEW t \in Tracees, NEW path \in EntryPaths,
         NEW i \in Slots, NEW kind, Msgsnd(t, path, i, kind)
  PROVE  MsgInv'
<1>1. PICK W \in SUBSET ReceiversOf(i) : SyscallCommon(t, path, "none", "ok", W, "EAGAIN", TRUE)
  BY DEF Msgsnd
<1>2. /\ W \subseteq Waiters
      /\ \A u \in W : target[u] \in Slots
  BY DEF ReceiversOf
<1>3. UNCHANGED <<target, args>> /\ queues[i].valid
  BY DEF Msgsnd
<1>4. PICK q : IsQueue(q) /\ q.valid /\ queues' = [queues EXCEPT ![i] = q]
  <2> DEFINE msg == [num |-> sent + 1, type |-> kind.type, size |-> kind.size]
  <2>1. IsQueue(Queued(queues[i], msg)) /\ Queued(queues[i], msg).valid
    BY <1>3, QueuedQueue DEF MsgInv, QueuesOK
  <2> QED
    BY <2>1 DEF Msgsnd
<1>5. QueuesKept
  <2>1. /\ QueuesSeq'
        /\ Slots' = Slots
        /\ queues'[i] = q
        /\ \A k \in Slots : k # i => queues'[k] = queues[k]
    BY <1>4, QueueReplaced, Zenon DEF MsgInv
  <2> QED
    BY <1>4, <2>1 DEF QueuesKept
<1>6. \A u \in Tracees : reason'[u] = "queue_recv" => reason[u] = "queue_recv"
  BY <1>1, <1>2 DEF SyscallCommon, Waiters, MsgInv, WaitInv, WaitConsistent
<1>7. \A u \in Tracees : retry'[u] =>
        \/ retry[u] /\ status'[u] = status[u]
        \/ target[u] \in Slots /\ status'[u] = "EAGAIN"
  BY <1>1, <1>2 DEF SyscallCommon, Waiters, MsgInv, WaitInv, WaitConsistent
<1>8. target' \in [Tracees -> Nat] /\ args' \in [Tracees -> RecvArgs \cup {NoArgs}]
  BY <1>3 DEF MsgInv
<1> QED
  BY <1>3, <1>5, <1>6, <1>7, <1>8, QueueStepKeepsMsgInv DEF QueuesKept

\* msgrcv receives, fails, or waits on a queue in use.
LEMMA MsgrcvKeepsMsgInv ==
  ASSUME MsgInv, WaitInv', NEW t \in Tracees, NEW path \in EntryPaths,
         NEW i \in Slots, NEW a \in RecvArgs, Msgrcv(t, path, i, a)
  PROVE  MsgInv'
<1> USE MsgAssumption
<1>1. queues[i].valid /\ QueuesKept
  BY ReceivingKeepsQueues DEF Msgrcv, MsgInv
<1>2. CASE \E r \in Results : Returns(t, path, r) /\ UNCHANGED <<target, args>>
  <2>1. PICK r \in Results : Returns(t, path, r)
    BY <1>2
  <2>2. target' = target /\ args' = args
    BY <1>2
  <2>3. /\ Slots \subseteq Slots'
        /\ \A j \in Slots' : \/ j \in Slots /\ queues'[j] = queues[j]
                             \/ /\ IsQueue(queues'[j])
                                /\ ~queues'[j].valid => queues'[j].items = <<>>
        /\ \A j \in Slots : queues[j].valid => queues'[j].valid
        /\ QueuesSeq'
    BY <1>1 DEF QueuesKept
  <2> QED
    BY <2>1, <2>2, <2>3, PlainCallKeepsMsgInv
<1>3. CASE /\ Blocks(t, path, "queue_recv")
           /\ target' = [target EXCEPT ![t] = i] /\ args' = [args EXCEPT ![t] = a]
  <2>1. /\ target' \in [Tracees -> Nat] /\ args' \in [Tracees -> RecvArgs \cup {NoArgs}]
        /\ target'[t] = i
        /\ \A u \in Tracees : u # t => target'[u] = target[u]
    <3>1. i \in Nat
      BY DEF MsgInv, QueuesOK, QueuesSeq, Slots
    <3> QED
      BY <1>3, <3>1 DEF MsgInv
  <2>2. \A u \in Tracees : reason'[u] = "queue_recv" => u = t \/ reason[u] = "queue_recv"
    BY <1>3 DEF Blocks, SyscallCommon, MsgInv, WaitInv, WaitConsistent
  <2>3. \A u \in Tracees : retry'[u] => u # t /\ retry[u] /\ status'[u] = status[u]
    BY <1>3 DEF Blocks, SyscallCommon, MsgInv, WaitInv, WaitConsistent
  <2>4. \A u \in Tracees : reason'[u] = "queue_recv" =>
          \/ reason[u] = "queue_recv" /\ target'[u] = target[u]
          \/ target'[u] \in Slots' /\ queues'[target'[u]].valid
    BY <1>1, <2>1, <2>2 DEF QueuesKept
  <2> QED
    BY <1>1, <2>1, <2>3, <2>4, QueueStepKeepsMsgInv DEF QueuesKept
<1> QED
  BY <1>2, <1>3 DEF Msgrcv

\* msgctl(IPC_RMID) wakes every receiver of the queue it removes.
LEMMA MsgctlRmidKeepsMsgInv ==
  ASSUME MsgInv, WaitInv', NEW t \in Tracees, NEW path \in EntryPaths,
         NEW i \in Slots, MsgctlRmid(t, path, i)
  PROVE  MsgInv'
<1>1. UNCHANGED <<target, args>>
  BY DEF MsgctlRmid
<1>2. PICK q : IsQueue(q) /\ q.items = <<>> /\ queues' = [queues EXCEPT ![i] = q]
  <2>1. IsQueue(Released(queues[i])) /\ Released(queues[i]).items = <<>>
    BY ReleasedQueue DEF MsgInv, QueuesOK
  <2> QED
    BY <2>1 DEF MsgctlRmid
<1>3. /\ QueuesSeq'
      /\ Slots' = Slots
      /\ queues'[i] = q
      /\ \A j \in Slots : j # i => queues'[j] = queues[j]
  BY <1>2, QueueReplaced, Zenon DEF MsgInv
<1>4. \A u \in Tracees : reason'[u] = "queue_recv" => reason[u] = "queue_recv" /\ target[u] # i
  BY DEF MsgctlRmid, SyscallCommon, ReceiversOf, Waiters
<1>5. \A u \in Tracees : retry'[u] => retry[u] /\ status'[u] = status[u]
  <2>1. \A u \in Tracees : retry'[u] => retry[u] /\ u # t /\ u \notin ReceiversOf(i)
    BY DEF MsgctlRmid, SyscallCommon, ReceiversOf, Waiters, MsgInv, WaitInv, WaitConsistent
  <2> QED
    BY <2>1 DEF MsgctlRmid, SyscallCommon
<1>6. target' \in [Tracees -> Nat] /\ args' \in [Tracees -> RecvArgs \cup {NoArgs}]
  BY <1>1 DEF MsgInv
<1> QED
  BY <1>1, <1>2, <1>3, <1>4, <1>5, <1>6, QueueStepKeepsMsgInv

\* A step that leaves the queues alone and adds no waiter and no retry.
LEMMA QuietStepKeepsMsgInv ==
  ASSUME MsgInv, WaitInv', UNCHANGED <<queues, target, args>>,
         \A u \in Tracees : /\ reason'[u] = "queue_recv" => reason[u] = "queue_recv"
                            /\ retry'[u] => retry[u] /\ status'[u] = status[u]
  PROVE  MsgInv'
BY DEF MsgInv, QueuesOK, QueuesSeq, Slots, ReceiversHaveQueue

\* The end of a call, retried or not, or of its tracee.
LEMMA EndKeepsMsgInv ==
  ASSUME MsgInv, WaitInv', NEW t \in Tracees, Forget(t), QueuesKept,
         (\E r : Resume(t, r)) \/ Interrupted(t) \/ Reap(t)
  PROVE  MsgInv'
<1>1. /\ \A u \in Tracees : /\ reason'[u] = "queue_recv" => reason[u] = "queue_recv"
                            /\ retry'[u] => retry[u] /\ status'[u] = status[u]
      /\ reason'[t] = "none" /\ ~retry'[t]
  BY StopWaiters DEF MsgInv
<1>2. /\ target' \in [Tracees -> Nat] /\ args' \in [Tracees -> RecvArgs \cup {NoArgs}]
      /\ \A u \in Tracees : u # t => target'[u] = target[u]
  BY DEF MsgInv, Forget
<1> QED
  BY <1>1, <1>2, QueueStepKeepsMsgInv DEF QueuesKept

--------------------------------------------------------------------------------
(* The theorems *)

LEMMA MsgStopKeepsMsgInv ==
  ASSUME MsgInv, WaitInv', NEW t \in Tracees, MsgStop(t)
  PROVE  MsgInv'
<1>1. CASE MsgrcvRetry(t)
  <2>1. Forget(t) /\ \E r : Resume(t, r)
    BY <1>1 DEF MsgrcvRetry
  <2>2. target[t] \in Slots /\ queues[target[t]].valid
    BY <1>1 DEF MsgrcvRetry, MsgInv, ReceiversHaveQueue
  <2>3. (\E r : Receives(target[t], args[t], r)) \/ FindsNone(target[t], args[t])
    BY <1>1 DEF MsgrcvRetry
  <2>4. QueuesKept
    BY <2>2, <2>3, ReceivingKeepsQueues DEF MsgInv
  <2> QED
    BY <2>1, <2>4, EndKeepsMsgInv
<1>2. CASE MsgrcvRetryCrashes(t)
  BY <1>2, QuietStepKeepsMsgInv DEF MsgrcvRetryCrashes, waitVars
<1>3. CASE MsgEnds(t)
  <2>1. QueuesKept
    BY <1>3 DEF MsgEnds, QueuesKept, MsgInv, QueuesOK, QueuesSeq, Slots
  <2> QED
    BY <1>3, <2>1, EndKeepsMsgInv DEF MsgEnds
<1>4. CASE EnterPpoll(t) /\ UNCHANGED msgVars
  BY <1>4, StopWaiters, QuietStepKeepsMsgInv DEF msgVars, MsgInv
<1> QED
  BY <1>1, <1>2, <1>3, <1>4 DEF MsgStop

\* Every step of PRoot, of the kernel and of the tracees keeps it.
LEMMA MsgStepKeepsMsgInv == MsgInv /\ [MsgNext]_vars => MsgInv'
<1> SUFFICES ASSUME MsgInv, [MsgNext]_vars
             PROVE  MsgInv'
  OBVIOUS
<1>1. WaitInv'
  BY MsgStepIsWaitStep, WaitStepKeepsWaitInv DEF MsgInv
<1>2. CASE UNCHANGED vars
  BY <1>1, <1>2, QuietStepKeepsMsgInv DEF vars, msgVars, waitVars
<1>3. ASSUME NEW t \in Tracees, NEW path \in EntryPaths, MsgCallChangesNothing(t, path)
      PROVE  MsgInv'
  <2>1. \A u \in Tracees : /\ reason'[u] = "queue_recv" => reason[u] = "queue_recv"
                           /\ retry'[u] => retry[u] /\ status'[u] = status[u]
    BY <1>3 DEF MsgCallChangesNothing, Returns, SyscallCommon, MsgInv, WaitInv, WaitConsistent
  <2> QED
    BY <1>1, <1>3, <2>1, QuietStepKeepsMsgInv DEF MsgCallChangesNothing, msgVars
<1>4. ASSUME NEW t \in Tracees, MsgCall(t)
      PROVE  MsgInv'
  BY <1>1, <1>3, <1>4, MsggetKeepsMsgInv, MsgsndKeepsMsgInv, MsgrcvKeepsMsgInv,
     MsgctlRmidKeepsMsgInv DEF MsgCall
<1>5. ASSUME NEW t \in Tracees, UNCHANGED msgVars,
             SigstopInterrupts(t) \/ SignalInterrupts(t) \/ Kill(t)
      PROVE  MsgInv'
  BY <1>1, <1>5, StopWaiters, QuietStepKeepsMsgInv DEF msgVars, MsgInv
<1> QED
  BY <1>1, <1>2, <1>4, <1>5, MsgStopKeepsMsgInv DEF MsgNext

\* Before any call there is no queue, no waiter and no retry.
LEMMA MsgInitInv == MsgInit => MsgInv
<1> SUFFICES ASSUME MsgInit
             PROVE  MsgInv
  OBVIOUS
<1>1. WaitInv
  BY WaitInitInv DEF MsgInit
<1>2. QueuesSeq /\ Slots = {}
  BY DEF MsgInit, QueuesSeq, Slots
<1> QED
  BY <1>1, <1>2 DEF MsgInit, WaitInit, MsgInv, QueuesOK, ReceiversHaveQueue

(***************************************************************************)
(* The asserts of the wait mechanism hold under queue calls, and a msgrcv  *)
(* that waits is on a queue in use: IPC_RMID wakes every receiver of the   *)
(* queue it removes, and a queue created in its slot starts empty.         *)
(***************************************************************************)
THEOREM MsgSafety == MsgSpec => [](WaitConsistent /\ ReceiversHaveQueue)
<1>1. MsgInv => WaitConsistent /\ ReceiversHaveQueue
  BY DEF MsgInv, WaitInv
<1> QED
  BY <1>1, MsgInitInv, MsgStepKeepsMsgInv, PTL DEF MsgSpec

(***************************************************************************)
(* The queue calls implement the wait mechanism: every step of             *)
(* sysvipc_msg.c, its retry included, is one that SysVIpcWait allows.      *)
(***************************************************************************)
THEOREM MsgImplementsWait == MsgSpec => WaitSpec
<1>1. MsgInit => WaitInit
  BY DEF MsgInit
<1>2. MsgInv /\ [MsgNext]_vars => [WaitNext]_waitVars
  BY MsgStepIsWaitStep DEF MsgInv
<1> QED
  BY <1>1, <1>2, MsgInitInv, MsgStepKeepsMsgInv, PTL DEF MsgSpec, WaitSpec

--------------------------------------------------------------------------------
(* No message is lost or received twice *)

Message == [num : Numbers, type : Nat, size : Nat]

ItemsOf(i) == queues[i].items

\* Message m is in slot i; it is in some slot.
Has(i, m) == \E j \in DOMAIN ItemsOf(i) : ItemsOf(i)[j].num = m
Held(m)   == \E i \in Slots : Has(i, m)

\* The items of a queue are in the order their messages were sent; item j is
\* at least the j-th of all messages, so that the bound on messages bounds queues.
InOrder(items) ==
  /\ items \in Seq(Message)
  /\ \A j \in DOMAIN items : j <= items[j].num /\ items[j].num <= sent
  /\ \A j, k \in DOMAIN items : j < k => items[j].num < items[k].num

\* No message is in two queues.
InOneQueue == \A i, i2 \in Slots : \A m : Has(i, m) /\ Has(i2, m) => i = i2

\* Where a message is: not sent yet, queued, received or destroyed.
Accounted(m) ==
  /\ m > sent => taken[m] = 0 /\ m \notin destroyed
  /\ m <= sent =>
       \/ taken[m] = 0 /\ m \notin destroyed /\ Held(m)
       \/ taken[m] = 1 /\ m \notin destroyed /\ ~Held(m)
       \/ taken[m] = 0 /\ m \in destroyed /\ ~Held(m)

Whereabouts == \A m \in Numbers : Accounted(m)

\* The inductive invariant of the messages.
ConservedInv ==
  /\ MsgInv
  /\ sent \in 0 .. MaxMsgs
  /\ taken \in [Numbers -> Nat]
  /\ destroyed \subseteq Numbers
  /\ \A i \in Slots : InOrder(ItemsOf(i))
  /\ InOneQueue
  /\ Whereabouts

\* What is left of a sequence when its item j is taken out.
LEMMA WithoutItem ==
  ASSUME NEW S, NEW s \in Seq(S), NEW j \in DOMAIN s
  PROVE  LET r == SubSeq(s, 1, j - 1) \o SubSeq(s, j + 1, Len(s))
         IN  /\ r \in Seq(S)
             /\ DOMAIN r = 1 .. (Len(s) - 1)
             /\ \A k \in DOMAIN r : r[k] = s[IF k < j THEN k ELSE k + 1]
<1> DEFINE a == SubSeq(s, 1, j - 1)
           b == SubSeq(s, j + 1, Len(s))
<1>1. j \in 1 .. Len(s) /\ Len(s) \in Nat
  OBVIOUS
<1>2. /\ a \in Seq(S) /\ Len(a) = j - 1
      /\ \A k \in 1 .. (j - 1) : a[k] = s[k]
  BY <1>1
<1>3. /\ b \in Seq(S) /\ Len(b) = Len(s) - j
      /\ \A k \in 1 .. (Len(s) - j) : b[k] = s[k + j]
  BY <1>1
<1> HIDE DEF a, b
<1>4. /\ a \o b \in Seq(S) /\ Len(a \o b) = Len(s) - 1
      /\ \A k \in 1 .. (Len(s) - 1) : (a \o b)[k] = IF k < j THEN a[k] ELSE b[k - j + 1]
  BY <1>1, <1>2, <1>3
<1>5. ASSUME NEW k \in 1 .. (Len(s) - 1)
      PROVE  (a \o b)[k] = s[IF k < j THEN k ELSE k + 1]
  <2>1. CASE k < j
    BY <2>1, <1>1, <1>2, <1>4
  <2>2. CASE ~(k < j)
    <3>1. k - j + 1 \in 1 .. (Len(s) - j) /\ (k - j + 1) + j = k + 1
      BY <2>2, <1>1
    <3> QED
      BY <2>2, <3>1, <1>3, <1>4
  <2> QED
    BY <2>1, <2>2
<1>6. DOMAIN (a \o b) = 1 .. (Len(s) - 1)
  BY <1>4
<1> QED
  BY <1>4, <1>5, <1>6 DEF a, b

\* The queued messages are places of the model: at most one each.
LEMMA ConservedIsCounted == ConservedInv => MessagesConserved
<1> SUFFICES ASSUME ConservedInv, NEW m \in 1 .. sent
             PROVE  Cardinality(PlacesOf(m)) + taken[m] + (IF m \in destroyed THEN 1 ELSE 0) = 1
  BY DEF MessagesConserved
<1> USE MsgAssumption
<1>1. m \in Numbers /\ m <= sent
  BY DEF ConservedInv, Numbers
<1> DEFINE Holds(i, j) == i \in Slots /\ j \in DOMAIN ItemsOf(i) /\ ItemsOf(i)[j].num = m
<1>2. PlacesOf(m) = {p \in Slots \X Numbers : Holds(p[1], p[2])}
  BY DEF PlacesOf, ItemsOf
<1>3. CASE Held(m)
  <2>1. PICK i, j : Holds(i, j)
    BY <1>3 DEF Held, Has
  <2>2. i \in Slots /\ j \in DOMAIN ItemsOf(i) /\ ItemsOf(i)[j].num = m /\ InOrder(ItemsOf(i))
    BY <2>1 DEF ConservedInv
  <2>3. j \in Numbers
    <3>1. j \in Nat /\ 1 <= j
      BY <2>2 DEF InOrder
    <3> QED
      BY <2>2, <3>1, <1>1 DEF InOrder, Numbers
  <2>4. ASSUME NEW p \in PlacesOf(m)
        PROVE  p = <<i, j>>
    <3>1. p \in Slots \X Numbers /\ Holds(p[1], p[2])
      BY <1>2, <2>4
    <3>2. p[1] \in Slots /\ p[2] \in DOMAIN ItemsOf(p[1]) /\ ItemsOf(p[1])[p[2]].num = m
      BY <3>1
    <3>3. p[1] = i
      BY <2>2, <3>2 DEF ConservedInv, InOneQueue, Has
    <3>4. p[2] \in DOMAIN ItemsOf(i) /\ ItemsOf(i)[p[2]].num = m
      BY <3>2, <3>3
    <3>5. p[2] \in Nat /\ j \in Nat /\ m \in Nat
      BY <2>3, <3>1, <1>1 DEF Numbers
    <3>6. p[2] = j
      BY <2>2, <3>4, <3>5 DEF InOrder
    <3> QED
      BY <3>1, <3>3, <3>6
  <2>5. <<i, j>> \in PlacesOf(m)
    BY <1>2, <2>1, <2>2, <2>3
  <2>6. PlacesOf(m) = {<<i, j>>}
    BY <2>4, <2>5
  <2>7. Cardinality(PlacesOf(m)) = 1
    BY <2>6, FS_Singleton
  <2> QED
    BY <1>1, <1>3, <2>7 DEF ConservedInv, Whereabouts, Accounted
<1>4. CASE ~Held(m)
  <2>1. PlacesOf(m) = {}
    BY <1>2, <1>4 DEF Held, Has
  <2>2. Cardinality(PlacesOf(m)) = 0
    BY <2>1, FS_EmptySet
  <2> QED
    BY <1>1, <1>4, <2>2 DEF ConservedInv, Whereabouts, Accounted
<1> QED
  BY <1>3, <1>4

\* A step that moves no message: the slots it adds, if any, are empty.
LEMMA SameMessages ==
  ASSUME ConservedInv, MsgInv', UNCHANGED <<sent, taken, destroyed>>, Slots \subseteq Slots',
         \A i \in Slots' : \/ i \in Slots /\ ItemsOf(i)' = ItemsOf(i)
                           \/ ItemsOf(i)' = <<>> /\ (i \in Slots => ItemsOf(i) = <<>>)
  PROVE  ConservedInv'
<1>1. \A i \in Slots' : InOrder(ItemsOf(i))'
  <2>1. ASSUME NEW i \in Slots', ItemsOf(i)' = <<>>
        PROVE  InOrder(ItemsOf(i))'
    BY <2>1 DEF InOrder
  <2>2. ASSUME NEW i \in Slots', i \in Slots, ItemsOf(i)' = ItemsOf(i)
        PROVE  InOrder(ItemsOf(i))'
    BY <2>2 DEF InOrder, ConservedInv
  <2> QED
    BY <2>1, <2>2
<1>2. ASSUME NEW i, NEW m
      PROVE  (i \in Slots' /\ Has(i, m)') <=> (i \in Slots /\ Has(i, m))
  <2>1. DOMAIN <<>> = {}
    OBVIOUS
  <2> QED
    BY <2>1 DEF Has
<1>3. InOneQueue'
  BY <1>2 DEF InOneQueue, ConservedInv
<1>4. \A m : Held(m)' <=> Held(m)
  BY <1>2 DEF Held
<1>5. Whereabouts'
  BY <1>4 DEF Whereabouts, Accounted, ConservedInv
<1> QED
  BY <1>1, <1>3, <1>5 DEF ConservedInv

\* A queue loses its item j: its message is the only one whose place is lost.
LEMMA PlaceLost ==
  ASSUME ConservedInv, NEW i \in Slots, NEW j \in DOMAIN ItemsOf(i), sent' = sent,
         Slots' = Slots,
         ItemsOf(i)' = SubSeq(ItemsOf(i), 1, j - 1) \o SubSeq(ItemsOf(i), j + 1, Len(ItemsOf(i))),
         \A k \in Slots : k # i => ItemsOf(k)' = ItemsOf(k)
  PROVE  /\ \A k \in Slots : InOrder(ItemsOf(k))'
         /\ InOneQueue'
         /\ \A m : Held(m)' <=> (Held(m) /\ m # ItemsOf(i)[j].num)
<1> DEFINE s    == ItemsOf(i)
           r    == ItemsOf(i)'
           n    == s[j].num
           K(k) == IF k < j THEN k ELSE k + 1
<1>1. InOrder(s) /\ s \in Seq(Message) /\ DOMAIN s = 1 .. Len(s) /\ Len(s) \in Nat /\ j \in 1 .. Len(s)
  BY DEF ConservedInv, InOrder
<1>2. /\ r \in Seq(Message)
      /\ DOMAIN r = 1 .. (Len(s) - 1)
      /\ \A k \in DOMAIN r : r[k] = s[K(k)]
  BY <1>1, WithoutItem
<1>3. \A k \in 1 .. Len(s) : s[k].num \in Nat
  <2>1. \A k \in 1 .. Len(s) : s[k] \in Message
    BY <1>1
  <2>2. \A x \in Message : x.num \in Nat
    BY DEF Message, Numbers
  <2> QED
    BY <2>1, <2>2
<1>4. \A k, l \in 1 .. Len(s) : k < l => s[k].num < s[l].num
  BY <1>1 DEF InOrder
<1>5. \A k \in 1 .. Len(s) : k <= s[k].num /\ s[k].num <= sent
  BY <1>1 DEF InOrder
<1>6. \A k \in DOMAIN r : K(k) \in 1 .. Len(s) /\ k <= K(k) /\ K(k) # j
  BY <1>1, <1>2
<1>7. \A k, l \in DOMAIN r : k < l => K(k) < K(l)
  BY <1>1, <1>2
<1>8. ASSUME NEW k \in 1 .. Len(s), k # j
      PROVE  \E l \in DOMAIN r : K(l) = k
  <2>1. CASE k < j
    <3>1. k \in DOMAIN r /\ K(k) = k
      BY <2>1, <1>1, <1>2
    <3> QED
      BY <3>1
  <2>2. CASE j < k
    <3>1. k - 1 \in DOMAIN r /\ K(k - 1) = k
      BY <2>2, <1>1, <1>2
    <3> QED
      BY <3>1
  <2> QED
    BY <2>1, <2>2, <1>1, <1>8
<1>9. \A k \in 1 .. Len(s) : k # j => s[k].num # n
  <2>1. ASSUME NEW k \in 1 .. Len(s), k # j
        PROVE  s[k].num # n
    <3>1. k < j \/ j < k
      BY <2>1, <1>1
    <3> QED
      BY <3>1, <1>1, <1>3, <1>4
  <2> QED
    BY <2>1
<1> HIDE DEF K
<1>10. InOrder(ItemsOf(i))'
  <2>1. ASSUME NEW k \in DOMAIN r
        PROVE  k <= r[k].num /\ r[k].num <= sent
    <3>1. r[k] = s[K(k)] /\ K(k) \in 1 .. Len(s) /\ k <= K(k) /\ k \in Nat
      BY <1>2, <1>6
    <3>2. K(k) <= s[K(k)].num /\ s[K(k)].num <= sent /\ s[K(k)].num \in Nat
      BY <3>1, <1>3, <1>5
    <3>3. K(k) \in Nat
      BY <3>1, <1>1
    <3>4. k <= s[K(k)].num
      BY <3>1, <3>2, <3>3
    <3> QED
      BY <3>1, <3>2, <3>4
  <2>2. \A k, l \in DOMAIN r : k < l => r[k].num < r[l].num
    BY <1>2, <1>4, <1>6, <1>7
  <2> QED
    BY <1>2, <2>1, <2>2 DEF InOrder
<1>11. \A k \in Slots : InOrder(ItemsOf(k))'
  <2>1. \A k \in Slots : k # i => InOrder(ItemsOf(k))'
    BY DEF ConservedInv, InOrder
  <2> QED
    BY <1>10, <2>1
<1>12. ASSUME NEW m
       PROVE  Has(i, m)' <=> (Has(i, m) /\ m # n)
  <2>1. \A l \in DOMAIN r : K(l) \in DOMAIN s /\ r[l].num = s[K(l)].num /\ s[K(l)].num # n
    BY <1>1, <1>2, <1>6, <1>9
  <2>2. \A k \in DOMAIN s : k # j => \E l \in DOMAIN r : r[l].num = s[k].num
    BY <1>1, <1>2, <1>8
  <2>3. Has(i, m)' <=> \E l \in DOMAIN r : r[l].num = m
    BY DEF Has
  <2>4. Has(i, m) <=> \E l \in DOMAIN s : s[l].num = m
    BY DEF Has
  <2> HIDE DEF s, r
  <2>5. ASSUME NEW l \in DOMAIN r, r[l].num = m
        PROVE  Has(i, m) /\ m # n
    <3>1. K(l) \in DOMAIN s /\ m = s[K(l)].num /\ m # n
      BY <2>1, <2>5
    <3> QED
      BY <2>4, <3>1
  <2>6. ASSUME NEW k \in DOMAIN s, s[k].num = m, m # n
        PROVE  Has(i, m)'
    <3>1. PICK l \in DOMAIN r : r[l].num = s[k].num
      BY <2>2, <2>6
    <3> QED
      BY <2>3, <2>6, <3>1
  <2> QED
    BY <2>3, <2>4, <2>5, <2>6
<1>13. Has(i, n)
  BY DEF Has
<1> HIDE DEF s, r, n
<1>14. ASSUME NEW k \in Slots, NEW m
       PROVE  Has(k, m)' <=> (Has(k, m) /\ m # n)
  <2>1. CASE k = i
    BY <1>12, <2>1
  <2>2. CASE k # i
    <3>1. Has(k, m)' <=> Has(k, m)
      BY <2>2 DEF Has
    <3>2. ~Has(k, n)
      BY <1>13, <2>2 DEF ConservedInv, InOneQueue
    <3> QED
      BY <3>1, <3>2
  <2> QED
    BY <2>1, <2>2
<1>15. InOneQueue'
  BY <1>14 DEF InOneQueue, ConservedInv
<1>16. n = ItemsOf(i)[j].num
  BY DEF s, n
<1>17. \A m : Held(m)' <=> (Held(m) /\ m # n)
  BY <1>14 DEF Held
<1> QED
  BY <1>11, <1>15, <1>16, <1>17

\* sysvipc_do_msgrcv: the message it takes has been received once.
LEMMA ReceivingConserves ==
  ASSUME ConservedInv, MsgInv', NEW i \in Slots, NEW a,
         (\E r : Receives(i, a, r)) \/ FindsNone(i, a), UNCHANGED <<sent, destroyed>>
  PROVE  ConservedInv'
<1>1. CASE UNCHANGED <<queues, taken>>
  BY <1>1, SameMessages DEF Slots, ItemsOf
<1>2. ASSUME NEW j \in Candidates(queues[i], a),
             queues' = [queues EXCEPT ![i] = Delivered(queues[i], j, a)],
             taken'  = IF a.copy THEN taken
                       ELSE [taken EXCEPT ![queues[i].items[j].num] = @ + 1]
      PROVE  ConservedInv'
  <2>1. /\ Slots' = Slots
        /\ queues'[i] = Delivered(queues[i], j, a)
        /\ \A k \in Slots : k # i => queues'[k] = queues[k]
    BY <1>2, QueueReplaced, Zenon DEF ConservedInv, MsgInv
  <2>2. \A k \in Slots : k # i => ItemsOf(k)' = ItemsOf(k)
    BY <2>1 DEF ItemsOf
  <2>3. CASE a.copy
    <3>1. ItemsOf(i)' = ItemsOf(i)
      BY <2>1, <2>3 DEF ItemsOf, Delivered
    <3>2. taken' = taken
      BY <1>2, <2>3
    <3> QED
      BY <2>1, <2>2, <3>1, <3>2, SameMessages
  <2>4. CASE ~a.copy
    <3>0. PICK n : n = ItemsOf(i)[j].num
      OBVIOUS
    <3>1. j \in DOMAIN ItemsOf(i)
      BY DEF Candidates, ItemsOf
    <3>2. ItemsOf(i)' = SubSeq(ItemsOf(i), 1, j - 1) \o SubSeq(ItemsOf(i), j + 1, Len(ItemsOf(i)))
      BY <2>1, <2>4 DEF ItemsOf, Delivered, ConservedInv, MsgInv, QueuesOK, IsQueue
    <3>3. /\ \A k \in Slots : InOrder(ItemsOf(k))'
          /\ InOneQueue'
          /\ \A m : Held(m)' <=> (Held(m) /\ m # n)
      BY <2>1, <2>2, <3>0, <3>1, <3>2, PlaceLost
    <3>4. n \in Numbers /\ n <= sent /\ Held(n)
      <4>1. InOrder(ItemsOf(i))
        BY DEF ConservedInv
      <4>2. n <= sent
        BY <3>0, <3>1, <4>1 DEF InOrder
      <4>3. ItemsOf(i)[j] \in Message
        BY <3>1, <4>1 DEF InOrder
      <4> QED
        BY <3>0, <3>1, <4>2, <4>3 DEF Message, Held, Has
    <3>5. taken' = [taken EXCEPT ![n] = @ + 1]
      BY <1>2, <2>4, <3>0 DEF ItemsOf
    <3>6. taken[n] = 0 /\ n \notin destroyed
      BY <3>4 DEF ConservedInv, Whereabouts, Accounted
    <3>7. /\ taken' \in [Numbers -> Nat]
          /\ taken'[n] = 1
          /\ \A m \in Numbers : m # n => taken'[m] = taken[m]
      BY <3>4, <3>5, <3>6 DEF ConservedInv
    <3>8. Whereabouts'
      <4>1. \A m : m # n => (Held(m)' <=> Held(m))
        BY <3>3
      <4>2. ASSUME NEW m \in Numbers, m # n
            PROVE  Accounted(m)'
        BY <3>7, <4>1, <4>2 DEF ConservedInv, Whereabouts, Accounted
      <4>3. Accounted(n)'
        <5>1. ~(n > sent)
          BY <3>4 DEF Numbers, ConservedInv
        <5>2. ~Held(n)'
          BY <3>3
        <5> QED
          BY <5>1, <5>2, <3>4, <3>6, <3>7 DEF Accounted
      <4> QED
        BY <4>2, <4>3 DEF Whereabouts
    <3> QED
      BY <2>1, <3>3, <3>7, <3>8 DEF ConservedInv
  <2> QED
    BY <2>3, <2>4
<1> QED
  BY <1>1, <1>2 DEF Receives, FindsNone

\* msgsnd: the new message is the last of its queue and in no other.
LEMMA SendingConserves ==
  ASSUME ConservedInv, MsgInv', NEW t, NEW path, NEW i \in Slots, NEW kind \in Kinds,
         Msgsnd(t, path, i, kind)
  PROVE  ConservedInv'
<1> USE MsgAssumption
<1>0. PICK n : n = sent + 1
  OBVIOUS
<1> DEFINE msg == [num |-> n, type |-> kind.type, size |-> kind.size]
           s   == ItemsOf(i)
<1>1. /\ Slots' = Slots
      /\ queues'[i] = Queued(queues[i], msg)
      /\ \A k \in Slots : k # i => queues'[k] = queues[k]
  <2>1. queues' = [queues EXCEPT ![i] = Queued(queues[i], msg)]
    BY <1>0 DEF Msgsnd
  <2> QED
    BY <2>1, QueueReplaced, Zenon DEF ConservedInv, MsgInv
<1>2. \A k \in Slots : k # i => ItemsOf(k)' = ItemsOf(k)
  BY <1>1 DEF ItemsOf
<1>3. ItemsOf(i)' = Append(s, msg)
  BY <1>1 DEF ItemsOf, Queued, ConservedInv, MsgInv, QueuesOK, IsQueue
<1>4. sent \in Nat /\ n \in Numbers /\ sent' = n /\ UNCHANGED <<taken, destroyed>>
  BY <1>0 DEF Msgsnd, ConservedInv, Numbers
<1>5. msg \in Message /\ msg.num = n
  BY <1>4 DEF Message
<1> HIDE DEF msg
<1>6. InOrder(s) /\ s \in Seq(Message) /\ Len(s) \in Nat /\ DOMAIN s = 1 .. Len(s)
  BY DEF ConservedInv, InOrder
<1>7. \A k \in DOMAIN s : s[k] \in Message
  BY <1>6
<1>8. \A k \in DOMAIN s : s[k].num \in Nat
  BY <1>7 DEF Message, Numbers
<1>9. \A k \in DOMAIN s : k <= s[k].num /\ s[k].num <= sent
  BY <1>6 DEF InOrder
<1>10. Len(s) <= sent
  <2>1. CASE Len(s) = 0
    BY <2>1, <1>4
  <2>2. CASE Len(s) # 0
    <3>1. Len(s) \in DOMAIN s
      BY <2>2, <1>6
    <3> QED
      BY <3>1, <1>4, <1>6, <1>8, <1>9
  <2> QED
    BY <2>1, <2>2
<1>11. /\ ItemsOf(i)' \in Seq(Message)
       /\ DOMAIN ItemsOf(i)' = 1 .. (Len(s) + 1)
       /\ ItemsOf(i)'[Len(s) + 1] = msg
       /\ \A k \in DOMAIN s : ItemsOf(i)'[k] = s[k]
  BY <1>3, <1>5, <1>6
<1>12. InOrder(ItemsOf(i))'
  <2>1. ASSUME NEW k \in DOMAIN ItemsOf(i)'
        PROVE  k <= ItemsOf(i)'[k].num /\ ItemsOf(i)'[k].num <= n
    <3>1. CASE k \in DOMAIN s
      BY <3>1, <1>0, <1>4, <1>6, <1>8, <1>9, <1>11
    <3>2. CASE k = Len(s) + 1
      BY <3>2, <1>0, <1>4, <1>5, <1>6, <1>10, <1>11
    <3> QED
      BY <2>1, <3>1, <3>2, <1>6, <1>11
  <2>2. ASSUME NEW k \in DOMAIN ItemsOf(i)', NEW l \in DOMAIN ItemsOf(i)', k < l
        PROVE  ItemsOf(i)'[k].num < ItemsOf(i)'[l].num
    <3>1. k \in DOMAIN s
      BY <2>2, <1>6, <1>11
    <3>2. CASE l \in DOMAIN s
      BY <2>2, <3>1, <3>2, <1>6, <1>11 DEF InOrder
    <3>3. CASE l = Len(s) + 1
      BY <3>1, <3>3, <1>0, <1>4, <1>5, <1>8, <1>9, <1>11
    <3> QED
      BY <3>2, <3>3, <1>6, <1>11
  <2> QED
    BY <1>4, <1>11, <2>1, <2>2 DEF InOrder
<1>13. \A k \in Slots : k # i => InOrder(ItemsOf(k))'
  <2>1. ASSUME NEW k \in Slots, k # i
        PROVE  InOrder(ItemsOf(k))'
    <3>1. InOrder(ItemsOf(k)) /\ ItemsOf(k)' = ItemsOf(k)
      BY <1>2, <2>1 DEF ConservedInv
    <3>2. \A j \in DOMAIN ItemsOf(k) : ItemsOf(k)[j].num \in Nat
      <4>1. \A j \in DOMAIN ItemsOf(k) : ItemsOf(k)[j] \in Message
        BY <3>1 DEF InOrder
      <4> QED
        BY <4>1 DEF Message, Numbers
    <3> QED
      BY <3>1, <3>2, <1>0, <1>4 DEF InOrder
  <2> QED
    BY <2>1
<1>14. ASSUME NEW k \in Slots, NEW m
       PROVE  Has(k, m)' <=> (Has(k, m) \/ (k = i /\ m = n))
  <2>1. CASE k # i
    BY <2>1, <1>2 DEF Has
  <2>2. CASE k = i
    <3>1. Has(i, m)' => Has(i, m) \/ m = n
      <4>1. ASSUME NEW l \in DOMAIN ItemsOf(i)', ItemsOf(i)'[l].num = m
            PROVE  Has(i, m) \/ m = n
        <5>1. l \in DOMAIN s \/ l = Len(s) + 1
          BY <1>6, <1>11
        <5> QED
          BY <4>1, <5>1, <1>5, <1>11 DEF Has
      <4> QED
        BY <4>1 DEF Has
    <3>2. Has(i, m) => Has(i, m)'
      <4>1. \A l \in DOMAIN s : l \in DOMAIN ItemsOf(i)' /\ ItemsOf(i)'[l] = s[l]
        BY <1>6, <1>11
      <4> QED
        BY <4>1 DEF Has
    <3>3. Has(i, n)'
      BY <1>5, <1>6, <1>11 DEF Has
    <3> QED
      BY <2>2, <3>1, <3>2, <3>3
  <2> QED
    BY <2>1, <2>2
<1>14a. ASSUME NEW k \in Slots
       PROVE  ~Has(k, n)
  <2>1. InOrder(ItemsOf(k))
    BY DEF ConservedInv
  <2>2. \A l \in DOMAIN ItemsOf(k) : ItemsOf(k)[l].num <= sent
    BY <2>1 DEF InOrder
  <2> QED
    BY <2>2, <1>0, <1>4 DEF Has
<1> HIDE DEF s
<1>15. InOneQueue'
  BY <1>1, <1>14, <1>14a DEF InOneQueue, ConservedInv
<1>16. /\ Held(n)' /\ ~Held(n)
       /\ \A m : m # n => (Held(m)' <=> Held(m))
  BY <1>1, <1>14, <1>14a DEF Held
<1>17. Whereabouts'
  <2>1. n = sent + 1
    BY <1>0
  <2>2. ASSUME NEW m \in Numbers
        PROVE  Accounted(m)'
    <3>1. CASE m = n
      BY <3>1, <1>4, <1>16, <2>1 DEF ConservedInv, Whereabouts, Accounted, Numbers
    <3>2. CASE m # n
      BY <3>2, <1>4, <1>16, <2>1 DEF ConservedInv, Whereabouts, Accounted, Numbers
    <3> QED
      BY <3>1, <3>2
  <2> QED
    BY <2>2 DEF Whereabouts
<1>18. sent' \in 0 .. MaxMsgs
  BY <1>4 DEF Numbers
<1> QED
  BY <1>1, <1>4, <1>12, <1>13, <1>15, <1>17, <1>18 DEF ConservedInv

\* msgctl(IPC_RMID): the messages of the queue are destroyed, no other is.
LEMMA RemovingConserves ==
  ASSUME ConservedInv, MsgInv', NEW t, NEW path, NEW i \in Slots, MsgctlRmid(t, path, i)
  PROVE  ConservedInv'
<1>1. /\ Slots' = Slots
      /\ queues'[i] = Released(queues[i])
      /\ \A k \in Slots : k # i => queues'[k] = queues[k]
  <2>1. queues' = [queues EXCEPT ![i] = Released(queues[i])]
    BY DEF MsgctlRmid
  <2> QED
    BY <2>1, QueueReplaced, Zenon DEF ConservedInv, MsgInv
<1>2. \A k \in Slots : k # i => ItemsOf(k)' = ItemsOf(k)
  BY <1>1 DEF ItemsOf
<1>3. ItemsOf(i)' = <<>>
  <2>1. IsQueue(queues[i])
    BY DEF ConservedInv, MsgInv, QueuesOK
  <2>2. Released(queues[i]).items = <<>>
    BY <2>1, ReleasedQueue
  <2> QED
    BY <2>2, <1>1 DEF ItemsOf
<1>4. UNCHANGED <<sent, taken>>
  BY DEF MsgctlRmid
<1>5. \A m : m \in destroyed' <=> m \in destroyed \/ Has(i, m)
  BY DEF MsgctlRmid, Has, ItemsOf
<1>6. ASSUME NEW k \in Slots, NEW m
      PROVE  Has(k, m)' <=> (Has(k, m) /\ k # i)
  <2>1. DOMAIN <<>> = {}
    OBVIOUS
  <2> QED
    BY <2>1, <1>2, <1>3 DEF Has
<1>7. \A k \in Slots : InOrder(ItemsOf(k))'
  <2>1. InOrder(ItemsOf(i))'
    BY <1>3 DEF InOrder
  <2>2. ASSUME NEW k \in Slots, k # i
        PROVE  InOrder(ItemsOf(k))'
    BY <2>2, <1>2, <1>4 DEF ConservedInv, InOrder
  <2> QED
    BY <2>1, <2>2
<1>8. InOneQueue'
  BY <1>1, <1>6 DEF InOneQueue, ConservedInv
<1>9. \A m : Held(m)' <=> (Held(m) /\ ~Has(i, m))
  BY <1>1, <1>6 DEF Held, InOneQueue, ConservedInv
<1>10. \A m : Has(i, m) => m \in Numbers /\ m <= sent /\ Held(m)
  <2>1. InOrder(ItemsOf(i))
    BY DEF ConservedInv
  <2>2. \A j \in DOMAIN ItemsOf(i) : ItemsOf(i)[j] \in Message
    BY <2>1 DEF InOrder
  <2> QED
    BY <2>1, <2>2 DEF Has, Held, InOrder, Message
<1>11. destroyed' \subseteq Numbers
  BY <1>5, <1>10 DEF ConservedInv
<1>12. ASSUME NEW m \in Numbers
       PROVE  Accounted(m)'
  <2>1. Accounted(m)
    BY DEF ConservedInv, Whereabouts
  <2>2. CASE Has(i, m)
    <3>1. m <= sent /\ taken[m] = 0 /\ m \in destroyed' /\ ~Held(m)'
      BY <2>1, <2>2, <1>5, <1>9, <1>10 DEF Accounted
    <3>2. ~(m > sent)
      BY <3>1 DEF Numbers, ConservedInv
    <3> QED
      BY <3>1, <3>2, <1>4 DEF Accounted
  <2>3. CASE ~Has(i, m)
    BY <2>1, <2>3, <1>4, <1>5, <1>9 DEF Accounted
  <2> QED
    BY <2>2, <2>3
<1> QED
  BY <1>1, <1>4, <1>7, <1>8, <1>11, <1>12 DEF ConservedInv, Whereabouts

\* msgget: its queue is empty, and so was the slot.
LEMMA GettingConserves ==
  ASSUME ConservedInv, MsgInv', NEW t, NEW path, NEW key, NEW creat, NEW excl,
         Msgget(t, path, key, creat, excl)
  PROVE  ConservedInv'
<1> DEFINE fresh(gen) == [key |-> key, gen |-> gen, valid |-> TRUE,
                          items |-> <<>>, qnum |-> 0, cbytes |-> 0]
<1>1. UNCHANGED <<sent, taken, destroyed>>
  BY DEF Msgget
<1>2. CASE UNCHANGED queues
  BY <1>1, <1>2, SameMessages DEF Slots, ItemsOf
<1>3. CASE \E i \in Slots : ~queues[i].valid /\ queues' = [queues EXCEPT ![i] = fresh(queues[i].gen)]
  <2>1. PICK i \in Slots : ~queues[i].valid /\ queues' = [queues EXCEPT ![i] = fresh(queues[i].gen)]
    BY <1>3
  <2>2. fresh(queues[i].gen).items = <<>>
    OBVIOUS
  <2> HIDE DEF fresh
  <2>3. /\ Slots' = Slots
        /\ queues'[i] = fresh(queues[i].gen)
        /\ \A k \in Slots : k # i => queues'[k] = queues[k]
    BY <2>1, QueueReplaced, Zenon DEF ConservedInv, MsgInv
  <2>4. ItemsOf(i) = <<>> /\ ItemsOf(i)' = <<>>
    BY <2>1, <2>2, <2>3 DEF ItemsOf, ConservedInv, MsgInv, ReceiversHaveQueue
  <2>5. \A k \in Slots : k # i => ItemsOf(k)' = ItemsOf(k)
    BY <2>3 DEF ItemsOf
  <2> QED
    BY <1>1, <2>3, <2>4, <2>5, SameMessages
<1>4. CASE queues' = Append(queues, fresh(0))
  <2>1. fresh(0).items = <<>>
    OBVIOUS
  <2> HIDE DEF fresh
  <2>2. PICK S : queues \in Seq(S)
    BY DEF ConservedInv, MsgInv, QueuesOK, QueuesSeq
  <2>3. /\ Slots \subseteq Slots'
        /\ \A k \in Slots' : IF k \in Slots THEN queues'[k] = queues[k] ELSE queues'[k] = fresh(0)
    BY <1>4, <2>2 DEF Slots
  <2>4. \A k \in Slots' : IF k \in Slots THEN ItemsOf(k)' = ItemsOf(k) ELSE ItemsOf(k)' = <<>>
    BY <2>1, <2>3 DEF ItemsOf
  <2> QED
    BY <1>1, <2>3, <2>4, SameMessages
<1> QED
  BY <1>2, <1>3, <1>4 DEF Msgget

\* Every step keeps the invariant.
LEMMA MsgStepConserves == ConservedInv /\ [MsgNext]_vars => ConservedInv'
<1> SUFFICES ASSUME ConservedInv, [MsgNext]_vars
             PROVE  ConservedInv'
  OBVIOUS
<1>1. MsgInv'
  BY MsgStepKeepsMsgInv DEF ConservedInv
<1>2. CASE UNCHANGED <<queues, sent, taken, destroyed>>
  BY <1>1, <1>2, SameMessages DEF Slots, ItemsOf
<1>3. ASSUME NEW t \in Tracees, MsgCall(t)
      PROVE  ConservedInv'
  <2>1. ASSUME NEW path \in EntryPaths, NEW i \in Slots, NEW a \in RecvArgs, Msgrcv(t, path, i, a)
        PROVE  ConservedInv'
    <3>1. ((\E r : Receives(i, a, r)) \/ FindsNone(i, a)) /\ UNCHANGED <<sent, destroyed>>
      BY <2>1 DEF Msgrcv
    <3> QED
      BY <1>1, <3>1, ReceivingConserves
  <2>2. ASSUME NEW path \in EntryPaths, MsgCallChangesNothing(t, path)
        PROVE  ConservedInv'
    BY <1>2, <2>2 DEF MsgCallChangesNothing, msgVars
  <2> QED
    BY <1>1, <1>3, <2>1, <2>2, GettingConserves, SendingConserves, RemovingConserves DEF MsgCall
<1>4. ASSUME NEW t \in Tracees, MsgStop(t)
      PROVE  ConservedInv'
  <2>1. CASE MsgrcvRetry(t)
    <3>1. /\ target[t] \in Slots
          /\ (\E r : Receives(target[t], args[t], r)) \/ FindsNone(target[t], args[t])
          /\ UNCHANGED <<sent, destroyed>>
      BY <2>1 DEF MsgrcvRetry, ConservedInv, MsgInv, ReceiversHaveQueue
    <3> QED
      BY <1>1, <3>1, ReceivingConserves
  <2>2. CASE MsgrcvRetryCrashes(t)
    BY <1>2, <2>2 DEF MsgrcvRetryCrashes
  <2>3. CASE MsgEnds(t)
    BY <1>2, <2>3 DEF MsgEnds
  <2>4. CASE UNCHANGED msgVars
    BY <1>2, <2>4 DEF msgVars
  <2> QED
    BY <1>4, <2>1, <2>2, <2>3, <2>4 DEF MsgStop
<1>5. CASE UNCHANGED msgVars
  BY <1>2, <1>5 DEF msgVars
<1>6. CASE UNCHANGED vars
  BY <1>5, <1>6 DEF vars
<1> QED
  BY <1>3, <1>4, <1>5, <1>6 DEF MsgNext

\* No message has been sent.
LEMMA MsgInitConserves == MsgInit => ConservedInv
<1> SUFFICES ASSUME MsgInit
             PROVE  ConservedInv
  OBVIOUS
<1> USE MsgAssumption
<1>1. Slots = {}
  BY DEF MsgInit, Slots
<1>2. sent = 0 /\ taken \in [Numbers -> Nat] /\ destroyed \subseteq Numbers
  BY DEF MsgInit
<1>3. Whereabouts
  BY DEF MsgInit, Whereabouts, Accounted, Numbers
<1> QED
  BY <1>1, <1>2, <1>3, MsgInitInv DEF ConservedInv, InOneQueue

(***************************************************************************)
(* Whatever interleaving of calls, wake-ups, retries, interrupted calls    *)
(* and killed tracees: a message that msgsnd has accepted is queued once,  *)
(* or one msgrcv has received it, or IPC_RMID has destroyed it.            *)
(***************************************************************************)
THEOREM MsgConserved == MsgSpec => []MessagesConserved
<1> QED
  BY MsgInitConserves, MsgStepConserves, ConservedIsCounted, PTL DEF MsgSpec

\* A msgrcv that changes what has been received takes the first item it may.
TakesFirst ==
  \E i \in Slots : \E a : \E j \in Candidates(queues[i], a) :
    /\ \A k \in Candidates(queues[i], a) : j <= k
    /\ ~a.copy
    /\ taken' = [taken EXCEPT ![ItemsOf(i)[j].num] = @ + 1]

LEMMA OnlyReceivingTakes ==
  ASSUME ConservedInv, [MsgNext]_vars
  PROVE  taken' = taken \/ TakesFirst
<1>1. ASSUME NEW i \in Slots, NEW a, (\E r : Receives(i, a, r)) \/ FindsNone(i, a)
      PROVE  taken' = taken \/ TakesFirst
  <2>1. CASE taken' = taken
    BY <2>1
  <2>2. CASE taken' # taken
    <3>1. PICK j \in Candidates(queues[i], a) :
            /\ \A k \in Candidates(queues[i], a) : j <= k
            /\ taken' = IF a.copy THEN taken ELSE [taken EXCEPT ![queues[i].items[j].num] = @ + 1]
      BY <1>1, <2>2 DEF Receives, FindsNone
    <3>2. ~a.copy
      BY <2>2, <3>1
    <3> QED
      BY <3>1, <3>2 DEF TakesFirst, ItemsOf
  <2> QED
    BY <2>1, <2>2
<1>2. ASSUME NEW t \in Tracees, MsgCall(t)
      PROVE  taken' = taken \/ TakesFirst
  <2>1. ASSUME NEW path \in EntryPaths, NEW i \in Slots, NEW a \in RecvArgs, Msgrcv(t, path, i, a)
        PROVE  taken' = taken \/ TakesFirst
    BY <1>1, <2>1 DEF Msgrcv
  <2> QED
    BY <1>2, <2>1 DEF MsgCall, Msgget, Msgsnd, MsgctlRmid, MsgCallChangesNothing, msgVars
<1>3. ASSUME NEW t \in Tracees, MsgStop(t)
      PROVE  taken' = taken \/ TakesFirst
  <2>1. CASE MsgrcvRetry(t)
    <3>1. /\ target[t] \in Slots
          /\ (\E r : Receives(target[t], args[t], r)) \/ FindsNone(target[t], args[t])
      BY <2>1 DEF MsgrcvRetry, ConservedInv, MsgInv, ReceiversHaveQueue
    <3> QED
      BY <1>1, <3>1
  <2> QED
    BY <1>3, <2>1 DEF MsgStop, MsgrcvRetryCrashes, MsgEnds, msgVars
<1> QED
  BY <1>2, <1>3 DEF MsgNext, vars, msgVars

\* The step property of FifoPerType.
LEMMA StepIsFifo ==
  ASSUME ConservedInv, [MsgNext]_vars,
         NEW i \in Slots, NEW j \in DOMAIN queues[i].items, NEW k \in DOMAIN queues[i].items,
         queues[i].items[j].num < queues[i].items[k].num,
         queues[i].items[j].type = queues[i].items[k].type,
         taken'[queues[i].items[k].num] > taken[queues[i].items[k].num]
  PROVE  FALSE
<1> DEFINE s == ItemsOf(i)
<1>1. InOrder(s) /\ j \in DOMAIN s /\ k \in DOMAIN s
  BY DEF ConservedInv, ItemsOf
<1>2. /\ \A l \in DOMAIN s : l \in Nat /\ s[l].num \in Nat /\ s[l].num \in Numbers
      /\ DOMAIN s = 1 .. Len(s)
  <2>1. s \in Seq(Message)
    BY <1>1 DEF InOrder
  <2>2. \A l \in DOMAIN s : s[l] \in Message
    BY <2>1
  <2>3. \A x \in Message : x.num \in Nat /\ x.num \in Numbers
    BY DEF Message, Numbers
  <2> QED
    BY <2>1, <2>2, <2>3
<1>3. s[j].num < s[k].num /\ s[j].type = s[k].type /\ taken'[s[k].num] > taken[s[k].num]
  BY DEF ItemsOf
<1>4. j < k
  <2>1. CASE k < j
    BY <2>1, <1>1, <1>2, <1>3 DEF InOrder
  <2> QED
    BY <2>1, <1>1, <1>2, <1>3
<1>5. taken[s[k].num] \in Nat
  BY <1>1, <1>2 DEF ConservedInv
<1>6. taken' # taken
  BY <1>3, <1>5
<1>7. PICK h \in Slots : \E a : \E l \in Candidates(queues[h], a) :
        /\ \A n \in Candidates(queues[h], a) : l <= n
        /\ ~a.copy
        /\ taken' = [taken EXCEPT ![ItemsOf(h)[l].num] = @ + 1]
  BY <1>6, OnlyReceivingTakes DEF TakesFirst
<1>7a. PICK a : \E l \in Candidates(queues[h], a) :
        /\ \A n \in Candidates(queues[h], a) : l <= n
        /\ ~a.copy
        /\ taken' = [taken EXCEPT ![ItemsOf(h)[l].num] = @ + 1]
  BY <1>7
<1>8. PICK l \in Candidates(queues[h], a) :
        /\ \A n \in Candidates(queues[h], a) : l <= n
        /\ ~a.copy
        /\ taken' = [taken EXCEPT ![ItemsOf(h)[l].num] = @ + 1]
  BY <1>7a
<1>9. ItemsOf(h)[l].num = s[k].num
  BY <1>1, <1>2, <1>3, <1>5, <1>8 DEF ConservedInv
<1>10. l \in DOMAIN ItemsOf(h) /\ Match(ItemsOf(h)[l].type, a)
  BY <1>8 DEF Candidates, ItemsOf
<1>11. h = i
  <2>1. Has(h, s[k].num) /\ Has(i, s[k].num)
    BY <1>1, <1>9, <1>10 DEF Has
  <2> QED
    BY <2>1 DEF ConservedInv, InOneQueue
<1>12. l = k
  <2>1. l \in DOMAIN s /\ s[l].num = s[k].num /\ l \in Nat /\ k \in Nat
    BY <1>1, <1>2, <1>9, <1>10, <1>11
  <2>2. ~(l < k) /\ ~(k < l)
    BY <1>1, <1>2, <2>1 DEF InOrder
  <2> QED
    BY <2>1, <2>2
<1>13. Match(s[j].type, a)
  BY <1>3, <1>10, <1>11, <1>12
<1>14. j \in Candidates(queues[h], a)
  BY <1>1, <1>8, <1>11, <1>13 DEF Candidates, ItemsOf
<1>15. k <= j
  BY <1>8, <1>12, <1>14
<1> QED
  BY <1>1, <1>2, <1>4, <1>15

(***************************************************************************)
(* do_msgrcv takes the first message that matches, and msgsnd queues the   *)
(* new one last: messages of one type leave a queue in the order they were *)
(* sent, whichever of its receivers are woken, retried or killed.          *)
(***************************************************************************)
THEOREM MsgFifo == MsgSpec => FifoPerType
<1>1. ConservedInv /\ [MsgNext]_vars =>
        [\A i \in Slots : \A j, k \in DOMAIN queues[i].items :
           LET m == queues[i].items[j]  n == queues[i].items[k]
           IN  (m.num < n.num /\ m.type = n.type /\ taken'[n.num] > taken[n.num])
                 => taken'[m.num] > taken[m.num]]_vars
  BY StepIsFifo
<1> QED
  BY <1>1, MsgInitConserves, MsgStepConserves, PTL DEF MsgSpec, FifoPerType
================================================================================

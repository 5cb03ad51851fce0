-------------------------------- MODULE SysVMsg --------------------------------
(***************************************************************************)
(* The emulated System V message queues of PRoot (sysvipc_msg.c) on top of *)
(* the wait mechanism: msgget, msgsnd, msgrcv, its retry and msgctl.       *)
(*                                                                         *)
(* msgsnd does not hand its message over to a waiting msgrcv: it queues    *)
(* the message and wakes the receiver, which looks for it again when PRoot *)
(* handles its next stop (MsgrcvRetry).  Between the two, other tracees    *)
(* may take the message, remove the queue or create another one in its     *)
(* slot.  msgsnd wakes the first matching receiver of the tracees list,    *)
(* that is in the order the tracees were created; the model takes any.     *)
(***************************************************************************)
EXTENDS SysVIpcWait, Integers, Sequences, FiniteSets

CONSTANTS
  Keys,        \* the keys guests use; Private is IPC_PRIVATE
  Private,
  Kinds,       \* the messages guests send: [type, size]
  RecvArgs,    \* the arguments of msgrcv: see MsgAssumption
  MaxQueues,   \* bounds of the model: slots, generations of a slot, messages
  MaxGen,
  MaxMsgs

ASSUME MsgAssumption ==
  /\ "queue_recv" \in Reasons
  /\ {"ok", "error", "EAGAIN", "EIDRM"} \subseteq Results
  /\ Kinds \subseteq [type : Nat \ {0}, size : Nat]
  /\ RecvArgs \subseteq [size : Nat, typ : Int, nowait : BOOLEAN, noerror : BOOLEAN,
                         except : BOOLEAN, copy : BOOLEAN]
  /\ MaxQueues \in Nat /\ MaxGen \in Nat /\ MaxMsgs \in Nat

VARIABLES
  queues,     \* ipc_namespace->queues: [key, gen, valid, items, qnum, cbytes]
  target,     \* config->waiting_object_index
  args,       \* config->msgrcv_* of a msgrcv that waits, NoArgs when nothing reads it
  crashed,    \* PRoot itself is gone: assert(queue->valid), or a NULL queue->items
  sent,       \* history: how many messages were sent; they are numbered from 1
  taken,      \* history: how many times each message was received for good
  destroyed   \* history: the messages removed with their queue

msgVars == <<queues, target, args, crashed, sent, taken, destroyed>>
vars    == <<waitVars, msgVars>>

NoArgs == [size |-> 0, typ |-> 0, nowait |-> FALSE, noerror |-> FALSE,
           except |-> FALSE, copy |-> FALSE]

Slots   == DOMAIN queues
Numbers == 1 .. MaxMsgs

MsgTypeOK ==
  /\ WaitTypeOK
  /\ queues \in Seq([key : Keys, gen : Nat, valid : BOOLEAN,
                     items : Seq([num : Nat, type : Nat, size : Nat]),
                     qnum : Nat, cbytes : Nat])
  /\ target \in [Tracees -> Nat]
  /\ args \in [Tracees -> RecvArgs \cup {NoArgs}]
  /\ crashed \in BOOLEAN
  /\ sent \in Nat
  /\ taken \in [Numbers -> Nat]
  /\ destroyed \subseteq Numbers

MsgInit ==
  /\ WaitInit
  /\ queues    = <<>>
  /\ target    = [t \in Tracees |-> 1]   \* zeroed: the first slot
  /\ args      = [t \in Tracees |-> NoArgs]
  /\ crashed   = FALSE
  /\ sent      = 0
  /\ taken     = [m \in Numbers |-> 0]
  /\ destroyed = {}

--------------------------------------------------------------------------------
(* msgget *)

\* sysvipc_msgget on key, with IPC_CREAT and IPC_EXCL.
Msgget(t, path, key, creat, excl) ==
  LET found  == {i \in Slots : queues[i].valid /\ key # Private /\ queues[i].key = key}
      unused == {i \in Slots : ~queues[i].valid}
      fresh(gen) == [key |-> key, gen |-> gen, valid |-> TRUE,
                     items |-> <<>>, qnum |-> 0, cbytes |-> 0]
  IN /\ \/ /\ found # {}
           /\ Returns(t, path, IF creat /\ excl THEN "error" ELSE "ok")
           /\ UNCHANGED queues
        \/ /\ found = {} /\ ~creat
           /\ Returns(t, path, "error")
           /\ UNCHANGED queues
        \/ /\ found = {} /\ creat
           /\ \E i \in unused : /\ \A j \in unused : i <= j
                                /\ queues' = [queues EXCEPT ![i] = fresh(queues[i].gen)]
           /\ Returns(t, path, "ok")
        \/ /\ found = {} /\ creat /\ unused = {} /\ Len(queues) < MaxQueues
           /\ queues' = Append(queues, fresh(0))
           /\ Returns(t, path, "ok")
     /\ UNCHANGED <<target, args, crashed, sent, taken, destroyed>>

--------------------------------------------------------------------------------
(* msgsnd *)

\* sysvipc_msg_match.
Match(type, a) ==
  (a.typ = 0 \/ type = a.typ \/ (a.typ < 0 /\ type <= -a.typ)) # a.except

\* Mutant of Queued: the message is put before the others.
MutQueued(q, msg) ==
  [q EXCEPT !.items = <<msg>> \o @, !.qnum = @ + 1, !.cbytes = @ + msg.size]

\* Queue q with one more message.
Queued(q, msg) ==
  [q EXCEPT !.items = Append(@, msg), !.qnum = @ + 1, !.cbytes = @ + msg.size]

\* Mutant of ReceiversOf: the slot is compared with the index that starts at 0.
MutReceiversOf(i) == {u \in Waiters : reason[u] = "queue_recv" /\ target[u] = i - 1}

\* The waiters of slot i.
ReceiversOf(i) == {u \in Waiters : reason[u] = "queue_recv" /\ target[u] = i}

\* sysvipc_msgsnd of a message of this kind to the queue in slot i.
Msgsnd(t, path, i, kind) ==
  LET msg     == [num |-> sent + 1, type |-> kind.type, size |-> kind.size]
      matched == {u \in ReceiversOf(i) : Match(kind.type, args[u])}
  IN /\ queues[i].valid
     /\ sent < MaxMsgs
     /\ queues' = [queues EXCEPT ![i] = Queued(@, msg)]
     /\ sent' = sent + 1
     /\ \E W \in IF matched = {} THEN {{}} ELSE {{u} : u \in matched} :
          SyscallCommon(t, path, "none", "ok", W, "EAGAIN", TRUE)
     /\ UNCHANGED <<target, args, crashed, taken, destroyed>>

--------------------------------------------------------------------------------
(* msgrcv and its retry *)

\* The places in the items of q of the message do_msgrcv looks for.
Candidates(q, a) ==
  {j \in DOMAIN q.items : IF a.copy THEN j = a.typ + 1 ELSE Match(q.items[j].type, a)}

\* sysvipc_msg_deliver refuses the message: E2BIG.
TooBig(q, j, a) == q.items[j].size > a.size /\ ~a.noerror

\* Mutant of Delivered: MSG_COPY takes the message off the statistics.
MutDelivered(q, j, a) ==
  [q EXCEPT !.items  = IF a.copy THEN @ ELSE SubSeq(@, 1, j - 1) \o SubSeq(@, j + 1, Len(@)),
            !.qnum   = @ - 1,
            !.cbytes = @ - q.items[j].size]

\* q after message j has been delivered to a msgrcv with arguments a.
Delivered(q, j, a) ==
  IF a.copy THEN q
  ELSE [q EXCEPT !.items  = SubSeq(@, 1, j - 1) \o SubSeq(@, j + 1, Len(@)),
                 !.qnum   = @ - 1,
                 !.cbytes = @ - q.items[j].size]

(***************************************************************************)
(* sysvipc_do_msgrcv on slot i finds a message: its result is r.  Writing  *)
(* to the memory of the guest may fail, then the message stays.            *)
(***************************************************************************)
Receives(i, a, r) ==
  LET q == queues[i]
  IN \E j \in Candidates(q, a) :
       /\ \A k \in Candidates(q, a) : j <= k
       /\ \/ /\ r = "ok" /\ ~TooBig(q, j, a)
             /\ queues' = [queues EXCEPT ![i] = Delivered(q, j, a)]
             /\ taken'  = IF a.copy THEN taken ELSE [taken EXCEPT ![q.items[j].num] = @ + 1]
          \/ /\ r = "error"
             /\ UNCHANGED <<queues, taken>>

\* It finds none.
FindsNone(i, a) == Candidates(queues[i], a) = {} /\ UNCHANGED <<queues, taken>>

\* The call of t is over: nothing reads its arguments any more.
Forget(t) ==
  /\ target' = [target EXCEPT ![t] = 1]
  /\ args'   = [args EXCEPT ![t] = NoArgs]

\* sysvipc_msgrcv on slot i with arguments a.
Msgrcv(t, path, i, a) ==
  /\ queues[i].valid
  /\ \/ /\ \E r \in {"ok", "error"} : Receives(i, a, r) /\ Returns(t, path, r)
        /\ UNCHANGED <<target, args>>
     \/ /\ FindsNone(i, a) /\ a.nowait
        /\ Returns(t, path, "error")
        /\ UNCHANGED <<target, args>>
     \/ /\ FindsNone(i, a) /\ ~a.nowait
        /\ Blocks(t, path, "queue_recv")
        /\ target' = [target EXCEPT ![t] = i]
        /\ args'   = [args EXCEPT ![t] = a]
  /\ UNCHANGED <<crashed, sent, destroyed>>

\* sysvipc_msgrcv_retry when PRoot handles the stop of the woken receiver t:
\* the slot is looked up again, its generation is not.
MsgrcvRetry(t) ==
  /\ AtResult(t) /\ retry[t]
  /\ queues[target[t]].valid
  /\ \/ \E r \in {"ok", "error"} : Receives(target[t], args[t], r) /\ Resume(t, r)
     \/ FindsNone(target[t], args[t]) /\ Resume(t, "EINTR")
  /\ Forget(t)
  /\ UNCHANGED <<crashed, sent, destroyed>>

\* The queue has been removed meanwhile: assert(queue->valid).
MsgrcvRetryCrashes(t) ==
  /\ AtResult(t) /\ retry[t]
  /\ ~queues[target[t]].valid
  /\ crashed' = TRUE
  /\ UNCHANGED <<waitVars, queues, target, args, sent, taken, destroyed>>

--------------------------------------------------------------------------------
(* msgctl, and the calls that change nothing *)

\* Mutant of Released: the slot keeps the messages of its queue.
MutReleased(q) == [q EXCEPT !.valid = FALSE, !.gen = @ + 1]

\* The slot of q after IPC_RMID.
Released(q) == [q EXCEPT !.valid = FALSE, !.gen = @ + 1, !.items = <<>>]

\* msgctl(IPC_RMID): wakes every receiver and frees the queue with its messages.
MsgctlRmid(t, path, i) ==
  /\ queues[i].valid
  /\ queues[i].gen < MaxGen
  /\ queues'    = [queues EXCEPT ![i] = Released(@)]
  /\ destroyed' = destroyed \cup {queues[i].items[j].num : j \in DOMAIN queues[i].items}
  /\ SyscallCommon(t, path, "none", "ok", ReceiversOf(i), "EIDRM", FALSE)
  /\ UNCHANGED <<target, args, crashed, sent, taken>>

\* IPC_STAT, an id that LOOKUP_IPC_OBJECT rejects, rejected arguments.
MsgCallChangesNothing(t, path) ==
  /\ \E r \in {"ok", "error"} : Returns(t, path, r)
  /\ UNCHANGED msgVars

--------------------------------------------------------------------------------
(* The specification *)

\* A call that was not a woken msgrcv ends, or one that nobody woke or whose
\* queue is gone; or the tracee itself is freed.
MsgEnds(t) ==
  /\ \/ ~retry[t] /\ Resume(t, status[t])
     \/ Interrupted(t)
     \/ Reap(t)
  /\ Forget(t)
  /\ UNCHANGED <<queues, crashed, sent, taken, destroyed>>

\* PRoot handles the stop of a tracee that is in a call, or its end.
MsgStop(t) ==
  \/ MsgrcvRetry(t)
  \/ MsgrcvRetryCrashes(t)
  \/ MsgEnds(t)
  \/ EnterPpoll(t) /\ UNCHANGED msgVars

MsgCall(t) ==
  \E path \in EntryPaths :
    \/ \E key \in Keys, creat, excl \in BOOLEAN : Msgget(t, path, key, creat, excl)
    \/ \E i \in Slots : \/ \E kind \in Kinds : Msgsnd(t, path, i, kind)
                        \/ \E a \in RecvArgs : Msgrcv(t, path, i, a)
                        \/ MsgctlRmid(t, path, i)
    \/ MsgCallChangesNothing(t, path)

MsgNext ==
  /\ ~crashed
  /\ \E t \in Tracees :
       \/ MsgCall(t)
       \/ MsgStop(t)
       \/ (SigstopInterrupts(t) \/ SignalInterrupts(t) \/ Kill(t)) /\ UNCHANGED msgVars

(***************************************************************************)
(* PRoot's event loop handles every stop of every tracee, and the kernel   *)
(* delivers a SIGSTOP.  Nothing makes a guest call or a signal arrive.     *)
(***************************************************************************)
MsgFairness ==
  \A t \in Tracees :
    /\ WF_vars(~crashed /\ MsgStop(t))
    /\ WF_vars(~crashed /\ SigstopInterrupts(t) /\ UNCHANGED msgVars)

MsgSpec     == MsgInit /\ [][MsgNext]_vars
MsgFairSpec == MsgSpec /\ MsgFairness
--------------------------------------------------------------------------------
(* Properties *)

\* The sum of the sizes of the first messages of a queue.
TotalSize(items) ==
  LET total[j \in 0 .. Len(items)] == IF j = 0 THEN 0 ELSE total[j - 1] + items[j].size
  IN  total[Len(items)]

(***************************************************************************)
(* msg_qnum and msg_cbytes, which msgsnd and both ways of receiving        *)
(* maintain by increments, are the length and the size of the queue.       *)
(***************************************************************************)
StatsMatchQueue ==
  \A i \in Slots : queues[i].valid =>
    /\ queues[i].qnum = Len(queues[i].items)
    /\ queues[i].cbytes = TotalSize(queues[i].items)

\* Where message m is queued.
PlacesOf(m) ==
  {p \in Slots \X Numbers : /\ p[2] \in DOMAIN queues[p[1]].items
                            /\ queues[p[1]].items[p[2]].num = m}

(***************************************************************************)
(* Every message msgsnd accepted is in one of three places: queued once,   *)
(* received once for good, or destroyed with its queue.  In particular the *)
(* retry of a receiver that was killed, refused the message or came too    *)
(* late neither loses nor duplicates it.                                   *)
(***************************************************************************)
MessagesConserved ==
  \A m \in 1 .. sent :
    Cardinality(PlacesOf(m)) + taken[m] + (IF m \in destroyed THEN 1 ELSE 0) = 1

(***************************************************************************)
(* A waiting msgrcv waits on a queue that exists, and a slot that is not   *)
(* in use keeps no message for its next queue.                             *)
(***************************************************************************)
ReceiversHaveQueue ==
  /\ \A t \in Tracees : reason[t] = "queue_recv" =>
       target[t] \in Slots /\ queues[target[t]].valid
  /\ \A t \in Tracees : retry[t] => target[t] \in Slots /\ status[t] = "EAGAIN"
  /\ \A i \in Slots : ~queues[i].valid => queues[i].items = <<>>

(***************************************************************************)
(* Messages of one type leave a queue in the order they were sent, however *)
(* their receivers were woken, retried, interrupted or killed.             *)
(***************************************************************************)
FifoPerType ==
  [][\A i \in Slots : \A j, k \in DOMAIN queues[i].items :
       LET m == queues[i].items[j]  n == queues[i].items[k]
       IN  (m.num < n.num /\ m.type = n.type /\ taken'[n.num] > taken[n.num])
             => taken'[m.num] > taken[m.num]]_vars

(***************************************************************************)
(* assert(queue->valid) (sysvipc_msg.c:259): the queue of a woken receiver *)
(* is still there when PRoot retries its msgrcv.                           *)
(***************************************************************************)
RetryFindsQueue == ~crashed

(***************************************************************************)
(* A tracee that was woken, or whose call is over, gets back to the guest  *)
(* (unless it is killed): no interleaving of the wake-up with the entry    *)
(* into ppoll() or with a signal loses the wake-up.                        *)
(***************************************************************************)
CallsReturn == \A t \in Tracees : Woken(t) ~> (~Woken(t) \/ crashed)
================================================================================

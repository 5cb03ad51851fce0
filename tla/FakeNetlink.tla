----------------------------- MODULE FakeNetlink -----------------------------
(***************************************************************************)
(* The AF_NETLINK sockets PRoot fakes where the host denies them           *)
(* (syscall/enter.c, syscall/exit.c): the tracee gets an AF_UNIX socket,   *)
(* PRoot notes its file descriptor and answers the calls made on it.  The  *)
(* notes are per tracee; the descriptors are the kernel's, shared by the   *)
(* threads of a process and copied by fork(2).  NetlinkReply has the       *)
(* replies; here one is the descriptor its request was sent on.            *)
(***************************************************************************)
EXTENDS Integers, Sequences, SequencesExt, FiniteSetsExt

CONSTANTS
    NetTracees,             \* the tracees
    NetRoot,                \* the first one
    NetFds,                 \* the file descriptors, 0 ..
    MAX_FAKE_NETLINK_FDS,   \* how many fake sockets a tracee has noted
    NoTable                 \* of a tracee that is not born

ASSUME NetAssumption ==
    /\ NetRoot \in NetTracees /\ NoTable \notin NetTracees
    /\ NetFds \subseteq Nat /\ \A fd \in NetFds : 0 .. fd \subseteq NetFds
    /\ MAX_FAKE_NETLINK_FDS \in Nat

VARIABLES
    tableOf,   \* the table of descriptors of a tracee: whose it was at first
    table,     \* of a table: what each descriptor is
    fakeFds,   \* fake_netlink_fds
    pending,   \* of a socket(2) under way: pending_fake_netlink_socket and
               \* its SOCK_CLOEXEC
    reply,     \* fake_netlink_reply: whose request it answers, -1 when empty
    unseen     \* history: a descriptor ended otherwise than by close(2) of
               \* the tracee that noted it

netVars == <<tableOf, table, fakeFds, pending, reply, unseen>>

NoFile == [kind |-> "none", cloexec |-> FALSE]
NoSocket == [on |-> FALSE, cloexec |-> FALSE]

Born(t) == tableOf[t] # NoTable

TableOf(t) == table[tableOf[t]]

\* A tracee that is not in socket(2).
NotInSocket(t) == Born(t) /\ ~ pending[t].on

\* The descriptor the kernel gives: the lowest that is free, -1 if none.
Lowest(t) ==
    LET free == {fd \in NetFds : TableOf(t)[fd] = NoFile}
    IN  IF free = {} THEN -1 ELSE Min(free)

\* is_fake_netlink_fd()
IsFake(t, fd) == \E i \in DOMAIN fakeFds[t] : fakeFds[t][i] = fd

SetFile(t, fd, file) == table' = [table EXCEPT ![tableOf[t]][fd] = file]

------------------------------------------------------------------------------
\* socket(AF_NETLINK, NETLINK_ROUTE), entry: the arguments become AF_UNIX.
SocketEnter(t, cloexec) ==
    /\ NotInSocket(t)
    /\ pending' = [pending EXCEPT ![t] = [on |-> TRUE, cloexec |-> cloexec]]
    /\ UNCHANGED <<tableOf, table, fakeFds, reply, unseen>>

\* The descriptors noted once @fd is, without duplicates and while there is room.
Noted(t, fd) ==
    IF fd >= 0 /\ ~ IsFake(t, fd) /\ Len(fakeFds[t]) < MAX_FAKE_NETLINK_FDS
    THEN Append(fakeFds[t], fd) ELSE fakeFds[t]

\* Its exit.
SocketExit(t) ==
    LET fd == Lowest(t)
    IN  /\ Born(t) /\ pending[t].on
        /\ IF fd < 0 THEN UNCHANGED table
           ELSE SetFile(t, fd, [kind |-> "unix", cloexec |-> pending[t].cloexec])
        /\ fakeFds' = [fakeFds EXCEPT ![t] = Noted(t, fd)]
        /\ pending' = [pending EXCEPT ![t] = NoSocket]
        /\ UNCHANGED <<tableOf, reply, unseen>>

\* Any other call that makes a descriptor.
OpenOther(t) ==
    /\ NotInSocket(t) /\ Lowest(t) >= 0
    /\ SetFile(t, Lowest(t), [kind |-> "file", cloexec |-> FALSE])
    /\ UNCHANGED <<tableOf, fakeFds, pending, reply, unseen>>

\* Mutant of Unmarked: the descriptor stays noted.
MutUnmarked(t, fd) == fakeFds[t]

\* unmark_fake_netlink_fd(): the last one takes its place.
Unmarked(t, fd) ==
    IF ~ IsFake(t, fd) THEN fakeFds[t]
    ELSE LET i == Min({k \in DOMAIN fakeFds[t] : fakeFds[t][k] = fd})
         IN  Front([fakeFds[t] EXCEPT ![i] = Last(fakeFds[t])])

\* close(2): the descriptor is unmarked at the entry, whatever comes of it.
NetClose(t, fd) ==
    /\ NotInSocket(t)
    /\ SetFile(t, fd, NoFile)
    /\ fakeFds' = [fakeFds EXCEPT ![t] = Unmarked(t, fd)]
    /\ unseen' = (unseen \/ \E u \in NetTracees \ {t} :
                             tableOf[u] = tableOf[t] /\ IsFake(u, fd))
    /\ UNCHANGED <<tableOf, pending, reply>>

\* dup2(2), dup3(2): the new descriptor is what the old one is.
Dup2(t, old, new) ==
    /\ NotInSocket(t)
    /\ old # new /\ TableOf(t)[old] # NoFile
    /\ SetFile(t, new, [TableOf(t)[old] EXCEPT !.cloexec = FALSE])
    /\ unseen' = TRUE
    /\ UNCHANGED <<tableOf, fakeFds, pending, reply>>

\* close_range(2)
CloseRange(t, fd) ==
    /\ NotInSocket(t)
    /\ table' = [table EXCEPT ![tableOf[t]] =
                     [f \in NetFds |-> IF f >= fd THEN NoFile ELSE @[f]]]
    /\ unseen' = TRUE
    /\ UNCHANGED <<tableOf, fakeFds, pending, reply>>

\* execve(2) of a process of one thread.
NetExecve(t) ==
    /\ NotInSocket(t)
    /\ \A u \in NetTracees \ {t} : tableOf[u] # tableOf[t]
    /\ table' = [table EXCEPT ![tableOf[t]] =
                     [f \in NetFds |-> IF @[f].cloexec THEN NoFile ELSE @[f]]]
    /\ unseen' = TRUE
    /\ UNCHANGED <<tableOf, fakeFds, pending, reply>>

\* clone(2), fork(2): new_child() notes no socket for the child.
NetClone(t, child, thread) ==
    /\ NotInSocket(t) /\ ~ Born(child)
    /\ LET id == IF thread THEN tableOf[t] ELSE child
       IN  /\ tableOf' = [tableOf EXCEPT ![child] = id]
           /\ table' = [table EXCEPT ![id] = TableOf(t)]
    /\ UNCHANGED <<fakeFds, pending, reply, unseen>>

\* sendto(2), sendmsg(2) on a noted descriptor: the reply is made at once, in
\* place of one that was not read.
SendRequest(t, fd) ==
    /\ NotInSocket(t) /\ IsFake(t, fd)
    /\ reply' = [reply EXCEPT ![t] = fd]
    /\ UNCHANGED <<tableOf, table, fakeFds, pending, unseen>>

\* recvfrom(2), recvmsg(2) on a noted descriptor: they take the reply, whatever
\* socket it was for, unless they only peek at it.
Recv(t, fd, peek) ==
    /\ NotInSocket(t) /\ IsFake(t, fd)
    /\ reply' = [reply EXCEPT ![t] = IF peek THEN @ ELSE -1]
    /\ UNCHANGED <<tableOf, table, fakeFds, pending, unseen>>

------------------------------------------------------------------------------
NetInit ==
    /\ tableOf = [t \in NetTracees |-> IF t = NetRoot THEN t ELSE NoTable]
    /\ table   = [t \in NetTracees |-> [fd \in NetFds |-> NoFile]]
    /\ fakeFds = [t \in NetTracees |-> << >>]
    /\ pending = [t \in NetTracees |-> NoSocket]
    /\ reply   = [t \in NetTracees |-> -1]
    /\ unseen  = FALSE

NetStep(t) ==
    \/ \E cloexec \in BOOLEAN : SocketEnter(t, cloexec)
    \/ SocketExit(t)
    \/ OpenOther(t)
    \/ \E fd \in NetFds : NetClose(t, fd) \/ CloseRange(t, fd) \/ SendRequest(t, fd)
    \/ \E old, new \in NetFds : Dup2(t, old, new)
    \/ NetExecve(t)
    \/ \E child \in NetTracees, thread \in BOOLEAN : NetClone(t, child, thread)
    \/ \E fd \in NetFds, peek \in BOOLEAN : Recv(t, fd, peek)

NetNext == \E t \in NetTracees : NetStep(t)

NetSpec == NetInit /\ [][NetNext]_netVars

------------------------------------------------------------------------------
\* PRoot answers no call on a file that is not its substitute (syscall/enter.c:
\* "otherwise its number could be reused for an unrelated file").
OnlySubstitutes ==
    \A t \in NetTracees : \A i \in DOMAIN fakeFds[t] :
        TableOf(t)[fakeFds[t][i]].kind # "file"

\* INVARIANT NeverHijacks.  As long as descriptors end by close(2) in the tracee
\* that made them, whatever is opened, forked and closed in any order, PRoot
\* answers calls on its substitutes only.
NeverHijacks == ~ unseen => OnlySubstitutes
==============================================================================

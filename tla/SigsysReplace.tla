---------------------------- MODULE SigsysReplace ----------------------------
(***************************************************************************)
(* The SIGSYS handler of tracee/seccomp.c: a system call the policy of the *)
(* Android parent refuses is put again as a call the policy allows, or is  *)
(* answered by PRoot.  The rewriting is a recipe: register writes in the   *)
(* order of the code, where a write may read a register written before.    *)
(*                                                                         *)
(* Registers hold integers; memory maps an address to the words there.     *)
(***************************************************************************)
EXTENDS Integers, SequencesExt

CONSTANTS
    Avoided,       \* the calls that have no number in the tracee's ABI
    Scratch        \* the address alloc_mem or set_sysarg_data returns

AT_FDCWD == -100
AT_SYMLINK_NOFOLLOW == 256
AT_REMOVEDIR == 512
ENOSYS == 38
EINVAL == 22
EFAULT == 14
EPERM == 1
NullAddress == 0

From(to, from) == [to |-> to, from |-> from, value |-> 0]
Put(to, value) == [to |-> to, from |-> 0, value |-> value]

Poke(regs, p) == [regs EXCEPT ![p.to] = IF p.from = 0 THEN p.value ELSE regs[p.from]]

(***************************************************************************)
(* The recipes, by group of calls: the call put instead and its writes.    *)
(***************************************************************************)
Recipe(as, pokes) == [as |-> as, pokes |-> pokes]

OpenCalls ==
    [open |-> Recipe("openat", <<From(4, 3), From(3, 2), From(2, 1), Put(1, AT_FDCWD)>>)]

\* Mutant of LinkCalls: the directory is written before the name moves.
MutLinkCalls ==
    [symlink |-> Recipe("symlinkat", <<From(3, 2), Put(2, AT_FDCWD)>>),
     link |-> Recipe("linkat", <<Put(1, AT_FDCWD), From(4, 2), From(2, 1), Put(3, AT_FDCWD), Put(5, 0)>>)]

LinkCalls ==
    [symlink |-> Recipe("symlinkat", <<From(3, 2), Put(2, AT_FDCWD)>>),
     link |-> Recipe("linkat", <<From(4, 2), From(2, 1), Put(1, AT_FDCWD), Put(3, AT_FDCWD), Put(5, 0)>>)]

Chown(flags) ==
    Recipe("fchownat", <<From(4, 3), From(3, 2), From(2, 1), Put(1, AT_FDCWD), Put(5, flags)>>)

OwnerCalls ==
    [chmod |-> Recipe("fchmodat", <<From(3, 2), From(2, 1), Put(1, AT_FDCWD), Put(4, 0)>>),
     chown |-> Chown(0), chown32 |-> Chown(0),
     lchown |-> Chown(AT_SYMLINK_NOFOLLOW), lchown32 |-> Chown(AT_SYMLINK_NOFOLLOW)]

UnlinkAt(flags) == Recipe("unlinkat", <<From(2, 1), Put(1, AT_FDCWD), Put(3, flags)>>)

UnlinkCalls == [unlink |-> UnlinkAt(0), rmdir |-> UnlinkAt(AT_REMOVEDIR)]

SocketCalls ==
    [accept |-> Recipe("accept4", <<Put(4, 0)>>),
     send |-> Recipe("sendto", <<Put(5, 0), Put(6, 0)>>),
     recv |-> Recipe("recvfrom", <<Put(5, 0), Put(6, 0)>>),
     waitpid |-> Recipe("wait4", <<Put(4, 0)>>)]

Stat(flags) == Recipe("newfstatat", <<Put(4, flags), From(3, 2), From(2, 1), Put(1, AT_FDCWD)>>)

StatCalls ==
    [stat |-> Stat(0), lstat |-> Stat(AT_SYMLINK_NOFOLLOW),
     pipe |-> Recipe("pipe2", <<Put(2, 0)>>),
     dup2 |-> Recipe("dup3", <<Put(3, 0)>>)]

NameCalls ==
    [access |-> Recipe("faccessat", <<Put(4, 0), From(3, 2), From(2, 1), Put(1, AT_FDCWD)>>),
     mkdir |-> Recipe("mkdirat", <<From(3, 2), From(2, 1), Put(1, AT_FDCWD)>>),
     rename |-> Recipe("renameat", <<From(4, 2), Put(3, AT_FDCWD), From(2, 1), Put(1, AT_FDCWD)>>),
     epoll_wait |-> Recipe("epoll_pwait", <<Put(5, 0), Put(6, 0)>>)]

Recoded == OpenCalls @@ LinkCalls @@ OwnerCalls @@ UnlinkCalls @@ SocketCalls @@ StatCalls @@ NameCalls

(***************************************************************************)
(* The outcome of the handler: the call is put again, or has its result.   *)
(***************************************************************************)
Result(value) == [restarted |-> FALSE, value |-> value]
Restart(call, regs, mem) ==
    [restarted |-> TRUE, call |-> call, regs |-> regs, mem |-> mem]

Poked(s, call, pokes, mem) == Restart(call, FoldLeft(Poke, s.regs, pokes), mem)

Readable(s, address) == address \in DOMAIN s.mem
AllocAndWrite(s, words) == (Scratch :> words) @@ s.mem

\* The flags and the mode move from open_how to the registers.
Openat2(s) ==
    IF ~Readable(s, s.regs[3]) THEN Result(-EFAULT)
    ELSE Poked(s, "openat", <<Put(3, s.mem[s.regs[3]][1]), Put(4, s.mem[s.regs[3]][2])>>, s.mem)

\* utimes and utime: two (seconds, microseconds) pairs, or two seconds, as
\* two (seconds, nanoseconds) pairs; no times at all means now.
Timespecs(call, w) ==
    IF call = "utimes" THEN <<w[1], w[2] * 1000, w[3], w[4] * 1000>> ELSE <<w[1], 0, w[2], 0>>

NameLast == <<Put(4, 0), From(3, 2), From(2, 1), Put(1, AT_FDCWD)>>

SetTimes(s) ==
    CASE s.regs[2] = NullAddress -> Poked(s, "utimensat", NameLast, s.mem)
      [] s.regs[2] # NullAddress /\ ~Readable(s, s.regs[2]) -> Result(-EFAULT)
      [] OTHER -> Poked(s, "utimensat", <<Put(2, Scratch)>> \o NameLast,
                        AllocAndWrite(s, Timespecs(s.call, s.mem[s.regs[2]])))

\* Mutant of Timeout: a poll that does not wait waits forever.
MutTimeout(ms) == IF ms > 0 THEN <<ms \div 1000, (ms % 1000) * 1000000>> ELSE << >>

Timeout(ms) == IF ms >= 0 THEN <<ms \div 1000, (ms % 1000) * 1000000>> ELSE << >>

PollTimes(s) ==
    LET ts == Timeout(s.regs[3])
        timespec == IF ts = << >> THEN NullAddress ELSE Scratch
    IN Poked(s, "ppoll", <<Put(3, timespec), Put(4, 0), Put(5, 0)>>,
             IF ts = << >> THEN s.mem ELSE AllocAndWrite(s, ts))

SelectTimes(s) ==
    LET at == s.regs[5]
    IN CASE at = NullAddress -> Poked(s, "pselect6", <<Put(5, NullAddress), Put(6, 0)>>, s.mem)
         [] at # NullAddress /\ ~Readable(s, at) -> Result(-EFAULT)
         [] Readable(s, at) /\ s.mem[at][2] \notin 0 .. 999999 -> Result(-EINVAL)
         [] OTHER -> Poked(s, "pselect6", <<Put(5, Scratch), Put(6, 0)>>,
                           AllocAndWrite(s, <<s.mem[at][1], s.mem[at][2] * 1000>>))

\* The 32-bit length is the low word of an aligned pair of registers.
Ftruncate(s) ==
    IF "ftruncate64" \in Avoided THEN Result(-ENOSYS)
    ELSE Poked(s, "ftruncate64", <<From(3, 2), Put(2, 0), Put(4, 0)>>, s.mem)

\* The ids compared are PRoot's own, the real ids of every tracee.
SetIds(s) ==
    LET same(i) == s.regs[i] \in {s.ids[i], -1}
    IN Result(IF \A i \in 1 .. 3 : same(i) THEN 0 ELSE -EPERM)

\* time(2) answers in PRoot; a bad address is reported.
TimeOf(s) ==
    IF s.regs[1] # NullAddress /\ ~Readable(s, s.regs[1]) THEN Result(-EFAULT) ELSE Result(s.now)

\* PRoot asks the host itself, and refuses what 32 bits do not hold.
TMPFS_MAGIC == 16914836
EOVERFLOW == 75

Statfs(s) ==
    CASE s.host.error > 0 -> Result(-s.host.error)
      [] s.host.error = 0 /\ s.host.wide -> Result(-EOVERFLOW)
      [] OTHER -> Result(0) @@
                  [mem |-> (s.regs[2] :> <<IF s.host.underShm THEN TMPFS_MAGIC ELSE s.host.type>>) @@ s.mem]

\* 32-bit x86 puts its four arguments in memory and asks socketcall(2).
SYS_SENDMMSG == 20

Sendmmsg(s) ==
    Poked(s, "socketcall", <<Put(1, SYS_SENDMMSG), Put(2, Scratch)>>,
          AllocAndWrite(s, SubSeq(s.regs, 1, 4)))

Emulated == {"mount", "pivot_root", "umount", "umount2", "unshare", "setns", "setgroups", "setgroups32"}

HandleSigsys(s) ==
    CASE s.ext < 0 -> Result(s.ext)
      [] s.ext = 1 -> Result(0)
      [] s.ext = 2 -> Result(s.extResult)
      [] s.ext = 0 /\ s.call \in DOMAIN Recoded -> Poked(s, Recoded[s.call].as, Recoded[s.call].pokes, s.mem)
      [] s.ext = 0 /\ s.call = "openat2" -> Openat2(s)
      [] s.ext = 0 /\ s.call \in {"utimes", "utime"} -> SetTimes(s)
      [] s.ext = 0 /\ s.call = "poll" -> PollTimes(s)
      [] s.ext = 0 /\ s.call = "select" -> SelectTimes(s)
      [] s.ext = 0 /\ s.call = "sendmmsg" -> Sendmmsg(s)
      [] s.ext = 0 /\ s.call = "statfs" -> Statfs(s)
      [] s.ext = 0 /\ s.call = "ftruncate" -> Ftruncate(s)
      [] s.ext = 0 /\ s.call \in {"setresuid", "setresgid"} -> SetIds(s)
      [] s.ext = 0 /\ s.call = "time" -> TimeOf(s)
      [] s.ext = 0 /\ s.call = "getpgrp" -> Result(s.pgid)
      [] s.ext = 0 /\ s.call \in Emulated -> Result(0)
      [] OTHER -> Result(-ENOSYS)

(***************************************************************************)
(* What the kernel does for a call: an operation and what it is about.     *)
(* Names without a directory are relative to the current one; a call that  *)
(* takes no flags does what its younger form does with none.  Left out of  *)
(* it, as the code leaves them out: the resolve flags of openat2 (seccomp.c*)
(* says why), and that ftruncate extends the sign of its 32-bit length.    *)
(***************************************************************************)
FirstOf(w, n) == SubSeq(w, 1, IF Len(w) < n THEN Len(w) ELSE n)
Words(mem, address) == IF address = NullAddress THEN << >> ELSE mem[address]
Millis(ts) == IF ts = << >> THEN << >> ELSE <<ts[1] * 1000 + ts[2] \div 1000000>>
Name(r, i) == <<AT_FDCWD, r[i]>>
NameAt(r, i) == <<r[i], r[i + 1]>>

Meaning(call, r, mem) ==
    LET at(op, name, rest) == [op |-> op, on |-> name, with |-> rest]
    IN CASE call = "open" -> at("open", Name(r, 1), <<r[2], r[3]>>)
         [] call = "openat" -> at("open", NameAt(r, 1), <<r[3], r[4]>>)
         [] call = "openat2" -> at("open", NameAt(r, 1), SubSeq(mem[r[3]], 1, 2))
         [] call = "symlink" -> at("symlink", Name(r, 2), <<r[1]>>)
         [] call = "symlinkat" -> at("symlink", NameAt(r, 2), <<r[1]>>)
         [] call = "link" -> at("link", Name(r, 1) \o Name(r, 2), <<0>>)
         [] call = "linkat" -> at("link", NameAt(r, 1) \o NameAt(r, 3), <<r[5]>>)
         [] call = "rename" -> at("rename", Name(r, 1) \o Name(r, 2), << >>)
         [] call = "renameat" -> at("rename", NameAt(r, 1) \o NameAt(r, 3), << >>)
         [] call = "chmod" -> at("chmod", Name(r, 1), <<r[2]>>)
         [] call = "fchmodat" -> at("chmod", NameAt(r, 1), <<r[3]>>)
         [] call \in {"chown", "chown32"} -> at("chown", Name(r, 1), <<r[2], r[3], 0>>)
         [] call \in {"lchown", "lchown32"} -> at("chown", Name(r, 1), <<r[2], r[3], AT_SYMLINK_NOFOLLOW>>)
         [] call = "fchownat" -> at("chown", NameAt(r, 1), <<r[3], r[4], r[5]>>)
         [] call = "unlink" -> at("unlink", Name(r, 1), <<0>>)
         [] call = "rmdir" -> at("unlink", Name(r, 1), <<AT_REMOVEDIR>>)
         [] call = "unlinkat" -> at("unlink", NameAt(r, 1), <<r[3]>>)
         [] call = "accept" -> at("accept", <<r[1]>>, <<r[2], r[3], 0>>)
         [] call = "accept4" -> at("accept", <<r[1]>>, <<r[2], r[3], r[4]>>)
         [] call \in {"send", "recv"} -> at(call, <<r[1]>>, <<r[2], r[3], r[4], 0, 0>>)
         [] call = "sendto" -> at("send", <<r[1]>>, SubSeq(r, 2, 6))
         [] call = "recvfrom" -> at("recv", <<r[1]>>, SubSeq(r, 2, 6))
         [] call = "waitpid" -> at("wait", <<r[1]>>, <<r[2], r[3], 0>>)
         [] call = "wait4" -> at("wait", <<r[1]>>, <<r[2], r[3], r[4]>>)
         [] call = "stat" -> at("stat", Name(r, 1), <<r[2], 0>>)
         [] call = "lstat" -> at("stat", Name(r, 1), <<r[2], AT_SYMLINK_NOFOLLOW>>)
         [] call = "newfstatat" -> at("stat", NameAt(r, 1), <<r[3], r[4]>>)
         [] call = "pipe" -> at("pipe", <<r[1]>>, <<0>>)
         [] call = "pipe2" -> at("pipe", <<r[1]>>, <<r[2]>>)
         [] call = "dup2" -> at("dup", <<r[1]>>, <<r[2], 0>>)
         [] call = "dup3" -> at("dup", <<r[1]>>, <<r[2], r[3]>>)
         [] call = "access" -> at("access", Name(r, 1), <<r[2]>>)
         [] call = "faccessat" -> at("access", NameAt(r, 1), <<r[3]>>)
         [] call = "mkdir" -> at("mkdir", Name(r, 1), <<r[2]>>)
         [] call = "mkdirat" -> at("mkdir", NameAt(r, 1), <<r[3]>>)
         [] call \in {"epoll_wait", "epoll_pwait"} ->
              at("epoll", <<r[1]>>, SubSeq(r, 2, 4) \o (IF call = "epoll_wait" THEN <<0>> ELSE <<r[5]>>))
         [] call = "utimes" -> at("utime", Name(r, 1), Words(mem, r[2]))
         [] call = "utime" ->
              at("utime", Name(r, 1), LET w == Words(mem, r[2]) IN IF w = << >> THEN w ELSE <<w[1], 0, w[2], 0>>)
         [] call = "utimensat" ->
              at("utime", NameAt(r, 1), LET w == Words(mem, r[3])
                                        IN IF w = << >> THEN w ELSE <<w[1], w[2] \div 1000, w[3], w[4] \div 1000>>)
         [] call = "poll" -> at("poll", <<r[1]>>, <<r[2]>> \o (IF r[3] < 0 THEN << >> ELSE <<r[3]>>))
         [] call = "ppoll" -> at("poll", <<r[1]>>, <<r[2]>> \o Millis(Words(mem, r[3])))
         [] call = "select" -> at("select", <<r[1]>>, SubSeq(r, 2, 4) \o FirstOf(Words(mem, r[5]), 2))
         [] call = "pselect6" ->
              at("select", <<r[1]>>, SubSeq(r, 2, 4) \o (LET w == Words(mem, r[5])
                                                         IN IF w = << >> THEN w ELSE <<w[1], w[2] \div 1000>>))
         [] call = "ftruncate" -> at("ftruncate", <<r[1]>>, <<r[2], 0>>)
         [] call = "ftruncate64" -> at("ftruncate", <<r[1]>>, <<r[3], r[4]>>)
         [] call = "sendmmsg" -> at("sendmmsg", <<r[1]>>, SubSeq(r, 2, 4))
         [] call = "socketcall" -> at("sendmmsg", <<mem[r[2]][1]>>, SubSeq(mem[r[2]], 2, 4))

\* A call put again does what the call the tracee made would have done.
ReplacementFaithful(s) ==
    LET out == HandleSigsys(s)
    IN out.restarted => Meaning(out.call, out.regs, out.mem) = Meaning(s.call, s.regs, s.mem)
==============================================================================

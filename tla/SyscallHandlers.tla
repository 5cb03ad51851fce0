--------------------------- MODULE SyscallHandlers ---------------------------
(***************************************************************************)
(* The handlers of translate_syscall_enter and translate_syscall_exit for  *)
(* one tracee under the seccomp filter: which name arguments a call has    *)
(* and whether their last component is followed, which calls PRoot answers *)
(* itself, and which of them are seen again when the kernel returns.       *)
(*                                                                         *)
(* The filter stops the tracee at a call only if the call is in the        *)
(* filter, and at its end only if the filter or the entry handler asked    *)
(* for it; while restart_how is PTRACE_SYSCALL every call stops twice.     *)
(***************************************************************************)
EXTENDS Integers, SequencesExt, FiniteSetsExt

CONSTANT TraceeFds   \* descriptors of the tracee

VARIABLES
    restart,       \* restart_how: "cont" or "syscall" (sysexit_pending with it)
    auxvFd,        \* tracee->auxv_fd, -1 or a descriptor
    noNewPrivs,    \* tracee->no_new_privs
    files,          \* TraceeFds -> "free", "auxv" or "file": the kernel's view
    asked,         \* did the guest set no_new_privs: the kernel's view
    last           \* the last call and what PRoot made of it

handlerVars == <<restart, auxvFd, noNewPrivs, files, asked, last>>

(***************************************************************************)
(* Entry: the names of a call.  A name has its register, the register of   *)
(* the directory it is relative to (0 for the current one), and whether    *)
(* its last component is followed.                                         *)
(***************************************************************************)
Name(reg, dir, followed) == [reg |-> reg, dir |-> dir, followed |-> followed]

FirstFollowed ==
    {"access", "acct", "chmod", "chown", "chown32", "chroot", "getxattr", "listxattr", "mknod",
     "oldstat", "creat", "removexattr", "setxattr", "stat", "stat64", "statfs", "statfs64", "swapoff",
     "swapon", "truncate", "truncate64", "uselib", "utime", "utimes"}
AtByFlag == {"fchownat", "fstatat64", "newfstatat", "utimensat", "name_to_handle_at"}
AtFollowed == {"fchmodat", "faccessat", "faccessat2", "futimesat", "mknodat"}
FirstKept ==
    {"readlink", "lchown", "lchown32", "lgetxattr", "llistxattr", "lremovexattr", "lsetxattr", "lstat",
     "lstat64", "oldlstat", "unlink", "rmdir", "mkdir"}
AtKept == {"readlinkat", "unlinkat", "mkdirat"}
Opens == {"open", "openat", "openat2"}

OpenKeeps(flags) == "O_NOFOLLOW" \in flags \/ {"O_EXCL", "O_CREAT"} \subseteq flags
OpenNames(call, flags) ==
    {IF call = "open" THEN Name(1, 0, ~OpenKeeps(flags)) ELSE Name(2, 1, ~OpenKeeps(flags))}

AtFlagNames(flags) == {Name(2, 1, "AT_SYMLINK_NOFOLLOW" \notin flags)}

\* Mutant of StatxNames: statx always follows.
MutStatxNames(flags) == {Name(2, 1, TRUE)}

StatxNames(flags) == {Name(2, 1, "AT_SYMLINK_NOFOLLOW" \notin flags)}
InotifyNames(flags) == {Name(2, 0, "IN_DONT_FOLLOW" \notin flags)}
LinkatNames(flags) == {Name(2, 1, "AT_SYMLINK_FOLLOW" \in flags), Name(4, 3, FALSE)}
SymlinkNames(call) == {IF call = "symlink" THEN Name(2, 0, FALSE) ELSE Name(3, 2, FALSE)}

RenameNames(call) ==
    IF call \in {"link", "rename"} THEN {Name(1, 0, FALSE), Name(2, 0, FALSE)}
    ELSE {Name(2, 1, FALSE), Name(4, 3, FALSE)}

NamesWhich(call, flags) ==
    CASE call \in FirstFollowed -> {Name(1, 0, TRUE)}
      [] call \in FirstKept -> {Name(1, 0, FALSE)}
      [] call \in AtByFlag -> AtFlagNames(flags)
      [] call \in AtFollowed -> {Name(2, 1, TRUE)}
      [] call \in AtKept -> {Name(2, 1, FALSE)}
      [] call \in Opens -> OpenNames(call, flags)
      [] call = "inotify_add_watch" -> InotifyNames(flags)
      [] call = "linkat" -> LinkatNames(flags)
      [] call \in {"link", "rename", "renameat", "renameat2"} -> RenameNames(call)
      [] call \in {"symlink", "symlinkat"} -> SymlinkNames(call)
      [] call = "statx" -> StatxNames(flags)
      [] OTHER -> {}

PathCalls ==
    FirstFollowed \cup FirstKept \cup AtByFlag \cup AtFollowed \cup AtKept \cup Opens \cup
    {"inotify_add_watch", "linkat", "link", "rename", "renameat", "renameat2", "symlink", "symlinkat", "statx"}

\* The flags that say whether a call follows its name.
FlagsOf(call) ==
    CASE call \in AtByFlag \cup {"statx"} -> {"AT_SYMLINK_NOFOLLOW"}
      [] call \in Opens -> {"O_NOFOLLOW", "O_EXCL", "O_CREAT"}
      [] call = "linkat" -> {"AT_SYMLINK_FOLLOW"}
      [] call = "inotify_add_watch" -> {"IN_DONT_FOLLOW"}
      [] OTHER -> {}

(***************************************************************************)
(* Calls PRoot answers itself: set_sysnum(PR_void) and a result.           *)
(***************************************************************************)
Voided == {"getcwd", "chdir", "fchdir", "unshare", "setns", "umount", "umount2", "mount", "pivot_root"}

(***************************************************************************)
(* The filter's lists, and the calls the exit stage has work for.          *)
(***************************************************************************)
OtherCalls ==
    {"accept", "accept4", "bind", "brk", "clone", "clone3", "close", "connect", "recvfrom", "recvmsg",
     "sendmsg", "sendto", "socket", "execve", "execveat", "getpeername", "getsockname", "ioctl",
     "memfd_create", "prctl", "prlimit64", "ptrace", "setrlimit", "socketcall", "uname", "wait4", "waitpid"}

Filtered == PathCalls \cup Voided \cup OtherCalls

\* Mutant of SysexitFlagged: readlinkat is filtered without its exit.
MutSysexitFlagged ==
    Voided \cup
    {"accept", "accept4", "brk", "socket", "execve", "execveat", "faccessat2", "getpeername",
     "getsockname", "ioctl", "prlimit64", "ptrace", "readlink", "rename", "renameat",
     "renameat2", "setrlimit", "socketcall", "statfs", "statfs64", "statx", "uname", "utime", "wait4", "waitpid"}

SysexitFlagged ==
    Voided \cup
    {"accept", "accept4", "brk", "socket", "execve", "execveat", "faccessat2", "getpeername",
     "getsockname", "ioctl", "prlimit64", "ptrace", "readlink", "readlinkat", "rename", "renameat",
     "renameat2", "setrlimit", "socketcall", "statfs", "statfs64", "statx", "uname", "utime", "wait4", "waitpid"}

\* Calls whose result or output the exit stage always has to put right.
ExitHandled ==
    {"brk", "getcwd", "accept", "accept4", "getsockname", "getpeername", "socketcall", "fchdir", "chdir",
     "unshare", "setns", "mount", "umount", "umount2", "pivot_root", "rename", "renameat", "readlink",
     "readlinkat", "uname", "execve", "execveat", "ptrace", "wait4", "waitpid", "setrlimit", "prlimit64",
     "utime", "statfs", "statfs64", "statx", "ioctl", "socket"}

(***************************************************************************)
(* The two stages: does the tracee stop when the call is made, and when it *)
(* returns, given that the entry handler wants to see the end or not.      *)
(***************************************************************************)
StopsAtEntry(call) == call \in Filtered \/ restart = "syscall"
StopsAtExit(call, wants) ==
    \/ restart = "syscall"
    \/ call \in Filtered /\ (call \in SysexitFlagged \/ wants)

Seen(call, flags, wants) ==
    [call |-> call, flags |-> flags, exit |-> StopsAtExit(call, wants),
     names |-> IF StopsAtEntry(call) THEN NamesWhich(call, flags) ELSE {},
     patched |-> FALSE, answer |-> -1]

\* After an exit stage the filter alone stops the tracee again, unless the
\* exit handler asks for every stop.
Resume(again) == restart' = IF again THEN "syscall" ELSE "cont"

(***************************************************************************)
(* Calls with names, calls PRoot answers and the others.                   *)
(***************************************************************************)
PathCall(call, flags) ==
    /\ last' = Seen(call, flags, FALSE)
    /\ Resume(FALSE)
    /\ UNCHANGED <<auxvFd, noNewPrivs, files, asked>>

OtherCall(call) ==
    /\ last' = Seen(call, {}, FALSE)
    /\ Resume(FALSE)
    /\ UNCHANGED <<auxvFd, noNewPrivs, files, asked>>

\* A call that is in no list (fstat, mmap, lseek).
UnfilteredCall ==
    /\ last' = Seen("fstat", {}, FALSE)
    /\ Resume(FALSE)
    /\ UNCHANGED <<auxvFd, noNewPrivs, files, asked>>

(***************************************************************************)
(* /proc/self/auxv: opens are noticed, reads patched, closes noticed.      *)
(***************************************************************************)
OpenCall(call, fd, what) ==
    LET wants == what = "auxv"
        seen == Seen(call, {}, wants)
    IN /\ files[fd] = "free"
       /\ files' = [files EXCEPT ![fd] = what]
       /\ auxvFd' = IF seen.exit /\ what = "auxv" THEN fd ELSE auxvFd
       /\ last' = seen
       /\ Resume(seen.exit /\ what = "auxv")
       /\ UNCHANGED <<noNewPrivs, asked>>

Read(fd) ==
    LET seen == Seen("read", {}, FALSE)
        patches == seen.exit /\ auxvFd = fd
    IN /\ files[fd] # "free"
       /\ last' = [seen EXCEPT !.patched = patches, !.answer = IF files[fd] = "auxv" THEN 1 ELSE 0]
       /\ Resume(patches)
       /\ UNCHANGED <<auxvFd, noNewPrivs, files, asked>>

Forget(fd) == IF auxvFd = fd THEN -1 ELSE auxvFd

CloseCall(fd) ==
    /\ files[fd] # "free"
    /\ files' = [files EXCEPT ![fd] = "free"]
    /\ auxvFd' = Forget(fd)
    /\ last' = Seen("close", {}, FALSE)
    /\ Resume(FALSE)
    /\ UNCHANGED <<noNewPrivs, asked>>

(***************************************************************************)
(* prctl: the flag PRoot set for its own filter is hidden from the guest,  *)
(* the guest's own is remembered when the kernel accepts it.               *)
(***************************************************************************)
\* Mutant of WantsEnd: PRoot answers at once, whatever the option.
MutWantsEnd(option) == FALSE

WantsEnd(option) == option = "PR_SET_NO_NEW_PRIVS"

SetNoNewPrivs(accepted) ==
    LET seen == Seen("prctl", {}, WantsEnd("PR_SET_NO_NEW_PRIVS"))
    IN /\ noNewPrivs' = (noNewPrivs \/ (seen.exit /\ accepted))
       /\ asked' = (asked \/ accepted)
       /\ last' = seen
       /\ Resume(FALSE)
       /\ UNCHANGED <<auxvFd, files>>

GetNoNewPrivs ==
    /\ last' = [Seen("prctl", {}, FALSE) EXCEPT !.answer = IF noNewPrivs THEN 1 ELSE 0]
    /\ Resume(FALSE)
    /\ UNCHANGED <<auxvFd, noNewPrivs, files, asked>>

HandlerInit ==
    /\ restart = "cont"
    /\ auxvFd = -1
    /\ noNewPrivs = FALSE
    /\ files = [fd \in TraceeFds |-> "free"]
    /\ asked = FALSE
    /\ last = [call |-> "execve", flags |-> {}, exit |-> TRUE, names |-> {}, patched |-> FALSE, answer |-> -1]

HandlerNext ==
    \/ \E call \in PathCalls : \E flags \in SUBSET FlagsOf(call) : PathCall(call, flags)
    \/ \E call \in (OtherCalls \ {"close", "prctl"}) \cup Voided : OtherCall(call)
    \/ UnfilteredCall
    \/ \E call \in Opens, fd \in TraceeFds, what \in {"auxv", "file"} : OpenCall(call, fd, what)
    \/ \E fd \in TraceeFds : Read(fd) \/ CloseCall(fd)
    \/ \E accepted \in BOOLEAN : SetNoNewPrivs(accepted)
    \/ GetNoNewPrivs

HandlerSpec == HandlerInit /\ [][HandlerNext]_handlerVars

(***************************************************************************)
(* What the kernel does with the last component of a name.  The calls left *)
(* out are those the handlers treat otherwise on purpose or by omission.   *)
(***************************************************************************)
Deviating == {"mknod", "mknodat", "faccessat2", "name_to_handle_at"}

KernelKeeps(call, flags) ==
    \/ call \in {"lchown", "lchown32", "lgetxattr", "llistxattr", "lremovexattr", "lsetxattr", "lstat", "lstat64",
                 "oldlstat", "readlink", "readlinkat", "unlink", "unlinkat", "rmdir", "mkdir", "mkdirat",
                 "link", "rename", "renameat", "renameat2", "symlink", "symlinkat"}
    \/ call \in {"fchownat", "fstatat64", "newfstatat", "utimensat", "statx"} /\ "AT_SYMLINK_NOFOLLOW" \in flags
    \/ call = "linkat" /\ "AT_SYMLINK_FOLLOW" \notin flags
    \/ call = "inotify_add_watch" /\ "IN_DONT_FOLLOW" \in flags
    \/ call \in Opens /\ ("O_NOFOLLOW" \in flags \/ {"O_EXCL", "O_CREAT"} \subseteq flags)

\* The name a call is about: the first one, for a call that has two.
FollowsAsKernel ==
    last.call \in PathCalls \ Deviating =>
        \E n \in last.names : /\ \A m \in last.names : n.reg <= m.reg
                              /\ n.followed = ~KernelKeeps(last.call, last.flags)

(***************************************************************************)
(* A call whose result PRoot has to put right is seen again at its end,    *)
(* however the calls before it left the way the tracee is restarted.       *)
(***************************************************************************)
EndsSeen == last.call \in ExitHandled => last.exit

(***************************************************************************)
(* The guest is told of no_new_privs exactly what it asked itself.         *)
(***************************************************************************)
PrivsAsAsked == noNewPrivs = asked

(***************************************************************************)
(* The handlers do of a call what the kernel would: on its names, on its   *)
(* end, and on the flag they keep (syscall/enter.c, syscall/exit.c).       *)
(***************************************************************************)
HandledAsAsked == FollowsAsKernel /\ EndsSeen /\ PrivsAsAsked

(***************************************************************************)
(* "Track /proc/self/auxv opens so read() results can be patched": what a  *)
(* read of that file returns has been patched.                             *)
(***************************************************************************)
AuxvPatched == last.call = "read" /\ last.answer = 1 => last.patched
==============================================================================

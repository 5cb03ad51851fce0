---------------------------- MODULE SyscallOutputs ----------------------------
(***************************************************************************)
(* What translate_syscall_exit writes in the tracee's memory: paths that   *)
(* the kernel gives in the host's terms, put in the guest's, in a buffer   *)
(* whose size the tracee chose; and the stack limit PRoot takes over.      *)
(*                                                                         *)
(* A text is a sequence of characters without its terminator.  A host      *)
(* path is under the root of the guest or not (detranslate_path).          *)
(***************************************************************************)
EXTENDS Integers, SequencesExt

CONSTANTS
    PathMax,       \* PATH_MAX
    SunPathMax,    \* sizeof(sun_path)
    SunPathOffset  \* offsetof(struct sockaddr_un, sun_path)

NUL == "NUL"
Cut(text, n) == SubSeq(text, 1, IF Len(text) < n THEN Len(text) ELSE n)
Least(m, n) == IF m < n THEN m ELSE n

\* detranslate_path: nothing to do outside of the root.
UnderRoot(text, root) == text = root \/ IsPrefix(Append(root, "/"), text)
InGuest(text, root) ==
    CASE text = root -> <<"/">>
      [] IsPrefix(Append(root, "/"), text) -> SubSeq(text, Len(root) + 1, Len(text))
      [] OTHER -> text

(***************************************************************************)
(* readlink: the target the kernel gave, read again when it may be cut.    *)
(***************************************************************************)
\* Mutant of WholeTarget: what the kernel cut is not read again.
MutWholeTarget(got, target, max) == got

WholeTarget(got, target, max) == IF Len(got) = max THEN target ELSE got

ReadlinkExit(target, root, size) ==
    LET max   == Least(size, PathMax)
        got   == Cut(target, size)
        whole == WholeTarget(got, target, max)
        guest == InGuest(whole, root)
    IN CASE ~UnderRoot(whole, root) -> got
         [] UnderRoot(whole, root) /\ Len(guest) + 1 < max -> guest
         [] OTHER -> Cut(guest \o <<NUL>>, max)

(***************************************************************************)
(* getcwd: the directory PRoot remembers, if it is still there; the result *)
(* counts the terminator.                                                  *)
(***************************************************************************)
Getcwd(cwd, there, size) ==
    CASE size = 0 -> [error |-> 22, text |-> << >>]
      [] size > 0 /\ ~there -> [error |-> 2, text |-> << >>]
      [] size > 0 /\ there /\ size < Len(cwd) + 1 -> [error |-> 34, text |-> << >>]
      [] OTHER -> [error |-> 0, text |-> Append(cwd, NUL)]

(***************************************************************************)
(* Socket addresses.  An address is [family, path, full]: a path may fill  *)
(* sun_path without a terminator.                                          *)
(***************************************************************************)
\* read_sockaddr_un: the path of a named Unix socket that fits, or nothing.
NamedSocket(family, path, size, max) ==
    size > SunPathOffset /\ size <= max /\ family = "unix" /\ path # << >>

\* translate_socketcall_enter: a path too long for sun_path is reached by a
\* binding of a shorter one, shorter.
SentPath(host, shorter) ==
    IF Len(host) > SunPathMax
    THEN IF Len(shorter) > SunPathMax THEN << >> ELSE shorter
    ELSE host

\* translate_socketcall_exit: size is what the kernel says, max the room the
\* tracee gave; the size told is over the room when the path was cut.
SockaddrMax == SunPathOffset + SunPathMax

ReceivedName(family, host, size, room, root) ==
    LET max   == Least(room, SockaddrMax)
        path  == Cut(host, SunPathMax)
        guest == InGuest(path, root)
        told  == SunPathOffset + Len(guest) + 1
    IN IF ~NamedSocket(family, host, size, max) THEN [size |-> size, path |-> host]
       ELSE IF told > max THEN [size |-> max + 1, path |-> Cut(guest, max - SunPathOffset)]
       ELSE [size |-> told, path |-> guest]

(***************************************************************************)
(* setrlimit, prlimit: PRoot's own soft stack limit follows the largest.   *)
(***************************************************************************)
StackLimit(own, resource, asked, hard) ==
    IF resource # "stack" \/ own >= asked \/ asked > hard THEN own ELSE asked

(***************************************************************************)
(* What the kernel would have given if the root were the guest's.          *)
(***************************************************************************)
ReadlinkWanted(target, root, size) == Cut(InGuest(target, root), size)

\* The size the code gets wrong: the result then counts the terminator.
OneMore(target, root, size) == UnderRoot(target, root) /\ Least(size, PathMax) = Len(InGuest(target, root)) + 1

ReadlinkExact(target, root, size) ==
    ReadlinkExit(target, root, size) = ReadlinkWanted(target, root, size)

\* A name in the guest's terms, never past the room the tracee gave.
ReceivedRight(host, size, room, root) ==
    LET got == ReceivedName("unix", host, size, room, root)
    IN NamedSocket("unix", host, size, Least(room, SockaddrMax)) =>
         /\ SunPathOffset + Len(got.path) <= room
         /\ got.size <= room => got.path = InGuest(Cut(host, SunPathMax), root)
==============================================================================

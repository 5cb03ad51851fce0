--------------------------- MODULE SmallExtensions ---------------------------
(***************************************************************************)
(* Four extensions that change what a few system calls see: hidden files,  *)
(* the mount table of a sandbox, privileged ports and shared memory        *)
(* without memfd_create(2).  Each is a function of the call.               *)
(***************************************************************************)
EXTENDS Integers, Sequences, SequencesExt

CONSTANTS PORT_THRESHOLD, PORT_ADDITION

-----------------------------------------------------------------------------
(* hidden_files: a directory is a sequence of entries [name, hidden, len]. *)

Visible(entries) == SelectSeq(entries, LAMBDA e : ~e.hidden)
Length(entries) == FoldLeft(LAMBDA n, e : n + e.len, 0, entries)

\* getdents(2): the entries from p on that fit, at least one.
Fitting(dir, p, count) ==
    LET fits == {n \in 1 .. Len(dir) - p + 1 : Length(SubSeq(dir, p, p + n - 1)) <= count}
    IN  CHOOSE n \in fits : \A k \in fits : k <= n

\* Mutant of NothingLeft: the guest is told that the directory is over.
MutNothingLeft(shown) == FALSE

\* "call getdents again".
NothingLeft(shown) == shown = << >>

\* A call of the guest at p: what it gets, and where the next one begins; handle_getdents,
\* at the end of the call and of those it chains.
handle_getdents(dir, p, count) ==
    LET read[q \in 1 .. Len(dir) + 1] ==
            IF q > Len(dir) THEN [shown |-> << >>, next |-> q]
            ELSE LET n == Fitting(dir, q, count)
                     shown == Visible(SubSeq(dir, q, q + n - 1))
                 IN  IF NothingLeft(shown) THEN read[q + n] ELSE [shown |-> shown, next |-> q + n]
    IN  read[p]

\* readdir(3), until a call gets nothing.
Listing(dir, count) ==
    LET from[p \in 1 .. Len(dir) + 1] ==
            LET got == handle_getdents(dir, p, count)
            IN  IF got.shown = << >> THEN << >> ELSE got.shown \o from[got.next]
    IN  from[1]

\* A directory is listed whole and in order, but for its hidden files.
HidesOnly(dir, count) == Listing(dir, count) = Visible(dir)

-----------------------------------------------------------------------------
(* mountinfo: a line is the place of its mount, a sequence of names, or a  *)
(* malformed one, which has no place.                                      *)

Malformed == <<"?">>
Data == <<"data">>
Standard(place) == \/ place # << >> /\ place[1] \in {"dev", "sys"}
                   \/ place \in {<<"proc">>, <<"tmp">>}

\* Mutant of Runtime: the root binding is not skipped.
MutRuntime(bindings) == bindings

\* append_runtime_binding_lines.
Runtime(bindings) == SelectSeq(bindings, LAMBDA b : b # << >>)

\* mountinfo_check_open_path: what an open of /proc/<pid>/mountinfo shows.
mountinfo(lines, bindings, root) ==
    LET android == IsPrefix(Data, root)
        found == ~android \/ Contains(lines, Data)
        faked == IF android THEN <<<< >>>> \o SelectSeq(lines, Standard) ELSE lines
    IN  IF (~android /\ Runtime(bindings) = << >>) \/ ~found THEN lines
        ELSE faked \o Runtime(bindings)

\* The guest has one root; a sandbox finds what it mounted, when the fake table is made.
MountTableRight(lines, bindings, root) ==
    LET shown == mountinfo(lines, bindings, root)
        roots == SelectSeq(shown, LAMBDA place : place = << >>)
    IN  Contains(lines, Data) \/ ~IsPrefix(Data, root) =>
          /\ Len(roots) = 1
          /\ \A i \in DOMAIN bindings : Contains(shown, bindings[i])

-----------------------------------------------------------------------------
(* port_switch: an address is [family, host, port].                        *)

is_localhost(addr) == addr.family \in {"INET", "INET6"} /\ addr.host = "loopback"

\* Mutant of Privileged: the threshold itself is moved.
MutPrivileged(port) == port > 0 /\ port <= PORT_THRESHOLD

Privileged(port) == port > 0 /\ port < PORT_THRESHOLD

\* sendto() of an IPv6 address is meant to be written back, but its branch repeats the
\* condition of the one before.
WrittenBack(call, wrapped, addr) == call # "sendto" \/ wrapped \/ addr.family = "INET"

mod_port(call, wrapped, addr) ==
    IF addr.family \in {"INET", "INET6"} /\ Privileged(addr.port) /\ WrittenBack(call, wrapped, addr)
    THEN [addr EXCEPT !.port = @ + PORT_ADDITION] ELSE addr

\* port_switch_callback: the address the kernel is given.
Switched(call, wrapped, addr) ==
    IF call = "bind" \/ is_localhost(addr) THEN mod_port(call, wrapped, addr) ELSE addr

\* A client of the guest reaches the server of the guest whose port it names, but by
\* sendto() of an IPv6 address (WrittenBack); an address used again is not moved twice, and
\* what is not local or not privileged is left alone.
PortsMeet(call, wrapped, addr) ==
    LET at == Switched(call, wrapped, addr).port
    IN  /\ Switched(call, wrapped, [addr EXCEPT !.port = at]).port = at
        /\ addr.port \notin 1 .. PORT_THRESHOLD - 1 => at = addr.port
        /\ call # "bind" /\ ~is_localhost(addr) => at = addr.port
        /\ is_localhost(addr) /\ WrittenBack(call, wrapped, addr) => at = Switched("bind", FALSE, addr).port

-----------------------------------------------------------------------------
(* ashmem_memfd: shared memory where memfd_create(2) is missing.  The      *)
(* state is the kind and the size of one descriptor, the extension's       *)
(* chain_state and the st_size of the last stat.                           *)

Unopened == [kind |-> "none", size |-> 0, chain |-> "IDLE", st_size |-> -1]

\* ashmem_memfd_handle_memfd_create.
memfd_create(s, supported) == [s EXCEPT !.kind = IF supported THEN "memfd" ELSE "ashmem", !.size = 0]

\* ashmem_memfd_handle_stat_exit: st_size is what the kernel has put at the address.
StatExit(s, st_size) ==
    IF st_size # 0 THEN [s EXCEPT !.chain = "IDLE"] ELSE [s EXCEPT !.chain = "CHAINED_IOCTL"]

\* SYSCALL_CHAINED_EXIT, the result of ASHMEM_GET_SIZE.
ChainedExit(s) ==
    IF s.chain = "CHAINED_IOCTL" THEN [s EXCEPT !.chain = "IDLE", !.st_size = s.size] ELSE s

\* ftruncate(2): becomes ASHMEM_SET_SIZE, and goes on into the case of fstat, with the
\* number of the ioctl as the address of its buffer; nothing but an error is read there.
ftruncate(s, n) ==
    IF s.kind = "ashmem" THEN ChainedExit(StatExit([s EXCEPT !.size = n, !.chain = "ENTERED"], -1))
    ELSE [s EXCEPT !.size = n]

\* fstat(2) and fstatat64(2) of a descriptor; the kernel knows no size of an ashmem.
fstat(s) ==
    IF s.kind = "ashmem"
    THEN ChainedExit(StatExit([s EXCEPT !.chain = "ENTERED", !.st_size = 0], 0))
    ELSE [s EXCEPT !.st_size = s.size]

\* A call is its name and the size it gives.
Call(s, call, supported) == CASE call[1] = "memfd_create" -> memfd_create(s, supported)
                              [] call[1] = "ftruncate" -> ftruncate(s, call[2])
                              [] call[1] = "fstat" -> fstat(s)

\* The sizes a guest sees are those of a memfd.
SizesOfMemfd(calls) ==
    LET end(supported) == FoldLeft(LAMBDA s, c : Call(s, c, supported), Unopened, calls)
    IN  end(FALSE).st_size = end(TRUE).st_size /\ end(FALSE).chain = "IDLE"
==============================================================================

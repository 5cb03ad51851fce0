---------------------------- MODULE MCAlgorithms ----------------------------
(***************************************************************************)
(* The pure parts of PRoot over bounded inputs: each initial state asks    *)
(* one of them a question, an invariant per part says what the answer is.  *)
(***************************************************************************)
EXTENDS PathCanon, NetlinkReply, SyscallFilter, SigsysReplace, SyscallOutputs,
        Shebang, ElfLoad, TraceeMemory, ArgumentArray, SmallExtensions

VARIABLES question, answered

(***************************************************************************)
(* PathCanon                                                               *)
(***************************************************************************)

MCRoot == <<Binding(<<"proc">>, <<"proc">>, TRUE), Binding(<<"h">>, <<"b">>, TRUE),
            Binding(<< >>, <<"o">>, TRUE), Binding(<<"r">>, << >>, TRUE)>>

MCNode(links) ==
    [p \in {<< >>, <<"r">>, <<"r", "a">>, <<"h">>, <<"proc">>, <<"proc", "1">>,
            <<"proc", "1", "fd">>} |-> Dir]
    @@ [p \in {<<"r", "a", "f">>, <<"h", "g">>} |-> File]
    @@ (<<"proc", "self">> :> Link(FALSE, <<"9">>)) @@
       (<<"proc", "1", "cwd">> :> Link(TRUE, <<"r", "a">>)) @@
       (<<"proc", "1", "fd", "3">> :> Link(TRUE, <<"r", "a", "f">>))
    @@ links

\* Links of the rootfs, to and fro, and of a binding.
MCLinks ==
    << <<"r", "l">> :> Link(FALSE, <<"a">>) @@ <<"r", "a", "l">> :> Link(FALSE, <<"..", "l", "f">>)
         @@ <<"r", "a", "x">> :> Link(TRUE, <<"a", "x">>) @@ <<"h", "l">> :> Link(TRUE, <<"h", "g">>),
       <<"r", "l">> :> Link(TRUE, <<"b", "l">>) @@ <<"h", "l">> :> Link(TRUE, <<"a", "..", "x">>)
         @@ <<"r", "x">> :> Link(FALSE, <<"b", "..", "a">>) @@ <<"r", "a", "x">> :> Link(TRUE, <<"r", "x">>),
       <<"r", "l">> :> Link(FALSE, <<".">>) @@ <<"r", "x">> :> Link(TRUE, <<"proc", "self", "cwd">>)
         @@ <<"r", "a", "x">> :> Link(FALSE, <<"none">>) >>

MCWorlds ==
    [i \in DOMAIN MCLinks |->
        [ns |-> Initialize(Pending(MCRoot)), node |-> MCNode(MCLinks[i]), me |-> "1",
         cwd |-> [pid \in {"1"} |-> <<"a">>], exe |-> [pid \in {"1"} |-> <<"a", "f">>]]]

MCNames == {"a", "f", "l", "x", "b", "g", "..", ".", "proc", "self", "1", "cwd", "exe", "root", "fd", "3", "o", "n"}

MCTexts == {[abs |-> abs, names |-> names, slash |-> slash] :
               abs \in BOOLEAN, slash \in BOOLEAN,
               names \in UNION {[1 .. k -> MCNames] : k \in 1 .. 3}}

MCCanonQuestions ==
    [part: {"canon"}, world: DOMAIN MCLinks, user: MCTexts, deref: BOOLEAN]

CanonIsKernels ==
    question.part = "canon" =>
        CanonAgrees(MCWorlds[question.world], question.user, question.deref, <<"a">>)

(***************************************************************************)
(* NetlinkReply: up to six entries of three interfaces, a long name among  *)
(* them; route dumps that end, that do not, and that do not fit.           *)
(***************************************************************************)
MCEntries ==
    {[name |-> "lo", length |-> 2, index |-> 1, hwlen |-> 6, family |-> "packet"],
     [name |-> "wl", length |-> 15, index |-> 3, hwlen |-> 8, family |-> "packet"],
     [name |-> "lo", length |-> 2, index |-> 1, hwlen |-> 0, family |-> "inet"],
     [name |-> "rm", length |-> 5, index |-> 7, hwlen |-> 0, family |-> "inet6"]}

MCRoute(len) == [type |-> "NEWROUTE", len |-> len]
MCDone == [type |-> "DONE", len |-> 20]

MCRoutes == {<< >>, <<<<MCRoute(60), MCRoute(53)>>, <<MCDone>>>>,
             <<<<MCRoute(60)>>>>, <<<<MCRoute(200), MCRoute(200), MCRoute(120)>>, <<MCDone>>>>,
             <<<<MCRoute(60)>>, <<MCRoute(60)>>, <<MCRoute(60)>>, <<MCDone>>>>}

MCRequests ==
    [type: {"GETLINK", "GETADDR", "GETROUTE", "NEWADDR"}, dump: BOOLEAN, whole: BOOLEAN,
     family: {"unspec", "inet", "inet6"}, name: {NoName, "lo", "rm"}, index: {0, 1, 7}]

MCNetlinkQuestions ==
    [part: {"netlink"}, req: MCRequests, routes: MCRoutes,
     ifaddrs: {<< >>} \cup {s \o t : s \in [1 .. 1 -> MCEntries], t \in [1 .. 2 -> MCEntries]}
                    \cup {s \o s : s \in [1 .. 3 -> MCEntries]}]

RepliesWellFormed ==
    question.part = "netlink" => ReplyWellFormed(question, question.req)

(***************************************************************************)
(* SyscallFilter: the two ABIs of x86_64 and the one of i386, calls that   *)
(* exist in one only, and a call asked for with and without its exit.      *)
(***************************************************************************)
MCArchs == <<[value |-> 62, abis |-> <<(0 :> "open" @@ 1 :> "chmod"), (11 :> "open" @@ 12 :> "mount")>>],
             [value |-> 3, abis |-> <<(5 :> "open" @@ 1 :> "mount")>>]>>

MCItems == [value: {"open", "chmod", "mount"}, flags: {0, FILTER_SYSEXIT}]
MCLists(n) == UNION {[1 .. k -> MCItems] : k \in 0 .. n}

MCFilterQuestions ==
    [part: {"filter"}, proot: MCLists(2), extension: MCLists(2),
     arch: {62, 3, 40}, nr: {0, 1, 5, 11, 12}]

(***************************************************************************)
(* The filter stops a tracee at every call PRoot or an extension handles,  *)
(* with the exit stage whenever one of them asked for it, at no other      *)
(* call, and kills what runs under another architecture.                   *)
(***************************************************************************)
FilterStops ==
    question.part = "filter" =>
        FilterExact(MCArchs, <<question.proot, question.extension>>, question.arch, question.nr)

(***************************************************************************)
(* SigsysReplace: registers are told apart, the ones that are addresses    *)
(* may be null or bad, and timeouts are none, at once, short and long.     *)
(***************************************************************************)
MCMem == (31 :> <<7, 5, 9, 3>>) @@ (51 :> <<4, 999999, 0, 0>>) @@ (52 :> <<0, 0, 0, 0>>)
           @@ (53 :> <<0, 1000000, 0, 0>>)

MCHosts == {[error |-> IF k = 3 THEN 2 ELSE 0, wide |-> k = 2, underShm |-> k = 1, type |-> 61267] : k \in 0 .. 3}

MCSigsysQuestions ==
    [part: {"sigsys"}, ext: {-13, 0, 1, 2}, extResult: {5}, now: {99}, pgid: {1}, mem: {MCMem},
     ids: {<<1, 2, 3>>}, host: MCHosts,
     call: DOMAIN Recoded \cup Emulated \cup
           {"openat2", "utimes", "utime", "poll", "select", "ftruncate", "setresuid", "time", "getpgrp",
            "statfs", "sendmmsg", "creat"},
     regs: {<<a, b, c, 14, e, 16>> : a \in {1, 11}, b \in {0, 12, 31, 52}, c \in {-1, 0, 3, 2500, 31, 52},
                                     e \in {0, 15, 51, 52, 53}}]

(***************************************************************************)
(* A call the policy of the Android parent refuses and PRoot puts again in *)
(* another form does what the tracee asked for: the same names from the    *)
(* same directories, the same flags, the same times.                       *)
(***************************************************************************)
ReplacementsFaithful == question.part = "sigsys" => ReplacementFaithful(question)

(***************************************************************************)
(* SyscallOutputs: targets and socket names in and out of a root of two    *)
(* characters, longer and shorter than every buffer.                       *)
(***************************************************************************)
MCTargets == {<<"/">> \o t : t \in UNION {[1 .. k -> {"r", "x", "/"}] : k \in 0 .. 4}}

MCOutputQuestions ==
    [part: {"readlink"}, target: MCTargets, size: 1 .. 7, room: {0}] \cup
    [part: {"sockaddr"}, target: MCTargets, size: 2 .. 7, room: 0 .. 7]

(***************************************************************************)
(* A link or a socket name read in the guest is the one of the guest's     *)
(* tree, cut where the tracee's buffer ends; the one size of a buffer      *)
(* where readlink counts the terminator is LinkBytesOnly's.                *)
(***************************************************************************)
OutputsInGuestTerms ==
    /\ question.part = "readlink" /\ ~OneMore(question.target, <<"/", "r">>, question.size) =>
         ReadlinkExact(question.target, <<"/", "r">>, question.size)
    /\ question.part = "sockaddr" =>
         ReceivedRight(question.target, question.size, question.room, <<"/", "r">>)

(***************************************************************************)
(* "The kernel does NOT put the NULL terminating byte for readlink(2)"     *)
(* (syscall/exit.c:374): the result is the bytes of the target.            *)
(***************************************************************************)
LinkBytesOnly ==
    question.part = "readlink" => ReadlinkExact(question.target, <<"/", "r">>, question.size)

(***************************************************************************)
(* Shebang: every script of up to nine characters, and scripts that lead  *)
(* to others, to themselves, to programs and to nothing.                   *)
(***************************************************************************)
MCScripts(n) == {<<"#", "!">> \o t : t \in UNION {[1 .. k -> {"SP", "NL", "CR", "a"}] : k \in 0 .. n}}
                  \cup {<< >>, <<"#">>, <<"a", "!", "a">>}

MCScriptQuestions ==
    [part: {"shebang"}, text: MCScripts(7)] \cup
    [part: {"scripts"}, text: MCScripts(5), argv: {<< >>, <<"x">>, <<"x", "y">>},
     next: {<<"#", "!", "b", "NL">>, <<"#", "!", "a", "NL">>, <<"a">>}, executable: BOOLEAN]

MCFiles(text, next, executable) ==
    (<<"s">> :> [text |-> text, executable |-> TRUE]) @@ (<<"b">> :> [text |-> <<"E">>, executable |-> TRUE])
    @@ (<<"a">> :> [text |-> next, executable |-> executable])

(***************************************************************************)
(* A script is given to the interpreter, and with the arguments, Linux     *)
(* gives it to, through as many scripts as there are (execve/shebang.c).   *)
(***************************************************************************)
ScriptsAsKernel ==
    /\ question.part = "shebang" => ShebangAsKernel(question.text)
    /\ question.part = "scripts" =>
         ArgumentsAsKernel(MCFiles(question.text, question.next, question.executable),
                           <<"s">>, question.argv)

(***************************************************************************)
(* ElfLoad: programs of one or two segments that begin and end at, before  *)
(* and after the bounds of a page, with zeroed parts of up to two pages,   *)
(* fixed and position independent, with and without an interpreter.        *)
(***************************************************************************)
MCSegments(vaddrs, offsets, memszs) ==
    {s \in [vaddr: vaddrs, offset: offsets, filesz: 0 .. 3, memsz: memszs] :
        s.memsz >= s.filesz /\ s.vaddr % Page = s.offset % Page}

MCImages ==
    {<<s>> : s \in MCSegments(0 .. 3, 0 .. 3, 1 .. 5)} \cup
    {<<s, t>> : s \in {x \in MCSegments(0 .. 3, 0 .. 3, 1 .. 4) : x.vaddr + x.memsz <= 4},
                t \in MCSegments(4 .. 7, 2 .. 5, {1, 2, 4})}

MCProgram(id, segments, size, pic, interp) ==
    [id |-> id, segments |-> segments, size |-> size, phoff |-> 1, entry |-> 2, pic |-> pic,
     execstack |-> FALSE, interp |-> interp]

MCInterp ==
    [MCProgram("ld", <<[vaddr |-> 0, offset |-> 0, filesz |-> 3, memsz |-> 6]>>, 5, TRUE, NoProgram)
        EXCEPT !.execstack = TRUE]

MCPrograms ==
    {p \in {MCProgram("p", segments, size, pic, interp) :
               segments \in MCImages, size \in {4, 8}, pic \in BOOLEAN, interp \in {MCInterp, NoProgram}} :
        \A i \in DOMAIN p.segments : p.segments[i].offset + p.segments[i].filesz <= p.size}

MCProgramQuestions ==
    [part: {"elf"}, program: MCPrograms] \cup
    [part: {"place"}, sp: 200 .. 215, sizes: (2 .. 9) \X {0, 5, 6} \X {0, 3, 8}, interp: {MCInterp, NoProgram}]

(***************************************************************************)
(* What the loader starts is in memory as its ELF file says, zeroes after  *)
(* its initialised data included, and nothing the load script points to is *)
(* overwritten by it (execve/enter.c, execve/exit.c, loader/loader.c).     *)
(***************************************************************************)
ImagesRight ==
    /\ question.part = "elf" => ImageRight(question.program, 0 .. 60)
    /\ question.part = "place" =>
         ScriptPlaced(question.sp, question.sizes,
                      MCProgram("p", MCInterp.segments, 5, TRUE, question.interp), 8, 16)

(***************************************************************************)
(* TraceeMemory: pages of 4 bytes, words of 2, one or two pages mapped,    *)
(* some read only; strings and data that begin, end and go on at any byte. *)
(***************************************************************************)
MCMemories ==
    {[byte |-> b, readOnly |-> r] :
        b \in [4 .. 7 -> {0, 1}] \cup [4 .. 11 -> {0, 1}] \cup {[a \in {4, 5, 6, 7, 12, 13, 14, 15} |-> 1]},
        r \in {{}, 4 .. 7}}

MCBuffers == {<<SubSeq(<<7, 8, 9, 10, 11, 12>>, 1, n), SubSeq(<<17, 18, 19>>, 1, k)>> : n \in 0 .. 5, k \in 0 .. 3}

MCMemoryQuestions ==
    [part: {"memory"}, mem: MCMemories, vm: BOOLEAN, at: 3 .. 9, max: 1 .. 7] \cup
    [part: {"write"}, mem: {m \in MCMemories : \A a \in DOMAIN m.byte : m.byte[a] = 1}, vm: BOOLEAN,
     at: 3 .. 9, buffers: MCBuffers] \cup
    [part: {"alloc"}, sp: 1 .. 12, one: 1 .. 5, other: 1 .. 5]

(***************************************************************************)
(* What PRoot reads and writes in a tracee is what was asked, no more and  *)
(* no less, on either way, at the bounds of words and pages                *)
(* (tracee/mem.c).                                                         *)
(***************************************************************************)
MemoryExact ==
    /\ question.part = "memory" =>
         /\ ReadExact(question.mem, question.vm, question.at, question.max)
         /\ StringExact(question.mem, question.vm, question.at, question.max)
    /\ question.part = "write" =>
         WriteExact(question.mem, question.vm, question.at, question.buffers)
    /\ question.part = "alloc" => AllocationsApart(question.sp, question.one, question.other)

(***************************************************************************)
(* ArgumentArray: tables of up to three strings, one of them a variable of *)
(* the environment, one empty, one that cannot be read; up to two edits,   *)
(* an entry that is inserted is written, as the callers do.                *)
(***************************************************************************)
MCString == (60 :> <<"a">>) @@ (70 :> << >>) @@ (80 :> <<"L", "=", "x">>)

MCTables == UNION {[1 .. k -> {60, 70, 80, 90}] : k \in 0 .. 3}

MCArguments(pointers) ==
    LET table == Append(pointers, 0)
    IN  [word |-> [a \in {WordAt(30, i) : i \in DOMAIN table} |-> table[(a - 30) \div WordSize + 1]],
         string |-> MCString]

MCEdits ==
    [do: {"read"}, at: 1 .. 4] \cup
    [do: {"write", "insert"}, at: 1 .. 4, string: {<< >>, <<"b", "c">>}] \cup
    [do: {"find"}, string: {<< >>, <<"b", "c">>}] \cup
    [do: {"set"}, name: {<<"L">>, <<"a">>}]

MCEdited(m, state, edit) ==
    IF edit.do = "set" THEN SetEnv(m, state, edit.name, edit.name \o <<"=", "y">>)
    ELSE IF edit.do = "find" THEN Find(m, state, FALSE, edit.string).state
    ELSE IF edit.at > Len(state.array) THEN state
    ELSE CASE edit.do = "read"   -> Read(m, state, edit.at)
           [] edit.do = "write"  -> IF edit.at = Len(state.array) THEN state
                                    ELSE Write(state, edit.at, edit.string)
           [] edit.do = "insert" -> Write(Resize(state, edit.at, 1), edit.at, edit.string)

MCArgumentQuestions ==
    [part: {"edits"}, pointers: MCTables, sp: {12, 25}, edits: UNION {[1 .. k -> MCEdits] : k \in 0 .. 2}] \cup
    [part: {"interpreter"}, pointers: UNION {[1 .. k -> {60, 70, 80}] : k \in 0 .. 3},
     argument: {<< >>, <<"x">>}] \cup
    [part: {"environment"}, pointers: MCTables, name: {<<"L">>, <<"M">>}]

(***************************************************************************)
(* What execve gives a program: a script's interpreter with the arguments  *)
(* Linux gives it, and the arguments and the environment PRoot made, with  *)
(* the strings it did not touch where the tracee has them                  *)
(* (execve/aoxp.c, execve/shebang.c, execve/ldso.c).                       *)
(***************************************************************************)
ArgumentsKept ==
    /\ ScriptsAsKernel
    /\ question.part = "edits" =>
         LET m == MCArguments(question.pointers)
         IN  PushShows(m, FoldLeft(LAMBDA st, e : MCEdited(m, st, e), Fetched(m, 30), question.edits),
                       30, question.sp)
    /\ question.part = "interpreter" =>
         ArgvAsInterpreted(MCArguments(question.pointers), 30,
                           [i \in DOMAIN question.pointers |-> MCString[question.pointers[i]]],
                           <<"s", "h">>, question.argument, <<"s">>)
    /\ question.part = "environment" =>
         EnvironmentKept(MCArguments(question.pointers), 30, question.name, question.name \o <<"=", "y">>)

(***************************************************************************)
(* SmallExtensions: directories of up to four entries and buffers of one   *)
(* to all of them; mount tables of Android with and without /data; ports   *)
(* at the threshold; sequences of calls on a shared memory.                *)
(***************************************************************************)
MCEntry(i, hidden, len) == [name |-> i, hidden |-> hidden, len |-> len]
MCDirs == UNION {{[i \in 1 .. k |-> MCEntry(i, h[i], l[i])] : h \in [1 .. k -> BOOLEAN], l \in [1 .. k -> 1 .. 2]} : k \in 0 .. 4}

MCPlaces == {Malformed, Data, <<"data", "u">>, <<"dev", "pts">>, <<"sys">>, <<"proc">>, <<"proc", "f">>}

MCExtensionQuestions ==
    [part: {"hidden"}, dir: MCDirs, count: 2 .. 8] \cup
    [part: {"mountinfo"}, lines: {<<<< >>>> \o t : t \in UNION {[1 .. k -> MCPlaces] : k \in 0 .. 3}},
     bindings: {<< >>, <<<< >>>>, <<<<"m">>, << >>>>, <<<<"dev">>, <<"m">>, << >>>>},
     root: {<< >>, Data, <<"data", "u">>, <<"d">>}] \cup
    [part: {"port"}, call: {"bind", "connect", "sendto"}, wrapped: BOOLEAN,
     addr: [family: {"INET", "INET6", "UNIX"}, host: {"loopback", "any", "other"},
            port: {0, 1, 80, 1023, 1024, 2080, 3024}]] \cup
    [part: {"ashmem"}, calls: {<<<<"memfd_create", 0>>>> \o t :
        t \in UNION {[1 .. k -> {<<"fstat", 0>>} \cup ({"ftruncate"} \X {0, 3, 5})] : k \in 0 .. 5}}]

(***************************************************************************)
(* No hidden entry ends a directory early, a sandbox finds its mounts and  *)
(* one root, guests meet at the ports they name, and an ashmem has the     *)
(* size of the memfd it stands for.                                        *)
(***************************************************************************)
ExtensionsKeepTheirWord ==
    /\ question.part = "hidden" => HidesOnly(question.dir, question.count)
    /\ question.part = "mountinfo" => MountTableRight(question.lines, question.bindings, question.root)
    /\ question.part = "port" => PortsMeet(question.call, question.wrapped, question.addr)
    /\ question.part = "ashmem" => SizesOfMemfd(question.calls)

Init == /\ question \in MCCanonQuestions \cup MCNetlinkQuestions \cup MCFilterQuestions
                           \cup MCSigsysQuestions \cup MCOutputQuestions
                           \cup MCScriptQuestions \cup MCProgramQuestions \cup MCMemoryQuestions
                           \cup MCArgumentQuestions \cup MCExtensionQuestions
        /\ answered = FALSE
Next == ~answered /\ answered' = TRUE /\ UNCHANGED question
==============================================================================

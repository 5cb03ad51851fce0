---------------------------- MODULE SyscallFilter ----------------------------
(***************************************************************************)
(* The seccomp filter of syscall/seccomp.c: a classic BPF program, a       *)
(* section per architecture of SECCOMP_ARCHS, that stops a tracee at the   *)
(* system calls PRoot or an extension has a handler for.                   *)
(*                                                                         *)
(* A table maps the number of a call, in one ABI, to PRoot's own name of   *)
(* it (sysnums-*.h, translate_sysnum); a list is what proot_sysnums and    *)
(* the filtered_sysnums of the extensions are: names and flags.            *)
(***************************************************************************)
EXTENDS Integers, SequencesExt

CONSTANT AVOIDER   \* SYSCALL_AVOIDER, no number of any call

ReadWord(what) == [op |-> "ld", k |-> what, jt |-> 0, jf |-> 0]
IfEqual(k, jt, jf) == [op |-> "jeq", k |-> k, jt |-> jt, jf |-> jf]
Jump(k) == [op |-> "ja", k |-> k, jt |-> 0, jf |-> 0]
Return(k) == [op |-> "ret", k |-> k, jt |-> 0, jf |-> 0]

ARCH == 4      \* offsetof(struct seccomp_data, arch)
NR   == 0      \* offsetof(struct seccomp_data, nr)

SECCOMP_RET_KILL  == 0
SECCOMP_RET_ALLOW == 1000
SECCOMP_RET_TRACE == 100
FILTER_SYSEXIT    == 1

(***************************************************************************)
(* Numbers of calls: the first entry of the table that has the name.       *)
(***************************************************************************)
Detranslate(table, name) ==
    LET at == {n \in DOMAIN table : table[n] = name}
    IN IF at = {} THEN AVOIDER ELSE CHOOSE n \in at : \A m \in at : n <= m

(***************************************************************************)
(* merge_filtered_sysnums                                                  *)
(***************************************************************************)
OrFlags(f, g) == IF f = g THEN f ELSE FILTER_SYSEXIT

MergeOne(sysnums, item) ==
    IF \E i \in DOMAIN sysnums : sysnums[i].value = item.value
    THEN [i \in DOMAIN sysnums |->
            IF sysnums[i].value = item.value
            THEN [sysnums[i] EXCEPT !.flags = OrFlags(@, item.flags)] ELSE sysnums[i]]
    ELSE Append(sysnums, item)

Merge(sysnums, new) == FoldLeft(MergeOne, sysnums, new)

(***************************************************************************)
(* set_seccomp_filters                                                     *)
(***************************************************************************)
Traced(abis, sysnums) ==
    FlattenSeq([j \in DOMAIN abis |->
        SelectSeq([k \in DOMAIN sysnums |->
                     [nr |-> Detranslate(abis[j], sysnums[k].value), flags |-> sysnums[k].flags]],
                  LAMBDA t : t.nr # AVOIDER)])

\* Mutant of StartSection: the jump of another architecture is one short.
MutStartSection(arch, traced) ==
    << ReadWord(ARCH), IfEqual(arch, 1, 0), Jump(1 + 2 * traced), ReadWord(NR) >>

StartSection(arch, traced) ==
    << ReadWord(ARCH), IfEqual(arch, 1, 0), Jump(1 + 2 * traced + 1), ReadWord(NR) >>

TraceCall(t) == << IfEqual(t.nr, 0, 1), Return(SECCOMP_RET_TRACE + t.flags) >>

EndSection == << Return(SECCOMP_RET_ALLOW) >>

Section(arch, sysnums) ==
    LET traced == Traced(arch.abis, sysnums)
    IN StartSection(arch.value, Len(traced))
         \o FlattenSeq([i \in DOMAIN traced |-> TraceCall(traced[i])]) \o EndSection

Finalize == << Return(SECCOMP_RET_KILL) >>

Program(archs, sysnums) ==
    FlattenSeq([i \in DOMAIN archs |-> Section(archs[i], sysnums)]) \o Finalize

\* enable_syscall_filtering: PRoot's own list, then each extension's.
FilterOf(archs, lists) == Program(archs, FoldLeft(Merge, << >>, lists))

(***************************************************************************)
(* What the kernel makes of a program: jumps go forward only, so the       *)
(* verdict at an instruction needs only those after it.                    *)
(***************************************************************************)
Verdict(program, data) ==
    LET acc[pc \in DOMAIN program] ==     \* the accumulator before pc
            LET w == {q \in 1 .. pc - 1 : program[q].op = "ld"}
            IN IF w = {} THEN 0
               ELSE data[program[CHOOSE q \in w : \A r \in w : r <= q].k]
        run[pc \in DOMAIN program] ==
            LET i == program[pc]
            IN CASE i.op = "ret" -> i.k
                 [] i.op = "ja"  -> run[pc + 1 + i.k]
                 [] i.op = "ld"  -> run[pc + 1]
                 [] i.op = "jeq" -> run[pc + 1 + (IF acc[pc] = i.k THEN i.jt ELSE i.jf)]
    IN run[1]

(***************************************************************************)
(* What the filter is for: a call of a known architecture is traced iff    *)
(* some list names it, with every flag a list asks for; another            *)
(* architecture cannot make calls PRoot would not see.                     *)
(***************************************************************************)
WantedVerdict(archs, lists, arch, nr) ==
    LET a == {i \in DOMAIN archs : archs[i].value = arch}
        named == {item \in UNION {ToSet(lists[l]) : l \in DOMAIN lists} :
                     \E i \in a : \E t \in ToSet(archs[i].abis) :
                         nr \in DOMAIN t /\ t[nr] = item.value}
    IN CASE a = {} -> SECCOMP_RET_KILL
         [] a # {} /\ named = {} -> SECCOMP_RET_ALLOW
         [] OTHER -> SECCOMP_RET_TRACE
                       + (IF \E item \in named : item.flags = FILTER_SYSEXIT
                          THEN FILTER_SYSEXIT ELSE 0)

FilterExact(archs, lists, arch, nr) ==
    Verdict(FilterOf(archs, lists), (ARCH :> arch) @@ (NR :> nr)) = WantedVerdict(archs, lists, arch, nr)
==============================================================================

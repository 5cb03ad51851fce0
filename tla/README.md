# ReTerminal: specification, model checking and proofs

ReTerminal is an Android terminal that runs a Linux distribution without root. A Kotlin
application shows terminal sessions; each session runs a shell under **PRoot**, a C program
that traces every process of the session with ptrace(2), rewrites their system calls (paths,
credentials, calls Android forbids) and emulates in user space what the kernel does not
offer (System V IPC, hard links, ptrace itself). Most models are about PRoot, where the
concurrency is: PRoot is one thread that handles one event of one tracee at a time, and
the tracees and the kernel run concurrently with it. Two are about the application.

Paths below `extension/`, `tracee/`, ... are relative to `src/core/proot/src/main/cpp/`.

## 1. Inventory

| Component | State | Operations | Hard behaviours |
|---|---|---|---|
| IPC wait mechanism (`extension/sysvipc/sysvipc.c`) | per tracee `wait_reason`, `wait_state`, `chain_state`, `status_after_wait` | turn a blocking call into `ppoll()`, wake, cancel, interrupt, return the result | the wake-up meets the tracee before, in or after `ppoll()`; death of a waiter |
| Semaphores (`sysvipc_sem.c`) | slots of sets, `semop_sops` | `semget`, `semop`, `semtimedop`, `semctl` | one loop completes several waiters that change what later ones see; removal under waiters |
| Message queues (`sysvipc_msg.c`) | slots of queues, saved `msgrcv` arguments | `msgget`, `msgsnd`, `msgrcv` and its retry, `msgctl` | a message is queued, its receiver woken, and looked for again later |
| Shared memory (`sysvipc_shm.c`) | slots, mappings per process, chain state | `shmget`, `shmat` (a chain of injected calls), `shmdt`, `shmctl` | one `shmat` at a time per namespace, signals in the chain, sibling threads |
| Tracee list, event loop (`tracee/event.c`, `tracee/tracee.c`) | list of tracees: `exe`, `parent`, `sigstop`, `terminated`, `running` | launch, clone, first SIGSTOP, exit, kill all, free | the two notifications of a clone come in either order; `SIGKILL` discards a stop |
| ptrace and wait emulation (`ptrace/`) | per ptracer: ptracees, zombies, blocked wait; per ptracee: pending event | `PTRACE_*` requests, `wait4`, events | events before, during and after a wait; deaths of either side |
| link2symlink (`extension/link2symlink/`) | only the host's file system | `link`, `unlink`, `rename`, `open`, `stat` | two halves of each call, sequences without undo, a count kept in a file name |
| System call stages (`syscall/`, `tracee/seccomp.c`) | `status`, register copies, chain of injected calls, `restart_how` | enter, exit, SIGSYS, chain | order of seccomp and system call stops; signals during a chain |
| Path translation (`path/`) | bindings, cwd, temporary glue files | canonicalise, translate, detranslate, bind | symbolic links, nested bindings, glue |
| execve (`execve/`) | load map, `exe` | load an ELF file, scripts, loader stub | state replaced at success only; threads |
| Heap (`syscall/heap.c`) | base and size per address space | `brk`, clone, execve | shared or copied; another mapping in the way |
| Memory of tracees (`tracee/mem.c`) | none | read and write strings, buffers, vectors | two ways to the same bytes, ends of mappings |
| talloc (`talloc/`) | a forest of chunks with references | allocate, free, steal, reference, reallocate | several owners, destructors that refuse |
| fake_id0 (`extension/fake_id0/`) | uids and gids per tracee, modes lifted for a call | set*id, stat, chown, access | dropped privileges, overlapping calls, death before a mode is put back |
| Other extensions | little | single calls | - |
| Sessions (`SessionService.kt`, `TerminalBackEnd.kt`, `TerminalScreen.kt`, ...) | maps of sessions, order, `currentSession` | create, rename, terminate, restart, exit | four maps and a current session kept in step by several callers; service and activity lifetimes |
| Root file system set-up (`init-host.sh`) | extracted tree, markers, lock | extract once, certificates | concurrent sessions, killed extraction |

How they interact: the event loop calls the extensions' callbacks at fixed stages
(`SYSCALL_ENTER_START`, `SYSCALL_ENTER_END`, `SYSCALL_EXIT_START`, `SIGSYS_OCC`, ...);
extensions change registers, chain further system calls, and (IPC) send SIGSTOP to other
tracees; clones inherit the extensions' configuration through `new_child`, and the freeing
of a tracee frees it. Nothing in PRoot is persisted except what link2symlink leaves on disk.

`PROJECT.json` lists every component with its status, and every hazard at its line. There
are no tests of PRoot or of the sessions in the repository, so that comments, assertions and
option texts are the only statements of intent; the violation runs quote them.

## 2. Modules

| Module | Models | Checked by |
|---|---|---|
| `SysVIpcWait` | the wait mechanism; `WaitSpec` is what any IPC call may do to it | through `SysVSem`, `SysVMsg` |
| `SysVIpcWaitProofs` | `WaitSafety` | TLAPS |
| `SysVSem` (extends `SysVIpcWait`) | semaphores | `sem`, `sem_still_wait` |
| `SemService` | abstract: what a semaphore service promises | refined by `SysVSem` in `sem` |
| `SysVSemProofs` | `SemSafety`, `SemImplementsWait`, `SemValues`, `SemRefinesService` | TLAPS |
| `SysVMsg` (extends `SysVIpcWait`) | message queues | `msg`, `msg_live`, `msg_removed` |
| `SysVMsgProofs` | `MsgSafety`, `MsgImplementsWait`, `MsgConserved`, `MsgFifo` | TLAPS |
| `TraceeLifecycle` | clones, first stops, exits, kills, the tracees list | `lifecycle`, `kill_on_exit` |
| `Link2Symlink` | fake hard links on the host's file system | `l2s`, `l2s_count` |
| `Link2SymlinkProofs` | `LinksAreCounted`, `NamesKeepTheirContent`, `NoFileIsLeft` | TLAPS |
| `PtraceEmulation` | `ptrace` and `wait4` between guests | `processes` |
| `Bindings`, `Mounts` | the lists of bindings; mount, umount, pivot_root, chroot, chdir, rename, clone | `processes` |
| `Execve` | what PRoot knows of a program, from the call to the loader's end | `processes` |
| `Heap` | the emulated `brk` | `processes` |
| `FakeCreds`, `FakeModes` | ids and capabilities; permissions lifted for root | `processes` |
| `FakeNetlink` | the descriptors of faked netlink sockets | `processes` |
| `ProcessProofs` | `GuestCodeConfigured`, `NoDanglingParent`, `HeldAndKept`, `ProgramAlwaysKnown`, `HeapAlwaysMapped`, `ModesAlwaysComeBack`, `NetlinkNeverHijacks`, `CallsAsKernel`, `IdsAlwaysKept` | TLAPS |
| `SyscallStages` | the stops of a system call, chains, rewritten and denied calls | `services` |
| `SyscallStagesProofs` | `CallsAreFaithful` | TLAPS |
| `SyscallHandlers` | which names, ends and flags the handler of each call takes | `services` |
| `SysVShm` | shared memory and its helper | `services` |
| `ServicesProofs` | `HelperAlwaysInStep`, `SegmentsAlwaysKept`, `AssertsHold`, `CallsHandledAsAsked` | TLAPS |
| `Talloc` | PRoot's allocator | `services` |
| `Sessions`, `RootfsSetup` | the application's sessions; the set-up of the root file system | `services` |
| `ApplicationProofs` | `TreeWhole`, `SessionsAlwaysKept` | TLAPS |
| `PathCanon` | canonicalisation of paths | `algorithms` |
| `NetlinkReply` | replies to netlink requests | `algorithms` |
| `SyscallFilter`, `SigsysReplace` | the seccomp program; the calls that replace denied ones | `algorithms` |
| `SyscallOutputs` | results in terms of the guest | `algorithms` |
| `Shebang`, `ElfLoad` | scripts; the mappings of an ELF image | `algorithms` |
| `TraceeMemory` | strings and buffers of a tracee | `algorithms` |
| `ArgumentArray` | `argv[]` and `envp[]` as PRoot edits them | `algorithms` |
| `SmallExtensions` | hidden_files, port_switch, mountinfo, ashmem_memfd | `algorithms` |
| `MCSysVSem`, `MCSysVMsg`, `MCLink2Symlink`, `MCServices`, `MCProcesses`, `MCAlgorithms` | instances | |

Operators called `Mut...` are deliberate mistakes, each next to the definition it would
replace: every property of a passing run fails when one of them is put in.

### The wait mechanism and its users

Each PRoot handler is one action, since PRoot is one thread. What is not atomic is between
handlers: a tracee is restarted into `ppoll()` (`at = "enter"`), sleeps, is interrupted,
is killed. `at` is where the tracee is; the other variables are fields of
`struct SysVIpcConfig`. Two ways lead into a call: from the entry stop (`"ptrace"`, the call
itself becomes `ppoll` or `getpid`) and from SIGSYS (`"sigsys"`, the call is over and the
tracee is restarted into a new one).

- `semop` is one handler but several steps here (`Semop`, one `ScanNext` per waiter,
  `ScanEnd`), with everything else waiting, so that the loop's intermediate states can be
  mapped to steps of `SemService`. The refinement shows the all-or-nothing promise: the
  operations of a call, its own or those of waiters it completes, are applied in one
  abstract step exactly when that call's result is "ok".
- The tracees list has the order of creation. The models let the loop and `msgsnd` meet the
  waiters in any order, which contains it.
- `status` holds `status_after_wait` and then, as what the caller sees, the result. Results
  are the classes the properties tell apart: `"error"` stands for EAGAIN of IPC_NOWAIT,
  ERANGE, E2BIG, ENOMSG, EINVAL...
- Fields nothing reads any more (`msgrcv` arguments of a call that is over, `target` of a
  queue call) go back to their initial value, to identify states.
- A tracee starts with a zeroed configuration, as INITIALIZATION and INHERIT_CHILD give it.
- A killed tracee stays in the tracees list (`"dead"`), where wake-ups still reach it, until
  `Reap`.
- Ids are slots: what `LOOKUP_IPC_OBJECT` rejects is `...CallChangesNothing`. The generation
  is kept because the code keeps it; `MaxGen` bounds how often a slot is used again.

### Tracees

Kernel part: `proc`, `why`, `child` (what `waitpid` would report). PRoot part: `entry`,
`sigstop`, `parent`. `Handle...` is one turn of the event loop with what it calls.
Abstractions: the exit stop and the exit are one event; the marking of a terminated tracee
and `free_terminated_tracees`, both in one turn, are one action; every other stop (system
calls, signals, execve) is `HandleOther`; pids are not used again; the new parent under
CLONE_PARENT or CLONE_THREAD is `p` or `parent[p]`. `lost` and `early` record the two races
the code does not handle, so that the properties can say that only these break them.

### link2symlink

`data` and `link` are the host's file system with one directory: names, intermediate paths
(`.l2s.<name>NNNN`) and final paths (with the count). PRoot's handler computes the whole
sequence of its host calls from what it reads first; `Step` makes the next one;
`NewNameFails` is the failure of `link()` that PRoot undoes, whatever the error of the last
`symlink()`; `HostCallFails` any other, which it does not. Since PRoot is one thread two handlers never interleave, but the kernel's
halves of other tracees' `unlink`, `rename` and `open(O_CREAT|O_EXCL)` fall between any two
host calls. `Killed` is the end of PRoot with its tracees, after which a new session starts
from the file system that is left. Of the calls that only look, `TranslatedPath` is the path
the kernel is given for a name and `Nlink` the count `stat` and `statx` are answered with.

`meant` is what each name should show by the calls that succeeded. `broken` collects the
files of the mishandlings the code has no answer to: a handler cut short, a kernel half that
did not remove the name whose count was lowered, two calls lowering it for one name, a name
taken by another file in the moment `link()` had moved it away, a rename whose `from` was
replaced meanwhile, a name that is itself moved as a link, and a path taken while it is in use.
`mixed` is narrower: the paths where two files met, because the path was still that of other
names when a file moved to it, or a link was moved to it, or a name was taken by another file in
the moment `link()` had moved it away. `CountsNames` and `NothingLeaks` hold of
files not in `broken`. `NamesShowContent` holds of every name: with its path or that of its
file in `broken` it shows its content or nothing, and another file only with its path in
`mixed`. So nothing else goes wrong, and the damage stays with those files. They are read together
with `l2s_count`, which shows that the first of them is enough to break what a comment
claims.

### Emulated ptrace, execve and the heap

`PtraceEmulation`: one record per process; the handlers `Handle`, `Enter`... are turns of the
event loop, between which the kernel stops, interrupts and ends processes. A stop PRoot has
waited for and not restarted is `Held`. `Execve` follows the three moments at which PRoot's
notion of the program changes: at the entry (`new_exe`, `load_info`), when the kernel has
accepted (`exe`, the heap), and at the loader's notification (`ignore_loader_syscalls`);
refused and late failing calls, forks, and a ptracer that comes or goes fall in between.
`Heap` has an emulated heap per address space (`hp`) and the kernel's mapping of it
(`memory`), which `mremap` may or may not extend.

### Mounts

A binding is a pair of paths, paths are sequences of names. `Bindings` has the two sorted
lists and the functions that insert and remove; `Mounts` the calls that use them, with a
file-system name space per `fs`, shared or copied by `clone`. `mntns` is the kernel's view:
who is separated from whom by CLONE_NEWNS.

### System calls

`SyscallStages` has one tracee and every order of its stops: kernels before and after 4.8,
with and without a filter, with a policy of Android's that denies calls (SIGSYS). What the
handlers of one call do to it is an outcome (translated, void, chained, rewritten);
`SyscallHandlers`, `SyscallOutputs` and `SigsysReplace` say which, per call. `SysVShm` has the
chain of `shmat` stop by stop, what each injected call may return, the waiters, and the
helper as a process that reads its pipe later.

### fake_id0 and netlink

`FakeCreds` compares each answer with a definition of the kernel's own rules (`KernelAllows`,
`KernelIds`) written beside it. The differences its comments name are the exceptions of
`KernelAgrees`. `FakeModes` has PRoot's collector of modes to put back, which is flushed when
the tracee is next looked up. `FakeNetlink` has real descriptor tables, shared by threads and
copied by forks, next to PRoot's list of numbers.

### Algorithms

`MCAlgorithms` enumerates inputs in its initial states and lets each algorithm run, one call
per behaviour. Each result is compared with a reference written from what the kernel (or the
file format) does: `PathCanon` with a walk of the file system, `ElfLoad` with the bytes a
page of the image should have, `TraceeMemory` with the bytes of the mappings, `SyscallFilter`
with an interpreter of the program, `ArgumentArray` with what the kernel reads through the
table that was pushed, and so on.

### The application

`Sessions`: handlers of the main thread; shells end, the service and the activity come and go
at any moment. `RootfsSetup`: the script of each session up to the guest. The lock belongs to
a file descriptor, which the tar or dpkg that a killed subshell leaves behind still has open;
`LockFree` says so, and the property depends on it.

### Units that share nothing

`MCServices` and `MCProcesses` put several specifications side by side: `unit` is chosen at
the start, its actions run, the variables of the others stay. That is one run for several
components, not their composition; where components do meet the module itself composes them
(`SysVSem` and `SysVMsg` with the wait mechanism, `Mounts` with `Bindings`).

## 3. Runs

| Run | Instance | Result |
|---|---|---|
| `sem` | 3 tracees, any killed; 1 slot used twice; sets of 1 or 2 semaphores; values 0..1; 4 operation sequences | holds, 204 k states |
| `sem_still_wait` | 2 tracees | `WaitersStillWait` violated |
| `msg` | 3 tracees, any killed; 1 slot used twice; 2 messages; 4 kinds of `msgrcv` | holds, 397 k states |
| `msg_live` | 2 tracees, both entry paths, fairness | holds, 80 k states |
| `msg_removed` | 2 tracees | `RetryFindsQueue` violated |
| `lifecycle` | 3 processes, any killed, `--kill-on-exit`, fairness | holds, 14 k states |
| `kill_on_exit` | 3 processes, killed only by PRoot | `AllTerminated` violated |
| `l2s` | 2 tracees, 3 names, 2 files, 2 intermediate paths per name, count up to 4, faults | holds, 262 k states |
| `l2s_count` | 1 tracee, no faults | `LooksLikeHardLink` violated |
| `services` | stages: 2 calls, chains of 2, one signal; shm: 3 tracees, 1 slot used twice, 2 mappings, any call failing, a kill; talloc: 4 chunks; sessions: 3, at most one of them other than a plain shell; root file system: 3 sessions; fairness | holds, 225 k states |
| `processes` | ptrace: a debugger, its child and grandchild; mounts: 2 processes, 3 calls; execve: 2 processes, 4 programs; heap: 2 processes, 9 addresses; ids 0, 1, 2; modes: 2 processes, 3 nodes; sockets: 2 processes, 2 descriptors | holds, 1.08 M states |
| `algorithms` | the bounded inputs of ten algorithms | holds, 1.7 M states |

Why the bounds are enough to matter. *Semaphores*: a caller, a waiter it completes and a
waiter that this one's operations complete need three tracees; with values up to 1 both ends
of the range are one operation away, and `V(0), P(1)` with two semaphores gives a call that
fails in the middle. A slot used twice with sets of different sizes is what a waiter that
outlives its set would need. *Queues*: the retry is raced by another receiver and by a
remover, with the sender that makes three; two messages of one type or of two show
overtaking; the four `msgrcv` differ in type selection, buffer size and flags. *Tracees*:
the main command, its child and grandchild give CLONE_PARENT, each order of deaths and
`--kill-on-exit` before an announcement. *Links*: three names of one file let the count go
up and down; two files fight for one name, and with two intermediate paths for it a link takes
the second while the first is in use, or the last although it is. The second tracee is the one
whose half falls between the steps of a `link` (creating the name, or removing another).
`MaxBroken = 0`: once a path is mishandled calls run one at a time, and no new one
starts once two are; those under way go on. That is enough for a kill in the middle of a
`link()` and a second `link()` that takes the dangling path: `NeverAnothersFile` is violated in
this instance. The symmetric runs check safety properties only.

*Services*: two calls in a row are what it takes for one to inherit the state the last one
left (a skipped stop, a way of restarting); three tracees for one in the chain of `shmat`, one
waiting and one that removes; three sessions for a rename, a close and what is shown next.
*Processes*: a grandchild that the ptracer follows gives zombies, events of several ptracees
and a wait for any; three calls give a mount, a pivot and a look at the result, or a clone and
a call of each side. `FewGroups` keeps the third id for users, since the code for groups is
the same macro. Histories of the netlink sockets and of the modes end where their property
stops promising anything (`unseen`, `meddled`).

Deadlock is not checked: guests may stop calling, all be killed, or wait for one another
with every semaphore and queue call the models have; PRoot then waits for events.

### Fairness

`MsgFairness` and `LifecycleFairSpec`: weak fairness of PRoot handling each tracee's pending
stop or exit, because the event loop calls `waitpid(-1, ...)` for ever and a stop stays
pending until it is waited for, and (messages) of the kernel delivering a SIGSTOP that
was sent. `ShmFairness` adds the helper, a loop on its pipe, and the injected calls of a
chain, none of which blocks (`Progress`). `StagesSpec` assumes the kernel to go on with a call
under way and PRoot to handle each stop. Nothing is assumed of guests: no call, signal, exit or
kill ever has to happen. `ShmatReturns` is conditional: PRoot wakes the newest waiter first, so
a waiter returns only once no new `shmat` overtakes it, and a tracee killed in its chain wakes
nobody.

### What the violation runs show

- `sem_still_wait`: a tracee that `sysvipc_sem_check` would let go on keeps waiting, because
  SETVAL wakes nobody and `semop` looks at each waiter once.
- `msg_removed`: `msgsnd` takes the receiver off the waiters, IPC_RMID only reaches waiters,
  the retry asserts that the queue is valid: PRoot, and with it the session, aborts.
- `kill_on_exit`: with `--kill-on-exit`, the kill of a process whose clone is not announced
  yet leaves its child held for ever, and PRoot waiting for it.
- `l2s_count`: the count is lowered before the kernel has accepted the `rename`.

### Stated, and not true of the code

These are written in the modules with the comment they come from, and no run is kept for them:

- `AttachesAsked` (`SysVShm`): two `shmat` at once in the socket stage may be handed one
  another's descriptor; `sysvipc_shmat` does not look for that stage. `ChainAsserts` with
  threads: an `shmdt` or `execve` of a sibling removes the pending mapping, and with it
  `SegmentsKept`; without threads both are proved (section 4).
- `SignalsKept` (`SyscallStages`): of two signals during a chain the first is overwritten
  (event.c:715). `CallsFaithful` under a deny list, or with `PTRACE_TRACEME` under an allow list:
  `skip_next_seccomp_signal` stays set when the SIGSYS it waits for does not come (event.c:698; a
  deny list lets the -1 of a void call pass, and a filter that was disabled makes no seccomp stop
  that resets it), and the SIGSYS of a later call is swallowed. The instance and the theorem
  (`Asked`) leave those calls out.
- `NewChildSane` (`PtraceEmulation`): the assertion in `new_child` that a child has no ptracer
  (tracee.c:421-431). A child whose first stop is handled before its parent's fork is in the list,
  so that `PTRACE_ATTACH` finds it. TLC takes seven steps when the debugger of `processes` may also
  attach to the grandchild: the fork, the child's first stop, the `ATTACH`, then the handling of the
  fork, which fails the assertion; where asserts are compiled out and the fork is followed, it
  attaches the child again and counts it twice in `nb_ptracees`. The instance of `processes` has
  no such `ATTACH`, and `NewChildSane` holds there.
- `KeptStopped`, `WaitsForPtracee`, `PtraceesFree` (`PtraceEmulation`): a nested ptracer, a wait
  for a child that is no ptracee, and a ptracer that ends. `PTRACE_TRACEME` of an orphan
  dereferences NULL (ptrace.c:150) and is left out.
- `TmpfsThere`, `ClonesShare`, `StartupStays` (`Mounts`): the directory of a tmpfs goes with the
  one who mounted it; a flag kept by a refused clone isolates a later one; `umount` removes a
  startup binding. `emulate_pivot_root` reads startup bindings after they were freed.
- `OnlyLoaderMasked`, `HeapAfterProgram`, `MappingsThere`, `LoaderGetsThere` (`Execve`): a refused
  execve leaves the calls of a ptraced program hidden (`CallsShown` excuses that) and the load map
  of the wrong program, or one without mappings, which the first `brk` dereferences (heap.c:105;
  the model has no such step); a ptracer that leaves turns the loader's notification into an
  `execve`.
- `OnlySubstitutes` without `unseen` (`FakeNetlink`): `dup2`, `close_range`, close-on-exec and
  a thread's `close` end a descriptor unnoticed.
- `NeverAnothersFile` (`Link2Symlink`): PRoot is killed, or a call of it fails, between the `unlink` and the `symlink` of
  `link()` or of the lowering of a count (link2symlink.c:140, 176, 275); the names are left dangling,
  `access()` (line 134) finds their intermediate path free, the next `link()` of a file of that
  name takes it, and the old names show the new file. The last suffix, 999, is taken even if it is
  in use. `NamesShowContent` allows another file at such paths only.
- `NoShellLost` (`Sessions`): a custom session created under the name of a running one
  (`onCreateCustomSession`, TerminalScreen.kt:101; `createSession`, SessionService.kt:61) replaces it in
  the map: its shell runs on, no screen shows it and nothing can end it, and the notification's
  count of running sessions leaves it out. TLC takes two steps: a custom session, and the same
  again. `ShellsKept` exempts that handler and no other.
- `LastLineRead` (`Shebang`): of a script that consists of a first line without its end, "#!/bin/sh" say,
  the last character of the interpreter is lost, as the terminator is written over it
  (shebang.c:140), and an argument is dropped whole (shebang.c:180). `ShebangAsKernel` says what is
  read of such a line, and that "\r" ends a line and the blanks before the buffer's edge stay.
- `PortsMeet` (`SmallExtensions`) without `WrittenBack`: `sendto()` of an IPv6 address is not
  moved with the others, the branch for it repeats the condition of the one before.
- `AuxvPatched` (`SyscallHandlers`), `LinkBytesOnly` (`MCAlgorithms`), `PathsOfPathMax`
  (`TraceeMemory`: a path of PATH_MAX bytes is refused), `ClearsPastFile` (`ElfLoad`).
- Calls the models follow although Linux does otherwise: `mknod`, `faccessat2` and
  `name_to_handle_at` on final links (`Deviating`); `setreuid` of the real id alone, `setuid` of
  the effective id (`KernelAgrees`); `ftruncate` and `dup2` replaced under SIGSYS (the sign of a
  32-bit length is lost), and `openat2`, whose resolve flags are dropped on purpose: the reference
  of `SigsysReplace` leaves both out; a symbolic link that stands for its own directory, which
  canonicalisation refuses with ELOOP where Linux walks on (`refuse` of `Walk`).
- Cases the properties exempt by name: `ModesComeBack` once `meddled` (two calls overlap on a node, a
  collector is flushed before its call ran, PRoot is killed: a file stays open, or root is denied).

## 4. Proofs

Assumptions: only the ASSUMEs of the modules on their constants; TLC evaluates them in the
runs.

- `WaitSafety` (`SysVIpcWaitProofs`): `WaitSpec => [](WaitTypeOK /\ WaitConsistent)`.
  `WaitConsistent` is inductive once typed. One lemma per kind of step: a call, a wake-up,
  the handling of a stop.
- `SemImplementsWait` and `SemSafety` (`SysVSemProofs`): every step of `SysVSem` is a step of
  `WaitNext` or leaves `waitVars` alone, which gives the wait mechanism's theorem to
  semaphores. `WaiterSetLive` needs `SemInv`: types, `WaitConsistent`, and what the running
  loop knows (its set is live, its remaining waiters are waiters of that set, its caller is
  still the one that stopped), for without the last two a step of the loop could use
  operations of a tracee that is not waiting.
- `MsgImplementsWait` and `MsgSafety` (`SysVMsgProofs`): the same for queues, the retry of
  `msgrcv` included. `MsgInv` adds types and `WaitConsistent` to `ReceiversHaveQueue`; the
  wait mechanism tells that a caller has no retry pending and that a tracee with one is not
  waiting. A retry whose queue is gone ends in the `assert()`: the theorem does not exclude
  that step, `msg_removed` shows that it happens.
- `GuestCodeConfigured`, `NoDanglingParent`, `HeldAndKept` (`ProcessProofs`):
  `LifecycleInv` adds to the properties what links kernel and list: a process never used has
  no entry and is nobody's parent, a child announced by a stop is not configured and is not
  announced twice, a process that is stopped for anything but its first SIGSTOP is
  configured. Without it `HandleClone` could configure a child twice or an unknown process.

- `SemValues` (`SysVSemProofs`): `SemSpec => []ValuesInRange`. What a list of operations leaves
  is the value of a recursive function, and induction is not available; the argument takes
  the first operation after which a value would be out of range (`LeastNat`), where the
  value before it is in range and `sysvipc_sem_check` has refused the operation.
- `SemRefinesService` (`SysVSemProofs`): `SemSpec => ImplementsService`, the refinement.
  `ServiceInv` is `SemInv`, ranges, sets that are empty exactly when unused, and reasons that
  are `semop`'s. `SemCheckIsService` shows that the check of the code and the promise of the
  service decide alike; then one lemma per handler, loop step and event names the abstract
  step it is. `SemService` states only safety, so there is no fairness to carry over.
- `MsgConserved` and `MsgFifo` (`SysVMsgProofs`): `ConservedInv` says of each number given to a
  message where it is: later numbers are further back in a queue, no number is in two queues,
  and one that was given is queued, held by the caller it was received for, received, or
  destroyed with its queue, and only one of these. The property counts; the invariant names
  places, which is what a step changes. `FifoPerType` is an action property: a step takes from
  a queue by receiving, by removal, or not at all, and receiving takes the first that matches.
- `TreeWhole` (`ApplicationProofs`): who is past the lock, or has a tool that runs on after it
  was killed, is alone (`OneHolder`: the lock is inherited); a tool runs only where the script
  waits for it; and the marker stands only on a tree an extraction completed.
- `ProgramAlwaysKnown` (`ProcessProofs`): what `exe` is compared with is told apart by the
  stage of the call (`ExeKept` before the kernel answered, `NewExeKnown` from there to the
  loader's end); and calls are not hidden while a loader runs that will not notify (`MaskKnown`), nor
  of a program, unless an `execve` was refused under its ptracer (`CallsShown`).
- `HeapAlwaysMapped`: tracees that share memory share the heap's record, and each heap fits
  what is mapped, wherever the kernel put its first page, with the rounding to pages of any size
  (`PageUpAfter`).
- `ModesAlwaysComeBack`: while calls do not overlap on a node, an entry is held by one tracee, there is one per
  node, and it remembers the mode that is to come back (`EntriesRight`); a mode that nobody
  holds is the given one (`Untouched`).
- `NetlinkNeverHijacks`: a marked descriptor is a substitute as long as no change goes unseen
  (`dup2`, `close_range`, close-on-exec, a `close` in another thread: the theorem says nothing after),
  a number is noted once, and a newborn tracee has none of its own.
- `HelperAlwaysInStep`, `SegmentsAlwaysKept`, `AssertsHold` (`ServicesProofs`): `ShmInv` has three
  parts. `HelperInv`: the requests in the pipe, served in order, take the helper from the
  descriptors it has to those of the segments (a fresh one always exists: there are more
  numbers than segments, `FreshFd`), and a segment marked for removal goes exactly when the
  last mapping does. `CallInv`: a call in the chain names a slot, a call that is over names
  none. `AloneInv`, assumed only where `~Threads` is: nobody but the caller removes its pending
  mapping, so that the slot is valid and of the same generation at each stop. The second and
  third theorem have `~Threads` as their hypothesis since they are false with threads.
- `CallsHandledAsAsked` (`ServicesProofs`): the property says what each call did once it is
  over, so the invariant is the property itself; one lemma per group of calls shows, for any
  flags and arguments, that what the kernel was handed and what the program sees are what was
  asked.
- `SessionsAlwaysKept` (`ApplicationProofs`): the maps and the order of the drawer name the same
  sessions, each once (`ListedOnce`), and a session runs what it would be restarted with
  (`RunsAsKept`). That the drawer is as long as there are sessions follows from a bijection
  onto their names; `ShellsKept` is an action property, from the same invariant, of every handler but
  the creation of a custom session over a name in use.
- `CallsAsKernel`, `IdsAlwaysKept` (`ProcessProofs`): nothing but the types of the ids is invariant. From any ids,
  each of `SETXID` and its relatives does what the kernel would (one lemma per call for what it
  leaves, `SetIds`, `SetreIds`, ..., and one to compare, `SetAgrees`, ...), and without root or
  capabilities it can choose among ids that are not 0 only (`NoRootByCall`). Ids are natural
  numbers (`CredAssumption`), so that -1 is none of them. `IdsAlwaysKept` assumes besides that
  PRoot's user and group are the same number, as an Android application's are, and that ids fit
  16 bits: `getresuid` writes 16 bits, and `statx` compares groups with PRoot's user.
- `CallsAreFaithful` (`SyscallStagesProofs`): `StagesSpec => []CallsFaithful`. `StagesInv` names where
  a call can be: the guest at rest (`AtRest`) or at the trap PRoot moved it back to (`AtTrap`);
  the entry still to be handled (`Entering`); let pass without another stop (`Passing`); entered
  (`Entered`: still to be made, `Handled`, or made, `Made`); a SIGSYS to come before or after an
  exit that is still handled (`Trapped`, `Doomed`). For each place it says which stops are
  left, in both orders of the entry stops, which kind of call it is (the guest's, rewritten,
  chained, replacing, faulty) and whose registers and result these are. The property speaks of the guest
  in its own code; the invariant has to follow the call through each stop, since a stop PRoot takes
  for another swaps all later ones. One lemma per step of the guest and the kernel, one per
  stop that is handled, and between them one per stage: what a handler may do, what is pushed,
  what the next call of a chain is. The hypothesis `Asked` is what the guest may ask: a host
  that forbids nothing, or an allow list and no `PTRACE_TRACEME`; without it the theorem is false (section 3).

- `LinksAreCounted`, `NamesKeepTheirContent`, `NoFileIsLeft` (`Link2SymlinkProofs`): the three
  properties speak of the moments between two handlers, the invariant of every step inside one.
  `LinkInv` has two halves. Of every path, mishandled or not: a file is in one place
  (`PlacesOK`), names lead to intermediate paths and those to final paths of their own
  (`LinksOK`), a name's file is where its link goes, unless a handler has just moved the name
  away (`MeantOK`), and the calls a handler has left are ones that leave all this true
  (`HandlerOK`, `CallsOK`). Of each path that was not mishandled, `PathOK`: it is unused, or one
  file is at the final path of the number of names that are kept (`Sound`), or it is the path of
  the handler, which is at one of its steps (`Working`: what is on the disk, for each list of
  calls that may be left); and no two calls lowered the count for one name (`LoweredOK`). The
  count of a path is a cardinality; a step adds or removes one name. One lemma per handler,
  per step of one and per kernel half; the frame lemmas (`SameStore`, `SameWork`) carry the
  paths a step does not touch. Hypotheses: `Names` is finite, and for `LinksAreCounted`
  `Tracees` too, for otherwise there is nothing to count. `NamesKeepTheirContent` needs `OwnInv`
  besides, which holds of mishandled paths as well: what the names of an intermediate path show is
  theirs unless two files met there (`NamesOwn`), and the calls a handler has left keep that
  (`PlanOK`). Failing host calls (`Faults`), kills and any
  `MaxSuffix`, `MaxCount` and `MaxBroken` are covered.

Only model-checked: `WaitsAnswered`, `NobodyInLimbo`, `TreesKept`, `ObjectsOwned` (`Talloc` declares a
recursive operator) and what `algorithms` checks, which is about recursive definitions over given
inputs, out of the provers' reach (section 5 says why for each of the first four); and every
liveness property (`CallsReturn`, `StageCallsEnd`, `ShmatReturns`), since nothing about fairness
can be proved with these provers. The type invariants
(`SemTypeOK`, `MsgTypeOK`, `LifecycleTypeOK`, `LinkTypeOK`, `StagesTypeOK`), `EntriesLive` and
`StatsMatchQueue` stand in the modules and hold on the same instances; the runs keep the
properties a change of the code is more likely to break.

## 5. Not modelled, and the plan

Left to TLC among the safety properties, with the reason:

- `WaitsAnswered` and `NobodyInLimbo` are not true of every instance, so that a theorem would
  need hypotheses on what guests do. An early `ATTACH` (`NewChildSane`, section 3) breaks the
  count; as we read the code, a ptracer that is itself a ptracee may be restarted with a stale
  event while it is kept in its wait, and a death may be handled twice when a ptracer in its
  wait dies. In the instance (one debugger, its child, the child's child) they hold. A theorem
  under such hypotheses would also need induction: `remove_tracee` folds over the list of
  ptracees.
- `TreesKept` compares lists that are filtered and folded (`SelectSeq`, `FoldLeft`): induction
  over data.
- `ObjectsOwned`: `Talloc` declares a recursive operator.

To model next: execve of a thread that is not the leader, in `TraceeLifecycle`; `linkat` of
`/proc/self/fd`, in `Link2Symlink`; two threads in `brk` at once.

Not modelled:

- `kompat` and `fix_symlink_size`: the first is not enabled by the application, the second
  changes one field of one result.
- Glue directories and temporary files (`path/glue.c`, `path/temp.c`), `-q` with an emulator,
  the argument block byte by byte, register layouts, the POKEDATA workaround through injected
  calls (its own `waitpid` may swallow another event, mem.c:148).
- Option parsing, messages, the documents provider, the user interface and settings:
  sequential, or input and output only.
- talloc's pools, limits and compatibility layer, and the prebuilt archives.
- Numbers far above the bounds: 10000 names of a link, 4096 IPC objects and 32768 removals of
  one, whose ids share bits (sysvipc_internal.h:209).

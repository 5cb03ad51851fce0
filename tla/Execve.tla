-------------------------------- MODULE Execve --------------------------------
(***************************************************************************)
(* execve(2) of tracees: translate_execve_enter() prepares what PRoot will *)
(* know of the new program and puts the loader in its place, the kernel    *)
(* executes the loader or refuses, translate_execve_exit() commits, and a  *)
(* loader under a tracer says by a spurious execve that it has finished.   *)
(*                                                                         *)
(* A tracee starts as a fork of PRoot, which runs NoProgram until the first*)
(* execve.  A program nothing in the guest names is Unnamed; a Broken one  *)
(* is no ELF file, a Missing one is not found.                             *)
(***************************************************************************)
EXTENDS Integers, FiniteSets

CONSTANTS
    ExecTracees, ExecRoot,
    Programs, Unnamed, Broken, Missing,
    NoProgram

ASSUME ProgramKinds ==
    Unnamed \cup Broken \cup Missing \subseteq Programs /\ NoProgram \notin Programs

VARIABLES
    stage,       \* "unborn", "running", "pending" (execve asked of the kernel), "loading", "dead"
    program,     \* the program of the tracee, the kernel's view of it
    exe, newExe, \* what /proc/self/exe is, and will be: tracee->exe, ->new_exe
    loadInfo,    \* the program tracee->load_info is about
    mapped,      \* whether tracee->load_info->mappings is filled in
    bss,         \* the program the heap follows the BSS of, NoProgram: no heap
    traced,      \* it has a ptracer: as_ptracee.ptracer
    ignoring,    \* as_ptracee.ignore_loader_syscalls
    script,      \* how its load script ends: "START" or "START_TRACED"
    seen,        \* tracee->seen_execve
    refused      \* ghost: the kernel refused its last execve under this tracer

execVars == <<stage, program, exe, newExe, loadInfo, mapped, bss, traced, ignoring, script, seen, refused>>

ExecInit ==
    /\ stage = [t \in ExecTracees |-> IF t = ExecRoot THEN "running" ELSE "unborn"]
    /\ program = [t \in ExecTracees |-> NoProgram]
    /\ exe = program /\ newExe = program /\ loadInfo = program /\ bss = program
    /\ mapped = [t \in ExecTracees |-> FALSE]
    /\ traced = mapped /\ ignoring = mapped /\ seen = mapped /\ refused = mapped
    /\ script = [t \in ExecTracees |-> "START"]

-----------------------------------------------------------------------------
(* translate_execve_enter. *)

\* expand_shebang fails: the call is cancelled, nothing was changed.
EnterMissing(t, p) ==
    /\ stage[t] = "running" /\ p \in Missing
    /\ UNCHANGED execVars

\* Mutant of Remembered: the new name is in force at once.
MutRemembered(t, p) ==
    /\ newExe' = [newExe EXCEPT ![t] = IF p \in Unnamed THEN NoProgram ELSE p]
    /\ exe' = [exe EXCEPT ![t] = p]

\* The new value of /proc/self/exe is kept apart until the execve has happened.
Remembered(t, p) ==
    /\ newExe' = [newExe EXCEPT ![t] = IF p \in Unnamed THEN NoProgram ELSE p]
    /\ UNCHANGED exe

\* What is known of the old program is replaced, even by what turns out to be no program.
EnterBroken(t, p) ==
    /\ stage[t] = "running" /\ p \in Broken \ Missing
    /\ Remembered(t, p)
    /\ loadInfo' = [loadInfo EXCEPT ![t] = p]
    /\ mapped' = [mapped EXCEPT ![t] = FALSE]
    /\ UNCHANGED <<stage, program, bss, traced, ignoring, script, seen, refused>>

EnterExecve(t, p) ==
    /\ stage[t] = "running" /\ p \notin Broken \cup Missing
    /\ Remembered(t, p)
    /\ loadInfo' = [loadInfo EXCEPT ![t] = p]
    /\ mapped' = [mapped EXCEPT ![t] = TRUE]
    /\ ignoring' = [ignoring EXCEPT ![t] = TRUE]
    /\ stage' = [stage EXCEPT ![t] = "pending"]
    /\ UNCHANGED <<program, bss, traced, script, seen, refused>>

(***************************************************************************)
(* translate_execve_exit: after a refusal (E2BIG, ENOMEM, ...) and after   *)
(* an execution of the loader.                                             *)
(***************************************************************************)
Refused(t) ==
    /\ stage[t] = "pending"
    /\ stage' = [stage EXCEPT ![t] = "running"]
    /\ refused' = [refused EXCEPT ![t] = traced[t]]
    /\ UNCHANGED <<program, exe, newExe, loadInfo, mapped, bss, traced, ignoring, script, seen>>

Executed(t) ==
    /\ stage[t] = "pending"
    /\ stage' = [stage EXCEPT ![t] = "loading"]
    /\ program' = [program EXCEPT ![t] = loadInfo[t]]
    /\ exe' = IF newExe[t] = NoProgram THEN exe ELSE [exe EXCEPT ![t] = newExe[t]]
    /\ bss' = [bss EXCEPT ![t] = NoProgram]
    /\ script' = [script EXCEPT ![t] = IF traced[t] THEN "START_TRACED" ELSE "START"]
    /\ seen' = [seen EXCEPT ![t] = TRUE]
    /\ UNCHANGED <<newExe, loadInfo, mapped, traced, ignoring, refused>>

\* LOAD_ACTION_START: the loader branches to the program.
Started(t) ==
    /\ stage[t] = "loading" /\ script[t] = "START"
    /\ stage' = [stage EXCEPT ![t] = "running"]
    /\ UNCHANGED <<program, exe, newExe, loadInfo, mapped, bss, traced, ignoring, script, seen, refused>>

\* Mutant of AllShown: the ptracer is shown nothing more.
MutShown(t) == ignoring

AllShown(t) == [ignoring EXCEPT ![t] = FALSE]

\* LOAD_ACTION_START_TRACED: the notification, in both of its stages; without a ptracer it
\* is the execve it looks like, which fails, and the loader gives up.
Notified(t) ==
    /\ stage[t] = "loading" /\ script[t] = "START_TRACED"
    /\ stage' = [stage EXCEPT ![t] = IF traced[t] THEN "running" ELSE "dead"]
    /\ ignoring' = IF traced[t] THEN AllShown(t) ELSE ignoring
    /\ refused' = [refused EXCEPT ![t] = FALSE]
    /\ UNCHANGED <<program, exe, newExe, loadInfo, mapped, bss, traced, script, seen>>

-----------------------------------------------------------------------------
(* The rest of a tracee's life. *)

\* The first brk(2), from a load_info that has its mappings; MappingsThere is about the other.
Brk(t) ==
    /\ stage[t] = "running" /\ bss[t] = NoProgram /\ mapped[t]
    /\ bss' = [bss EXCEPT ![t] = loadInfo[t]]
    /\ UNCHANGED <<stage, program, exe, newExe, loadInfo, mapped, traced, ignoring, script, seen, refused>>

\* fork: new_child; the options of the parent's ptracer may say that the child has it too.
ExecFork(t, child, follows) ==
    /\ stage[t] = "running" /\ stage[child] = "unborn"
    /\ follows => traced[t]
    /\ stage' = [stage EXCEPT ![child] = "running"]
    /\ program' = [program EXCEPT ![child] = program[t]]
    /\ exe' = [exe EXCEPT ![child] = exe[t]]
    /\ loadInfo' = [loadInfo EXCEPT ![child] = loadInfo[t]]
    /\ mapped' = [mapped EXCEPT ![child] = mapped[t]]
    /\ bss' = [bss EXCEPT ![child] = bss[t]]
    /\ seen' = [seen EXCEPT ![child] = seen[t]]
    /\ traced' = [traced EXCEPT ![child] = follows]
    /\ UNCHANGED <<newExe, ignoring, script, refused>>

\* PTRACE_TRACEME, PTRACE_ATTACH: attach_to_ptracer clears as_ptracee.
TracerAttaches(t) ==
    /\ stage[t] \in {"running", "loading"} /\ ~traced[t]
    /\ traced' = [traced EXCEPT ![t] = TRUE]
    /\ ignoring' = [ignoring EXCEPT ![t] = FALSE]
    /\ refused' = [refused EXCEPT ![t] = FALSE]
    /\ UNCHANGED <<stage, program, exe, newExe, loadInfo, mapped, bss, script, seen>>

\* PTRACE_DETACH, or the end of the ptracer.
TracerLeaves(t) ==
    /\ stage[t] \in {"running", "pending", "loading"} /\ traced[t]
    /\ traced' = [traced EXCEPT ![t] = FALSE]
    /\ UNCHANGED <<stage, program, exe, newExe, loadInfo, mapped, bss, ignoring, script, seen, refused>>

ExecNext ==
    \E t \in ExecTracees :
        \/ \E p \in Programs : EnterMissing(t, p) \/ EnterBroken(t, p) \/ EnterExecve(t, p)
        \/ Refused(t) \/ Executed(t) \/ Started(t) \/ Notified(t)
        \/ Brk(t) \/ TracerAttaches(t) \/ TracerLeaves(t)
        \/ \E child \in ExecTracees, follows \in BOOLEAN : ExecFork(t, child, follows)

ExecSpec == ExecInit /\ [][ExecNext]_execVars

-----------------------------------------------------------------------------
(***************************************************************************)
(* /proc/self/exe is the program that runs, through refused and failed     *)
(* calls and forks between them: "Execve happened; commit the new          *)
(* /proc/self/exe" (execve/exit.c:489).                                    *)
(***************************************************************************)
ExeIsProgram ==
    \A t \in ExecTracees :
        stage[t] \in {"running", "loading"} /\ program[t] \notin Unnamed => exe[t] = program[t]

(***************************************************************************)
(* A ptracer is shown the calls of the program, once its loader has        *)
(* finished: "Syscalls can now be reported to its ptracer"                 *)
(* (execve/enter.c:606); a refused execve is the exception.                *)
(***************************************************************************)
CallsShown ==
    \A t \in ExecTracees : stage[t] = "running" /\ traced[t] /\ ~refused[t] => ~ignoring[t]

(***************************************************************************)
(* What is said of a process is the program it runs: by its /proc/self/exe *)
(* always, and to its ptracer unless an execve was refused under it        *)
(* (execve/enter.c, execve/exit.c).                                        *)
(***************************************************************************)
ProgramKnown == ExeIsProgram /\ CallsShown

(***************************************************************************)
(* "Mask to its ptracer syscalls performed by the loader"                  *)
(* (execve/enter.c:717): those only.                                       *)
(***************************************************************************)
OnlyLoaderMasked == \A t \in ExecTracees : stage[t] = "running" /\ traced[t] => ~ignoring[t]

(***************************************************************************)
(* "Put the heap as close to the BSS as possible" (syscall/heap.c:94): the *)
(* BSS of the program that runs.                                           *)
(***************************************************************************)
HeapAfterProgram == \A t \in ExecTracees : bss[t] \in {NoProgram, program[t]}

(***************************************************************************)
(* The first brk(2) finds the mappings of the load_info it looks at        *)
(* (syscall/heap.c:105, which does not test for NULL).                     *)
(***************************************************************************)
MappingsThere ==
    \A t \in ExecTracees :
        stage[t] = "running" /\ bss[t] = NoProgram /\ program[t] # NoProgram => mapped[t]

(***************************************************************************)
(* The loader starts the program, whatever becomes of the ptracer.         *)
(***************************************************************************)
LoaderGetsThere == \A t \in ExecTracees : stage[t] # "dead"
==============================================================================

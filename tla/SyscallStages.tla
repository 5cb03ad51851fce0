----------------------------- MODULE SyscallStages -----------------------------
(***************************************************************************)
(* The stages of one system call of a tracee, as PRoot's event loop sees   *)
(* them (tracee/event.c, syscall/syscall.c, syscall/chain.c,               *)
(* tracee/seccomp.c and the registers of tracee/reg.c).                    *)
(*                                                                         *)
(* The kernel can stop a tracee at the entry and at the exit of every call *)
(* (restart by PTRACE_SYSCALL) or, with PRoot's filter, only at a seccomp  *)
(* stop for the calls PRoot translates (restart by PTRACE_CONT).  The      *)
(* seccomp stop comes before the entry stop up to Linux 4.7 and after it   *)
(* since.  A call that the host's own policy forbids raises SIGSYS instead: *)
(* PRoot answers it, or rewrites it to a newer call and runs it again.     *)
(* After a call PRoot can chain others, and where the number of a call     *)
(* cannot be changed PRoot lets the call fail and chains the new one.      *)
(*                                                                         *)
(* Registers are one record: the number, the arguments as a token that     *)
(* says who wrote them, the stack pointer, the instruction pointer ("trap" *)
(* when the next instruction is the system call) and the result.           *)
(***************************************************************************)
EXTENDS Integers, Sequences, FiniteSets

CONSTANTS
  Requests,      \* the system calls that the guest makes, under each policy of the host
  MaxStageCalls,      \* bound: how many
  MaxChain,      \* bound: system calls chained after one
  Signals        \* the signals sent to the guest, each one once

\* The host's policy forbids no call, all but the known ones, or some old calls.
Policies == {"none", "allow list", "deny list"}

ASSUME StagesAssumption == MaxStageCalls \in Nat /\ MaxChain \in Nat /\ DOMAIN Requests \subseteq Policies

VARIABLE s       \* the tracee: what the kernel knows of it, then its Tracee

\* "plain" is not translated; "path" at its entry only; "late" asks for its exit at
\* its entry; "watch", the reader of /proc/self/auxv, asks at its exit to see the next
\* call as well; "both" is translated at both; "emulated" and "traceme" are made
\* void; "renamed" becomes "plain"; "execve" stops once more before its exit; the
\* host forbids "open", rewritten to "path", and "gone"; the kernel may know no
\* "utime", rewritten to "path" as well.
Numbers == {"plain", "path", "late", "watch", "both", "emulated", "traceme", "renamed",
            "execve", "open", "gone", "utime"}
Traced(nr)    == nr \in Numbers \ {"plain", "gone"}
Sysexit(nr)   == nr \in {"both", "emulated", "traceme", "renamed", "execve", "utime"}
Forbidden(policy, nr) ==
  \/ policy # "none" /\ nr \in {"open", "gone"}
  \/ policy = "allow list" /\ nr = "void"

Regs(nr, args, pc) == [nr |-> nr, args |-> args, sp |-> "own", pc |-> pc, result |-> "none"]
NoRegs == Regs("plain", "own", "after")

\* newer: the order of the stops; filter: PRoot's seccomp filter is installed;
\* sets_sysnum: the number of a call can be changed; policy: what the host forbids.
Kernels == [newer : BOOLEAN, filter : BOOLEAN, sets_sysnum : BOOLEAN, policy : DOMAIN Requests]

Way(kernel) == IF kernel.newer THEN <<"enter", "seccomp", "perform", "exit">>
               ELSE <<"seccomp", "enter", "perform", "exit">>

\* The execve of the first program, restarted by PTRACE_SYSCALL.  Without a filter
\* there is no seccomp stop to detect the order: PROOT_ASSUME_NEW_SECCOMP tells it.
StagesInit ==
  \E kernel \in Kernels :
    s = [kernel |-> kernel, todo |-> Way(kernel), stop |-> "none",
         regs |-> Regs("execve", "own", "after"), nr |-> "execve",
         pending |-> {}, unsent |-> Signals, got |-> {}, left |-> MaxStageCalls,
         promised |-> "kernel", ran |-> {}, aborted |-> FALSE,
         seccomp |-> "DISABLED", detected |-> FALSE,
         after_enter |-> kernel.newer /\ ~ kernel.filter,
         status |-> 0, restart_how |-> "none", last_restart_how |-> "SYSCALL",
         sysexit_pending |-> FALSE, already_handled_enter |-> FALSE, skip_next |-> FALSE,
         chain |-> <<>>, chaining |-> FALSE, forced |-> FALSE, workaround |-> "INACTIVE",
         suppressed |-> {}, restore |-> FALSE, rewritten |-> FALSE,
         cur |-> NoRegs, orig |-> NoRegs, rewrite |-> NoRegs, changed |-> FALSE]

\* PRoot gives up when the first program cannot be executed.
Launching(a)  == a.left = MaxStageCalls
InSysenter(a) == a.status = 0
Necessary(a)  == a.sysexit_pending \/ a.chaining \/ a.rewritten

Poke(a, regs) == [a EXCEPT !.cur = regs, !.changed = @ \/ regs # a.cur]
Save(a)       == [a EXCEPT !.orig = a.cur, !.changed = FALSE]
Back(regs)    == [regs EXCEPT !.pc = "trap"]

(***************************************************************************)
(* push_specific_regs().  Registers that were not changed are not written  *)
(* back.  Where the number cannot be changed nothing is written either.    *)
(***************************************************************************)
Restored(regs, from) ==
  [regs EXCEPT !.nr = from.nr, !.args = from.args, !.sp = from.sp]

\* Mutant of RestoresRewrite: the registers of a rewritten call are those of the new call.
MutRestoresRewrite(a) == FALSE
RestoresRewrite(a) == a.rewritten

PushStatus(a, including) ==
  IF including /\ a.changed /\ a.cur.nr # a.orig.nr /\ ~ a.kernel.sets_sysnum THEN -1 ELSE 0

Push(a, including) ==
  LET restores == a.restore /\ (a.changed \/ a.rewritten)
      c == IF restores THEN Restored(a.cur, IF RestoresRewrite(a) THEN a.rewrite ELSE a.orig)
           ELSE a.cur
      b == [a EXCEPT !.cur = c, !.rewritten = @ /\ ~ restores]
  IN IF (~ a.changed /\ ~ restores) \/ PushStatus(a, including) < 0 THEN b
     ELSE [b EXCEPT !.regs = c, !.nr = IF a.kernel.sets_sysnum THEN c.nr ELSE a.nr]

(***************************************************************************)
(* Chained calls.                                                          *)
(***************************************************************************)
register_chained_syscall(a, nrs) == [a EXCEPT !.chaining = TRUE, !.chain = @ \o nrs]

restart_current_syscall_as_chained(a) ==
  [a EXCEPT !.workaround = "FAULTY_CALL", !.chaining = TRUE, !.chain = <<a.cur>> \o @]

\* Mutant of Forces: the result of the last chained call replaces the forced one.
MutForces(a) == FALSE
Forces(a) == a.forced

chain_next_syscall(a) ==
  IF a.chain = <<>>
  THEN [Poke(a, IF Forces(a) THEN [a.cur EXCEPT !.result = "proot"] ELSE a.cur)
          EXCEPT !.chaining = FALSE, !.forced = FALSE]
  ELSE [Poke(a, [Head(a.chain) EXCEPT !.sp = a.cur.sp, !.pc = "trap", !.result = a.cur.result])
          EXCEPT !.restore = FALSE, !.chain = Tail(@), !.restart_how = "SYSCALL"]

(***************************************************************************)
(* A call that the host forbids, or the kernel does not know: a result, or *)
(* a newer call run again from the trap.                                   *)
(***************************************************************************)
restart_syscall_after_seccomp(a) ==
  Push(Poke([a EXCEPT !.rewritten = TRUE, !.restart_how = "SYSCALL", !.promised = "kernel"],
            Back(a.cur)), FALSE)

set_result_after_seccomp(a) ==
  [Push(Poke(a, [a.cur EXCEPT !.result = "proot"]), FALSE) EXCEPT !.promised = "proot"]

handle_seccomp_event_common(a) ==
  IF a.cur.nr \in {"open", "utime"}
  THEN restart_syscall_after_seccomp(Poke(a, [a.cur EXCEPT !.nr = "path",
                               !.args = IF @ = "own" THEN "rewritten" ELSE "twice"]))
  ELSE set_result_after_seccomp(a)

handle_seccomp_event(a) ==
  handle_seccomp_event_common(
    [a EXCEPT !.status = 0, !.restore = FALSE, !.cur = a.regs, !.rewrite = a.regs])

fix_and_restart_enosys_syscall(a) ==
  handle_seccomp_event_common(
    [a EXCEPT !.status = 0, !.restore = FALSE, !.cur = a.orig, !.rewrite = a.orig])

(***************************************************************************)
(* What PRoot and its extensions do at the entry and at the exit of a call: *)
(* the possible outcomes.                                                  *)
(***************************************************************************)
Translated(args) == IF args \in {"own", "rewritten"} THEN "translated" ELSE "twice"

SetStatus(a, status) == [a EXCEPT !.status = status]

translate_syscall_enter(a) ==
  LET nr     == a.cur.nr
      moved  == [a.cur EXCEPT !.args = Translated(@), !.sp = "moved"]
      promise == [a EXCEPT !.promised = "kernel"]
  IN CASE ~ Traced(nr) -> {SetStatus(promise, 1)}
       [] nr \in {"emulated", "traceme"} ->
            {SetStatus([Poke(a, [a.cur EXCEPT !.nr = "void"]) EXCEPT !.promised = "proot"], 1)}
       [] OTHER ->
            (IF Launching(a) THEN {} ELSE {SetStatus([a EXCEPT !.promised = "proot"], -1)}) \cup
            {SetStatus(Poke(IF nr \in {"late", "watch"} THEN [promise EXCEPT !.sysexit_pending = TRUE,
                                                                  !.restart_how = "SYSCALL"]
                            ELSE promise,
                            IF nr = "renamed" THEN [moved EXCEPT !.nr = "plain"] ELSE moved), 1)}

\* The calls chained by the extensions: some are translated ones themselves.
Chains == UNION {[1 .. n -> {"plain", "both"}] : n \in 1 .. MaxChain}

Chained(a) ==
  UNION {{[register_chained_syscall(a, [i \in DOMAIN nrs |-> Regs(nrs[i], "chain", "trap")])
             EXCEPT !.forced = forced, !.promised = IF forced THEN "proot" ELSE "chain"] :
            forced \in BOOLEAN} : nrs \in Chains}

translate_syscall_exit(a) ==
  LET answered == Poke(a, [a.cur EXCEPT !.result = "proot"]) IN
  CASE a.status < 0 \/ a.orig.nr = "emulated" -> {answered}
    [] a.status >= 0 /\ a.orig.nr = "traceme" ->
         {[answered EXCEPT !.seccomp = IF @ = "ENABLED" THEN "DISABLING" ELSE @]}
    [] a.status >= 0 /\ a.orig.nr = "both"  -> {a} \cup Chained(a)
    [] a.status >= 0 /\ a.orig.nr = "watch" ->
         {a, [a EXCEPT !.sysexit_pending = TRUE, !.restart_how = "SYSCALL"]}
    [] a.status >= 0 /\ a.orig.nr = "utime" /\ a.cur.result = "ENOSYS" ->
         {fix_and_restart_enosys_syscall(a)}
    [] OTHER -> {a}

(***************************************************************************)
(* translate_syscall()                                                     *)
(***************************************************************************)
\* Mutant of Requested: a chained call is translated like one of the guest.
MutRequested(a) == TRUE
Requested(a) == ~ a.chaining

\* An error makes the call void; without an exit stage to come, the stack pointer
\* is given back now.
EndEnter(a) ==
  LET failed == IF a.status < 0
                THEN Poke(a, [a.cur EXCEPT !.nr = "void", !.result = "proot"]) ELSE a
  IN IF a.restart_how = "CONT"
     THEN Poke([failed EXCEPT !.status = 0], [failed.cur EXCEPT !.sp = a.orig.sp])
     ELSE failed

\* The number could not be changed: the call must fail, and the one wanted is
\* chained.  before: the state before EndEnter took the status away.
EnterPushed(before, a) ==
  IF PushStatus(a, ~ a.chaining) = 0 THEN Push(a, ~ a.chaining)
  ELSE LET b == IF a.cur.nr # "void" THEN restart_current_syscall_as_chained(a)
                ELSE IF a.restart_how = "CONT"
                     THEN [a EXCEPT !.status = before.status, !.restart_how = "SYSCALL"]
                ELSE a
       IN Push(Poke(b, [b.cur EXCEPT !.args = "bad"]), FALSE)

EnterStage(a) ==
  LET b == [a EXCEPT !.restore = FALSE, !.cur = a.regs] IN
  {EnterPushed(c, EndEnter(c)) :
     c \in IF Requested(b) THEN translate_syscall_enter(Save(b))
           ELSE {[b EXCEPT !.restart_how = "SYSCALL", !.status = 1]}}

ExitPushed(a) ==
  LET b == SetStatus(a, 0) IN Push(IF b.chaining THEN chain_next_syscall(b) ELSE b, FALSE)

ExitStage(a) ==
  LET b == [a EXCEPT !.restore = TRUE, !.cur = a.regs]
      replaced == b.workaround = "REPLACED_CALL"
  IN {ExitPushed(c) :
        c \in IF ~ b.chaining \/ replaced
              THEN translate_syscall_exit([b EXCEPT !.workaround = "INACTIVE"])
              ELSE {[b EXCEPT !.workaround = IF @ = "FAULTY_CALL" THEN "REPLACED_CALL" ELSE @]}}

translate_syscall(a) == IF InSysenter(a) THEN EnterStage(a) ELSE ExitStage(a)

(***************************************************************************)
(* handle_tracee_event(): the state after each of the stops.               *)
(***************************************************************************)
Asserts(a, condition) == [a EXCEPT !.aborted = @ \/ ~ condition]

\* Mutant of ByDefault: a signal between two chained calls ends the interception.
MutByDefault(a) == IF a.seccomp = "ENABLED" /\ ~ a.sysexit_pending THEN "CONT" ELSE "SYSCALL"
ByDefault(a) == IF a.seccomp = "ENABLED" /\ ~ Necessary(a) THEN "CONT" ELSE "SYSCALL"

\* Redeliver the signal suppressed during a chain once it is finished.
Redeliver(a) ==
  IF a.suppressed # {} /\ ~ a.chaining /\ ~ a.rewritten
  THEN [a EXCEPT !.pending = @ \cup a.suppressed, !.suppressed = {}] ELSE a

SkipNext(was_sysenter, a) ==
  IF was_sysenter THEN [a EXCEPT !.skip_next = a.after_enter /\ a.cur.nr = "void"] ELSE a

\* This system call has disabled seccomp.
Disabled(a) ==
  IF a.seccomp = "DISABLING" THEN [a EXCEPT !.restart_how = "SYSCALL", !.seccomp = "DISABLED"]
  ELSE a

\* Seccomp was disabled by a previous system call: the entry was already handled.
EnterOfDisabled(a) ==
  [a EXCEPT !.seccomp = "DISABLED", !.status = IF InSysenter(a) THEN 1 ELSE @]

syscall_stop(a) ==
  LET b == IF a.seccomp = "ENABLED"
           THEN [a EXCEPT !.restart_how = IF InSysenter(a) THEN "SYSCALL" ELSE "CONT",
                          !.sysexit_pending = InSysenter(a)]
           ELSE a
  IN IF a.seccomp = "DISABLING" THEN {EnterOfDisabled(a)}
     ELSE IF ~ a.already_handled_enter
     THEN {Disabled(Redeliver(SkipNext(InSysenter(a), c))) : c \in translate_syscall(b)}
     ELSE {Disabled([Asserts(b, ~ InSysenter(b) /\ ~ b.after_enter)
                       EXCEPT !.already_handled_enter = FALSE, !.restart_how = "SYSCALL"])}

\* Mutant of HandledBySeccompStop: the entry stop that is still to come is forgotten.
MutHandledBySeccompStop(a) == FALSE
HandledBySeccompStop(a) == ~ a.after_enter /\ a.restart_how = "SYSCALL"

EnterBySeccompStop(a) ==
  {LET c == [b EXCEPT !.restart_how =
               IF b.sysexit_pending \/ b.seccomp = "DISABLING" THEN "SYSCALL" ELSE @]
   IN [c EXCEPT !.already_handled_enter = @ \/ HandledBySeccompStop(c)] :
     b \in translate_syscall([a EXCEPT !.restart_how = "CONT"])}

seccomp_stop(a, necessary) ==
  LET b == [(IF a.detected THEN a
             ELSE [a EXCEPT !.seccomp = "ENABLED", !.detected = TRUE,
                            !.after_enter = ~ InSysenter(a)]) EXCEPT !.skip_next = FALSE]
  IN IF b.after_enter /\ ~ InSysenter(b)
     THEN {Asserts([b EXCEPT !.restart_how = b.last_restart_how], b.last_restart_how # "CONT")}
     ELSE IF b.seccomp # "ENABLED" THEN {Asserts(b, InSysenter(b))}
     ELSE IF Sysexit(b.nr) \/ necessary
     THEN {[c EXCEPT !.restart_how = "SYSCALL"] :
             c \in IF b.after_enter THEN translate_syscall([b EXCEPT !.restart_how = "SYSCALL"])
                   ELSE {b}}
     ELSE EnterBySeccompStop(Asserts(b, InSysenter(b)))

\* Mutant of IgnoreSigsys: the SIGSYS of a call that PRoot made void is taken for one
\* of the guest.
MutIgnoreSigsys(a, nr) == FALSE
IgnoreSigsys(a, nr) == a.skip_next \/ (a.after_enter /\ nr = "void")

sigsys_stop(a) ==
  {IF IgnoreSigsys(b, a.nr) THEN [b EXCEPT !.skip_next = FALSE] ELSE handle_seccomp_event(b) :
     b \in IF InSysenter(a) THEN {a} ELSE translate_syscall(a)}

Suppressing(a) == a.chaining \/ a.rewritten

\* A signal is delivered as it is, unless system calls are being chained.
signal_stop(a, signal) ==
  IF Suppressing(a) THEN [a EXCEPT !.suppressed = {signal}]
  ELSE [a EXCEPT !.got = @ \cup {signal}]

event_stop(a) == [a EXCEPT !.restart_how = a.last_restart_how]

(***************************************************************************)
(* The kernel and the guest.                                               *)
(***************************************************************************)
Running == s.stop = "none"
InGuest == Running /\ s.todo = <<>>
Reaches(point) == Running /\ s.todo # <<>> /\ Head(s.todo) = point
GoesThrough(todo)     == s' = [s EXCEPT !.todo = todo]
StopsAt(point)   == s' = [s EXCEPT !.stop = point, !.todo = Tail(@)]

GuestCall(nr) ==
  /\ InGuest /\ s.regs.pc = "after" /\ s.left > 0
  /\ s' = [s EXCEPT !.regs = Regs(nr, "own", "after"), !.nr = nr, !.ran = {},
                    !.promised = "kernel", !.left = @ - 1, !.todo = Way(s.kernel)]

\* PRoot moved the instruction pointer back to the trap.
GuestTrap ==
  /\ InGuest /\ s.regs.pc = "trap"
  /\ s' = [s EXCEPT !.regs = [@ EXCEPT !.pc = "after"], !.nr = s.regs.nr, !.todo = Way(s.kernel)]

SyscallStop(point) ==
  /\ Reaches(point)
  /\ IF s.last_restart_how = "SYSCALL" THEN StopsAt(point) ELSE GoesThrough(Tail(s.todo))

\* A call made void at its entry is trapped too when the host's policy comes later;
\* its exit may be reported before the signal is.
SeccompCheck ==
  /\ Reaches("seccomp")
  /\ \/ /\ Forbidden(s.kernel.policy, s.nr)
        /\ \/ GoesThrough(<<"sigsys">>)
           \/ s.kernel.newer /\ GoesThrough(<<"exit", "sigsys">>)
     \/ /\ ~ Forbidden(s.kernel.policy, s.nr)
        /\ IF Traced(s.nr) /\ s.kernel.filter THEN StopsAt("seccomp") ELSE GoesThrough(Tail(s.todo))

Result(a) ==
  IF a.regs.args \in {"bad", "chain"} THEN {a.regs.args}
  ELSE IF a.nr = "utime" THEN {"kernel", "ENOSYS"} ELSE {"kernel"}

Perform ==
  /\ Reaches("perform")
  /\ IF s.nr = "void" THEN GoesThrough(Tail(s.todo))
     ELSE \E result \in Result(s) :
            s' = [s EXCEPT !.regs = [@ EXCEPT !.result = result],
                           !.ran = @ \cup {[nr |-> s.nr, args |-> s.regs.args]},
                           !.todo = IF s.nr = "execve" THEN <<"event", "exit">> ELSE Tail(@)]

OtherStop == \E point \in {"event", "sigsys"} : Reaches(point) /\ StopsAt(point)

Send(signal) ==
  /\ signal \in s.unsent
  /\ s' = [s EXCEPT !.unsent = @ \ {signal}, !.pending = @ \cup {signal}]

SignalStop == InGuest /\ s.pending # {} /\ s' = [s EXCEPT !.stop = "signal"]

\* One iteration of PRoot's event loop.
Outcomes(a) ==
  LET b == [a EXCEPT !.restart_how = ByDefault(a)] IN
  CASE a.stop \in {"enter", "exit"} -> syscall_stop(b)
    [] a.stop = "seccomp" -> seccomp_stop(b, Necessary(a))
    [] a.stop = "sigsys"  -> sigsys_stop(b)
    [] a.stop = "event"   -> {event_stop(b)}
    [] a.stop = "signal"  -> {signal_stop([b EXCEPT !.pending = @ \ {x}], x) : x \in a.pending}

HandleStop ==
  /\ ~ Running
  /\ \E b \in Outcomes(s) :
       s' = [b EXCEPT !.stop = "none", !.last_restart_how = b.restart_how,
                      !.restart_how = "none"]

Kernel == GuestTrap \/ (\E point \in {"enter", "exit"} : SyscallStop(point)) \/ SeccompCheck
          \/ Perform \/ OtherStop \/ SignalStop

StagesNext ==
  \/ \E nr \in Requests[s.kernel.policy] : GuestCall(nr)
  \/ \E signal \in Signals : Send(signal)
  \/ Kernel
  \/ HandleStop

\* The kernel and PRoot never stop half way; the guest may make no other call.
StagesSpec == StagesInit /\ [][StagesNext]_s /\ WF_s(Kernel) /\ WF_s(HandleStop)

Returned == InGuest /\ s.regs.pc = "after"

(***************************************************************************)
(* Properties.                                                             *)
(***************************************************************************)

\* The types of the fields; arguments are translated at most once.
StagesTypeOK ==
  /\ s.stop \in {"none", "enter", "exit", "seccomp", "sigsys", "event", "signal"}
  /\ s.seccomp \in {"ENABLED", "DISABLING", "DISABLED"}
  /\ s.workaround \in {"INACTIVE", "FAULTY_CALL", "REPLACED_CALL"}
  /\ s.status \in {-1, 0, 1} /\ Len(s.chain) <= MaxChain
  /\ s.regs.args \in {"own", "rewritten", "translated", "chain", "bad"}

\* In both orders of the stops, with chained, rewritten and replaced calls, no call
\* that PRoot translates reaches the kernel with the arguments the guest gave it.
TranslatedOnce ==
  \A call \in s.ran : Traced(call.nr) => call.args \in {"translated", "chain", "bad"}

\* Back in its own code the guest has its own stack and arguments (translated ones
\* where there was no exit stop to restore them), nothing of a chain or of a rewritten
\* call is left, PRoot awaits the entry of a call, and no assertion of the
\* handler of seccomp and system call stops failed on the way.
InSync ==
  /\ ~ s.aborted
  /\ Returned => /\ s.regs.sp = "own" /\ InSysenter(s) /\ ~ s.already_handled_enter
                 /\ ~ s.chaining /\ ~ s.rewritten /\ s.workaround = "INACTIVE"
                 /\ s.regs.args \in {"own", "translated"}

\* The guest gets the result that is due: the error of the translation, the forced
\* result of a chain or the last call's, that of the rewritten call or the kernel's.
ResultKept == Returned => s.regs.result = s.promised

\* A call is the guest's own: whatever PRoot puts before, after or instead of it, it
\* reaches the kernel translated, leaves the guest's registers and the stages of
\* PRoot as they should be, and returns what is due (tracee/event.c, syscall/syscall.c).
CallsFaithful == TranslatedOnce /\ InSync /\ ResultKept

\* No signal is lost while system calls are chained.
SignalsKept == s.unsent \cup s.pending \cup s.suppressed \cup s.got = Signals

\* Every call of the guest ends: no chain, rewriting or workaround repeats for ever.
CallsEnd == ~ Returned ~> Returned
=============================================================================

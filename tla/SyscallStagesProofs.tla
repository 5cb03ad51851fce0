------------------------- MODULE SyscallStagesProofs -------------------------
(***************************************************************************)
(* Every call of the guest reaches the kernel translated, leaves its       *)
(* registers and the stages of PRoot as they should be, and returns what   *)
(* is due, for every number of calls, of chained calls and of signals, on  *)
(* a host that forbids nothing or all but the known calls.                 *)
(***************************************************************************)
EXTENDS SyscallStages, SequenceTheorems, TLAPS

\* What the guest may ask, see README.md: a deny list leaves skip_next set
\* (event.c:698), and so does a call made void after PRoot's filter was disabled.
Asked ==
  /\ DOMAIN Requests \subseteq {"none", "allow list"}
  /\ \A policy \in DOMAIN Requests : Requests[policy] \subseteq Numbers
  /\ "allow list" \in DOMAIN Requests => "traceme" \notin Requests["allow list"]

(***************************************************************************)
(* How PRoot follows the tracee.                                           *)
(***************************************************************************)

\* The order of the stops is known, from the first seccomp stop or for want of one.
Knows(a) == a.detected \/ ~ a.kernel.filter

ModeOK(a) ==
  /\ a.kernel \in Kernels /\ ~ a.aborted /\ a.rewritten \in BOOLEAN
  /\ a.seccomp \in {"ENABLED", "DISABLED"} /\ a.last_restart_how \in {"SYSCALL", "CONT"}
  /\ a.seccomp = "ENABLED" => a.detected
  /\ a.seccomp = "DISABLED" => a.last_restart_how = "SYSCALL"
  /\ a.detected => a.kernel.filter /\ (a.seccomp = "DISABLED" => a.kernel.policy = "none")
  /\ a.after_enter <=> a.kernel.newer /\ Knows(a)
  /\ a.skip_next => a.kernel.newer

RanOK(a) == \A call \in a.ran : Traced(call.nr) => call.args \in {"translated", "chain", "bad"}

\* No SIGSYS is expected, so that the next one is about a call of the guest.
NoSkip(a) == a.kernel.newer /\ a.kernel.filter /\ a.kernel.policy # "none" => ~ a.skip_next

(***************************************************************************)
(* The calls before their entry was handled: the guest's own, a rewritten  *)
(* one, a chained one, and the one that replaces a faulty call.            *)
(***************************************************************************)
Own(regs)      == regs.args = "own" /\ regs.sp = "own"
Allowed(a, nr) == nr \in Numbers /\ (a.kernel.policy # "none" => nr # "traceme")
NoChain(a)     == ~ a.chaining /\ a.chain = <<>> /\ ~ a.forced /\ a.workaround = "INACTIVE"
InChain(a)     == a.chaining /\ ~ a.rewritten /\ a.changed /\ Own(a.orig)
ChainedRegs    == [nr : {"plain", "both"}, args : {"chain"}, sp : {"own"}, pc : {"trap"},
                   result : {"none"}]

Fresh(a) ==
  /\ NoChain(a) /\ ~ a.rewritten /\ a.promised = "kernel" /\ Own(a.regs) /\ Allowed(a, a.regs.nr)

RewrittenCall(a) ==
  /\ NoChain(a) /\ a.rewritten /\ a.promised = "kernel" /\ Own(a.rewrite)
  /\ a.regs.nr = "path" /\ a.regs.args = "rewritten" /\ a.regs.sp = "own"

ChainedCall(a) ==
  /\ InChain(a) /\ a.workaround = "INACTIVE" /\ a.chain \in Seq(ChainedRegs)
  /\ a.regs.nr \in {"plain", "both"} /\ a.regs.args = "chain"
  /\ a.promised = IF a.forced THEN "proot" ELSE "chain"

ReplacingCall(a) ==
  /\ InChain(a) /\ a.workaround = "REPLACED_CALL" /\ a.chain = <<>> /\ ~ a.forced
  /\ a.regs.nr = "plain" /\ a.regs.args = "translated" /\ a.promised = "kernel"
  /\ a.orig.nr = "renamed"

\* The call whose number cannot be changed: it fails, the one wanted is chained.
FaultyCall(a) ==
  /\ InChain(a) /\ a.workaround = "FAULTY_CALL" /\ ~ a.forced /\ a.promised = "kernel"
  /\ a.chain = <<a.chain[1]>> /\ a.chain[1].nr = "plain" /\ a.chain[1].args = "translated"
  /\ a.nr = "renamed" /\ a.orig.nr = "renamed" /\ a.regs.args = "bad" /\ a.status = 1

Prompted(a) == RewrittenCall(a) \/ ChainedCall(a) \/ ReplacingCall(a)

\* A call of the guest, its own or rewritten, whose entry was handled.
Void == {"emulated", "traceme"}
Translating(a) ==
  /\ NoChain(a) /\ a.orig.sp = "own" /\ Allowed(a, a.orig.nr)
  /\ a.rewritten => a.orig.args = "rewritten" /\ a.orig.nr = "path" /\ Own(a.rewrite)
  /\ ~ a.rewritten => a.orig.args = "own"
  /\ ~ a.changed => a.regs.args = a.orig.args /\ a.regs.sp = "own" /\ a.regs.nr = a.orig.nr
  /\ Traced(a.nr) => a.regs.args \in {"translated", "bad"}
  /\ a.status = -1 => a.promised = "proot"
  /\ a.status = 1 /\ a.orig.nr \in Void => a.promised = "proot" /\ a.nr \in {"void", a.orig.nr}
  /\ a.status = 1 /\ a.orig.nr \notin Void =>
       /\ a.promised = "kernel" /\ a.regs.args \notin {"bad", "chain"}
       /\ a.nr = IF a.orig.nr = "renamed" THEN "plain" ELSE a.orig.nr

\* What is left of a call.
NewWay        == <<"enter", "seccomp", "perform", "exit">>
OldWay        == <<"seccomp", "enter", "perform", "exit">>
FromSeccomp   == <<"seccomp", "perform", "exit">>
FromEnter     == <<"enter", "perform", "exit">>
FromPerform   == <<"perform", "exit">>
FromEvent     == <<"event", "exit">>
ExitAndSigsys == <<"exit", "sigsys">>
FromExit      == <<"exit">>
OnlySigsys    == <<"sigsys">>

(***************************************************************************)
(* Where the tracee is.                                                    *)
(***************************************************************************)
Between(a, todo)       == a.stop = "none" /\ a.todo = todo
Stopped(a, stop, todo) == a.stop = stop /\ a.todo = todo
Unhandled(a) == a.status = 0 /\ ~ a.already_handled_enter
Free(a)      == a.stop \in {"none", "signal"} /\ a.todo = <<>> /\ Unhandled(a) /\ NoSkip(a) /\ Knows(a)

\* The registers are the guest's, with the result that is due.
Answer(a) ==
  /\ NoChain(a) /\ ~ a.rewritten /\ a.regs.sp = "own" /\ a.regs.args \in {"own", "translated"}
  /\ a.regs.result = a.promised

AtRest(a) == Free(a) /\ a.regs.pc = "after" /\ Answer(a)
AtTrap(a) == Free(a) /\ a.regs.pc = "trap" /\ a.last_restart_how = "SYSCALL" /\ Prompted(a)

BeforeEntry(a) ==
  \/ /\ a.kernel.newer
     /\ \/ Between(a, NewWay)
        \/ Stopped(a, "enter", FromSeccomp) /\ a.last_restart_how = "SYSCALL"
        \/ Between(a, FromSeccomp) /\ a.last_restart_how = "CONT"
        \/ /\ Stopped(a, "seccomp", FromPerform) /\ a.last_restart_how = "CONT"
           /\ Traced(a.nr)
  \/ /\ ~ a.kernel.newer
     /\ \/ Between(a, OldWay)
        \/ /\ Stopped(a, "seccomp", FromEnter)
           /\ Traced(a.nr) /\ a.kernel.filter
        \/ /\ Between(a, FromEnter)
           /\ a.last_restart_how = "SYSCALL" /\ Knows(a)
        \/ Stopped(a, "enter", FromPerform) /\ a.last_restart_how = "SYSCALL" /\ Knows(a)

\* The entry is still to be handled.
Entering(a) ==
  /\ BeforeEntry(a) /\ Unhandled(a) /\ a.regs.pc = "after" /\ a.nr = a.regs.nr /\ NoSkip(a)
  /\ Fresh(a) \/ (a.last_restart_how = "SYSCALL" /\ Prompted(a))
  /\ ~ Knows(a) => Launching(a) /\ a.nr = "execve" /\ Fresh(a)

\* The call goes on without a stop.
Passing(a) ==
  /\ a.stop = "none" /\ Unhandled(a) /\ a.regs.pc = "after" /\ a.last_restart_how = "CONT"
  /\ \/ ~ a.kernel.newer /\ a.todo = FromEnter
     \/ a.todo = FromPerform
     \/ a.todo = FromExit /\ a.regs.result = a.promised
  /\ NoSkip(a) /\ NoChain(a) /\ ~ a.rewritten /\ a.regs.sp = "own"
  /\ a.regs.args \in {"own", "translated"} /\ a.nr \notin {"execve", "utime"}
  /\ Traced(a.nr) => a.regs.args = "translated"
  /\ IF a.nr = "void" THEN a.regs.result = a.promised ELSE a.promised = "kernel"

\* A SIGSYS is to come, about a call of the guest or one that PRoot answered.
Trapped(a) ==
  /\ Unhandled(a) /\ a.regs.pc = "after" /\ a.kernel.policy # "none" /\ Knows(a)
  /\ \/ Between(a, OnlySigsys)
     \/ Stopped(a, "sigsys", <<>>)
     \/ Between(a, ExitAndSigsys) /\ a.last_restart_how = "CONT"
  /\ NoChain(a) /\ ~ a.rewritten
  /\ a.skip_next => Answer(a)
  /\ ~ a.skip_next => a.nr \in {"open", "gone"} /\ a.regs.nr \in {"open", "gone"} /\ Own(a.regs)

\* The same, and the exit of the call is to be handled before.
Doomed(a) ==
  /\ a.kernel.policy # "none" /\ a.kernel.newer /\ Knows(a) /\ Translating(a)
  /\ ~ a.already_handled_enter
  /\ \/ Between(a, OnlySigsys)
     \/ Stopped(a, "sigsys", <<>>)
     \/ Between(a, ExitAndSigsys)
     \/ Stopped(a, "exit", OnlySigsys)
  /\ a.skip_next => a.promised = "proot"
  /\ ~ a.skip_next => a.status = 1 /\ a.nr = a.orig.nr /\ a.nr \in {"open", "gone"}

\* The entry was handled, the call is still to be made.
Handled(a) ==
  /\ a.already_handled_enter <=> a.stop = "enter" \/ a.todo = FromEnter
  /\ \/ /\ ~ a.kernel.newer /\ Knows(a)
        /\ \/ Between(a, FromEnter)
           \/ Stopped(a, "enter", FromPerform)
     \/ /\ a.kernel.newer /\ Between(a, FromSeccomp)
        /\ Translating(a) /\ ~ a.skip_next /\ Knows(a) => a.status = 1 /\ a.nr # "void"
        /\ a.skip_next => a.nr = "void" \/ Traced(a.nr)
     \/ a.kernel.newer /\ a.kernel.filter /\ Stopped(a, "seccomp", FromPerform)
     \/ Between(a, FromPerform) /\ Knows(a) /\ NoSkip(a)
  /\ ~ Knows(a) => a.nr = "execve" /\ Translating(a)
  /\ \/ Translating(a)
     \/ a.status = 1 /\ a.nr = a.regs.nr /\ (ChainedCall(a) \/ ReplacingCall(a))
     \/ FaultyCall(a)

\* It returned what it should.
Returning(a) ==
  \/ /\ Translating(a)
     /\ a.status = 1 /\ a.orig.nr \notin Void =>
          a.regs.result = "kernel" \/ (a.orig.nr = "utime" /\ a.regs.result = "ENOSYS")
  \/ a.status = 1 /\ ChainedCall(a) /\ a.regs.result = "chain"
  \/ a.status = 1 /\ ReplacingCall(a) /\ a.regs.result = "kernel"
  \/ FaultyCall(a)

\* The call was made, its exit is still to be handled.
Made(a) ==
  /\ ~ a.already_handled_enter /\ Knows(a) /\ NoSkip(a)
  /\ \/ Between(a, FromEvent)
     \/ Stopped(a, "event", FromExit)
     \/ Between(a, FromExit)
     \/ Stopped(a, "exit", <<>>)
  /\ Returning(a)

Entered(a) ==
  /\ a.regs.pc = "after" /\ a.status \in {1, -1} /\ a.last_restart_how = "SYSCALL"
  /\ a.skip_next => Translating(a) /\ a.promised = "proot"
  /\ Doomed(a) \/ Handled(a) \/ Made(a)

InStep(a) ==
  /\ ModeOK(a) /\ RanOK(a)
  /\ AtRest(a) \/ AtTrap(a) \/ Entering(a) \/ Passing(a) \/ Trapped(a) \/ Entered(a)

\* The inductive invariant.
StagesInv == InStep(s)

(***************************************************************************)
(* What leaves a call as it is.                                            *)
(***************************************************************************)

\* The call that is being made, and what PRoot and the kernel know of the tracee.
SameCall(a, b) ==
  /\ b.regs = a.regs /\ b.nr = a.nr /\ b.promised = a.promised /\ b.status = a.status
  /\ b.chain = a.chain /\ b.chaining = a.chaining /\ b.forced = a.forced
  /\ b.workaround = a.workaround /\ b.rewritten = a.rewritten /\ b.orig = a.orig
  /\ b.rewrite = a.rewrite /\ b.changed = a.changed

SameMode(a, b) ==
  /\ b.kernel = a.kernel /\ b.left = a.left /\ b.ran = a.ran /\ b.aborted = a.aborted
  /\ b.seccomp = a.seccomp /\ b.detected = a.detected /\ b.after_enter = a.after_enter
  /\ b.last_restart_how = a.last_restart_how /\ b.skip_next = a.skip_next
  /\ b.already_handled_enter = a.already_handled_enter

\* What kind a call is depends on nothing but the call and the kernel.
LEMMA SameKind ==
  ASSUME NEW a, NEW b, SameCall(a, b), b.kernel = a.kernel
  PROVE  /\ Fresh(b) <=> Fresh(a)
         /\ ChainedCall(b) <=> ChainedCall(a)
         /\ RewrittenCall(b) <=> RewrittenCall(a)
         /\ ReplacingCall(b) <=> ReplacingCall(a)
         /\ Prompted(b) <=> Prompted(a)
         /\ FaultyCall(b) <=> FaultyCall(a)
         /\ NoChain(b) <=> NoChain(a)
         /\ Translating(b) <=> Translating(a)
BY DEF SameCall, Fresh, Prompted, RewrittenCall, ChainedCall, ReplacingCall, FaultyCall, NoChain,
       InChain, Translating, Allowed

\* A point that is passed and a stop change nothing of the call.
LEMMA GoesThroughSame ==
  ASSUME NEW todo, GoesThrough(todo)
  PROVE  SameCall(s, s') /\ SameMode(s, s') /\ s'.stop = s.stop /\ s'.todo = todo
BY DEF GoesThrough, SameCall, SameMode

\* A stop takes the point off the way of the call.
LEMMA StopsAtSame ==
  ASSUME NEW point, StopsAt(point)
  PROVE  SameCall(s, s') /\ SameMode(s, s') /\ s'.stop = point /\ s'.todo = Tail(s.todo)
BY DEF StopsAt, SameCall, SameMode

\* The ways of a call, step by step.
LEMMA Steps ==
  /\ Tail(NewWay) = FromSeccomp /\ Tail(OldWay) = FromEnter /\ Tail(FromSeccomp) = FromPerform
  /\ Tail(FromEnter) = FromPerform /\ Tail(FromPerform) = FromExit /\ Tail(FromEvent) = FromExit
  /\ Tail(ExitAndSigsys) = OnlySigsys /\ Tail(FromExit) = <<>> /\ Tail(OnlySigsys) = <<>>
  /\ Head(NewWay) = "enter" /\ Head(OldWay) = "seccomp" /\ Head(FromSeccomp) = "seccomp"
  /\ Head(FromEnter) = "enter" /\ Head(FromPerform) = "perform" /\ Head(FromEvent) = "event"
  /\ Head(ExitAndSigsys) = "exit" /\ Head(FromExit) = "exit" /\ Head(OnlySigsys) = "sigsys"
BY
DEF NewWay, OldWay, FromSeccomp, FromEnter, FromPerform, FromEvent, ExitAndSigsys, FromExit,
    OnlySigsys

\* None of them is at its end.
LEMMA StepsLeft ==
  /\ NewWay # <<>> /\ OldWay # <<>> /\ FromSeccomp # <<>> /\ FromEnter # <<>>
  /\ FromPerform # <<>> /\ FromEvent # <<>> /\ ExitAndSigsys # <<>> /\ FromExit # <<>>
  /\ OnlySigsys # <<>> /\ FromExit # ExitAndSigsys
BY
DEF NewWay, OldWay, FromSeccomp, FromEnter, FromPerform, FromEvent, ExitAndSigsys, FromExit,
    OnlySigsys

\* The order of the two entry stops is that of the kernel (event.c:550-574).
LEMMA Ways == \A kernel : Way(kernel) = IF kernel.newer THEN NewWay ELSE OldWay
BY DEF Way, NewWay, OldWay

(***************************************************************************)
(* The start, and the steps of the guest and of the kernel.                *)
(***************************************************************************)

\* The launch of the first program is a call that enters.
LEMMA StagesInitInv == Asked /\ StagesInit => StagesInv
<1> SUFFICES ASSUME Asked, StagesInit PROVE StagesInv
  OBVIOUS
<1>1. PICK kernel \in Kernels :
        /\ s.kernel = kernel /\ s.todo = Way(kernel) /\ s.stop = "none"
        /\ s.regs = Regs("execve", "own", "after") /\ s.nr = "execve" /\ s.left = MaxStageCalls
        /\ s.promised = "kernel" /\ s.ran = {} /\ s.aborted = FALSE /\ s.seccomp = "DISABLED"
        /\ s.detected = FALSE /\ s.after_enter = (kernel.newer /\ ~ kernel.filter)
        /\ s.status = 0 /\ s.last_restart_how = "SYSCALL" /\ s.already_handled_enter = FALSE
        /\ s.skip_next = FALSE /\ s.chain = <<>> /\ s.chaining = FALSE /\ s.forced = FALSE
        /\ s.workaround = "INACTIVE" /\ s.rewritten = FALSE
  BY DEF StagesInit
<1>2. ModeOK(s) /\ RanOK(s)
  BY <1>1 DEF ModeOK, RanOK, Knows
<1>3. Entering(s)
  <2>1. BeforeEntry(s)
    BY <1>1, Ways DEF BeforeEntry, Between, Kernels
  <2>2. Fresh(s)
    BY <1>1 DEF Fresh, NoChain, Own, Allowed, Regs, Numbers
  <2> QED
    BY <1>1, <2>1, <2>2 DEF Entering, Unhandled, Regs, NoSkip, Launching
<1> QED
  BY <1>2, <1>3 DEF StagesInv, InStep

\* The guest makes a call, or the one that PRoot made it go back to.
LEMMA GuestCallInStep ==
  ASSUME Asked, InStep(s), NEW nr \in Requests[s.kernel.policy], GuestCall(nr)
  PROVE  InStep(s')
<1>1. AtRest(s)
  BY StepsLeft
  DEF InStep, GuestCall, InGuest, Running, AtTrap, Entering, BeforeEntry, Between, Stopped,
         Passing, Trapped, Entered, Doomed, Handled, Made, Returning
<1>2. Allowed(s, nr)
  BY DEF Asked, InStep, ModeOK, Kernels, Allowed
<1>3. Entering(s')
  <2>1. BeforeEntry(s')
    BY Ways DEF GuestCall, InGuest, Running, BeforeEntry, Between
  <2>2. Fresh(s')
    BY <1>1, <1>2 DEF GuestCall, AtRest, Answer, NoChain, Fresh, Regs, Own, Allowed
  <2> QED
    BY <1>1, <2>1, <2>2
    DEF GuestCall, AtRest, Free, Entering, Unhandled, Regs, NoSkip, Knows
<1>4. ModeOK(s') /\ RanOK(s')
  BY StepsLeft DEF InStep, GuestCall, ModeOK, RanOK, Knows
<1> QED
  BY <1>3, <1>4 DEF InStep

\* A call that PRoot prompted enters like one of the guest.
LEMMA GuestTrapInStep ==
  ASSUME InStep(s), GuestTrap
  PROVE  InStep(s')
<1>1. AtTrap(s)
  BY StepsLeft
  DEF InStep, GuestTrap, InGuest, Running, AtRest, Entering, BeforeEntry, Between, Stopped,
         Passing, Trapped, Entered, Doomed, Handled, Made, Returning
<1>2. /\ s'.regs.pc = "after" /\ s'.regs.nr = s.regs.nr /\ s'.regs.args = s.regs.args
      /\ s'.regs.sp = s.regs.sp
  <2>1. s'.regs = [s.regs EXCEPT !.pc = "after"]
    BY DEF GuestTrap
  <2> QED
    BY <2>1
<1>3. s'.nr = s.regs.nr /\ s'.todo = Way(s.kernel)
  BY DEF GuestTrap
<1>4. s'.kernel = s.kernel
  BY DEF GuestTrap
<1>5. Entering(s')
  <2>1. BeforeEntry(s')
    BY Ways DEF GuestTrap, InGuest, Running, BeforeEntry, Between
  <2>2. Prompted(s')
    <3>1. /\ s'.chaining = s.chaining /\ s'.chain = s.chain /\ s'.forced = s.forced
          /\ s'.workaround = s.workaround /\ s'.rewritten = s.rewritten /\ s'.promised = s.promised
          /\ s'.rewrite = s.rewrite /\ s'.orig = s.orig /\ s'.changed = s.changed
      BY DEF GuestTrap
    <3> QED
      BY <1>1, <1>2, <3>1
      DEF AtTrap, Prompted, RewrittenCall, ChainedCall, ReplacingCall, NoChain,
                InChain, Own
  <2>3. s'.status = s.status /\ s'.already_handled_enter = s.already_handled_enter /\ s'.detected = s.detected
      /\ s'.last_restart_how = s.last_restart_how /\ s'.skip_next = s.skip_next
    BY DEF GuestTrap
  <2> QED
    BY <1>1, <1>2, <1>3, <1>4, <2>1, <2>2, <2>3
    DEF AtTrap, Free, Entering, Unhandled, NoSkip, Knows
<1>6. ModeOK(s') /\ RanOK(s')
  BY StepsLeft DEF InStep, GuestTrap, ModeOK, RanOK, Knows
<1> QED
  BY <1>5, <1>6 DEF InStep

\* The entry and the exit of a call, with a stop where PTRACE_SYSCALL asked for one.
LEMMA SyscallStopInStep ==
  ASSUME InStep(s), NEW point \in {"enter", "exit"}, SyscallStop(point)
  PROVE  InStep(s')
<1>1. s.stop = "none" /\ s.todo # <<>> /\ Head(s.todo) = point
  BY DEF SyscallStop, Reaches, Running
<1>2. /\ SameCall(s, s') /\ SameMode(s, s') /\ s'.todo = Tail(s.todo)
      /\ s'.stop = IF s.last_restart_how = "SYSCALL" THEN point ELSE "none"
  <2>1. CASE s.last_restart_how = "SYSCALL"
    BY <2>1, <1>1, StopsAtSame DEF SyscallStop
  <2>2. CASE s.last_restart_how # "SYSCALL"
    BY <2>2, <1>1, GoesThroughSame DEF SyscallStop
  <2> QED
    BY <2>1, <2>2
<1>3. ModeOK(s') /\ RanOK(s') /\ (Knows(s') <=> Knows(s)) /\ (NoSkip(s') <=> NoSkip(s))
  BY <1>2 DEF InStep, SameCall, SameMode, ModeOK, RanOK, Knows, NoSkip
<1>4. s.last_restart_how \in {"SYSCALL", "CONT"}
  BY DEF InStep, ModeOK
<1>5. CASE Entering(s)
  <2>1. BeforeEntry(s')
    BY <1>4, <1>1, <1>2, <1>3, <1>5, Steps, StepsLeft
    DEF Entering, BeforeEntry, Between, Stopped, SameMode
  <2>2. /\ Fresh(s') <=> Fresh(s)
        /\ Prompted(s') <=> Prompted(s)
    BY <1>2, SameKind DEF SameMode
  <2>3. Entering(s')
    BY <1>2, <1>3, <1>5, <2>1, <2>2 DEF Entering, Unhandled, SameCall, SameMode, Launching
  <2> QED
    BY <1>3, <2>3 DEF InStep
<1>6. CASE Passing(s)
  <2>1. NoChain(s') <=> NoChain(s)
    BY <1>2, SameKind DEF SameMode
  <2>2. Knows(s)
    BY <1>6 DEF InStep, Passing, ModeOK, Knows
  <2>3. Passing(s') \/ AtRest(s')
    BY <1>1, <1>2, <1>3, <1>6, <2>1, <2>2, Steps, StepsLeft
    DEF Passing, SameCall, SameMode, AtRest, Free, Unhandled, Answer
  <2> QED
    BY <1>3, <2>3 DEF InStep
<1>7. CASE Trapped(s)
  <2>1. Trapped(s')
    BY <1>1, <1>2, <1>3, <1>7, SameKind, Steps, StepsLeft
    DEF Trapped, Between, Stopped, SameCall, SameMode, Unhandled, Answer
  <2> QED
    BY <1>3, <2>1 DEF InStep
<1>8. CASE Entered(s)
  <2>1. Entered(s')
    <3>1. CASE Doomed(s)
      <4>1. Translating(s') <=> Translating(s)
        BY <1>2, SameKind DEF SameMode
      <4> QED
        BY <1>1, <1>2, <1>3, <1>8, <3>1, <4>1, Steps, StepsLeft
        DEF Entered, Doomed, Between, Stopped, SameCall, SameMode
    <3>2. CASE Handled(s)
      <4>1. /\ Translating(s') <=> Translating(s)
            /\ ChainedCall(s') <=> ChainedCall(s)
            /\ ReplacingCall(s') <=> ReplacingCall(s)
            /\ FaultyCall(s') <=> FaultyCall(s)
        BY <1>2, SameKind DEF SameMode
      <4> QED
        BY <1>1, <1>2, <1>3, <1>8, <3>2, <4>1, Steps, StepsLeft
        DEF Entered, Handled, Between, Stopped, SameCall, SameMode
    <3>3. CASE Made(s)
      <4>1. /\ Translating(s') <=> Translating(s)
            /\ ChainedCall(s') <=> ChainedCall(s)
            /\ ReplacingCall(s') <=> ReplacingCall(s)
            /\ FaultyCall(s') <=> FaultyCall(s)
        BY <1>2, SameKind DEF SameMode
      <4> QED
        BY <1>1, <1>2, <1>3, <1>8, <3>3, <4>1, Steps, StepsLeft
        DEF Entered, Made, Returning, Between, Stopped, SameCall, SameMode
    <3> QED
      BY <1>8, <3>1, <3>2, <3>3 DEF Entered
  <2> QED
    BY <1>3, <2>1 DEF InStep
<1> QED
  BY <1>1, <1>5, <1>6, <1>7, <1>8 DEF InStep, AtRest, AtTrap, Free

\* PRoot's filter stops the calls it traces, the host's makes a SIGSYS of a denied one.
LEMMA SeccompCheckInStep ==
  ASSUME Asked, InStep(s), SeccompCheck
  PROVE  InStep(s')
<1>1. s.stop = "none" /\ s.todo # <<>> /\ Head(s.todo) = "seccomp"
  BY DEF SeccompCheck, Reaches, Running
<1>2. /\ SameCall(s, s') /\ SameMode(s, s')
      /\ \/ /\ Forbidden(s.kernel.policy, s.nr) /\ s'.stop = "none"
            /\ s'.todo = OnlySigsys \/ (s.kernel.newer /\ s'.todo = ExitAndSigsys)
         \/ /\ ~ Forbidden(s.kernel.policy, s.nr) /\ s'.todo = Tail(s.todo)
            /\ s'.stop = IF Traced(s.nr) /\ s.kernel.filter THEN "seccomp" ELSE "none"
  <2>1. CASE Forbidden(s.kernel.policy, s.nr)
    <3>1. GoesThrough(<<"sigsys">>) \/ (s.kernel.newer /\ GoesThrough(<<"exit", "sigsys">>))
      BY <2>1 DEF SeccompCheck
    <3> QED
      BY <1>1, <2>1, <3>1, GoesThroughSame DEF OnlySigsys, ExitAndSigsys
  <2>2. CASE ~ Forbidden(s.kernel.policy, s.nr) /\ Traced(s.nr) /\ s.kernel.filter
    BY <1>1, <2>2, StopsAtSame DEF SeccompCheck
  <2>3. CASE ~ Forbidden(s.kernel.policy, s.nr) /\ ~ (Traced(s.nr) /\ s.kernel.filter)
    BY <1>1, <2>3, GoesThroughSame DEF SeccompCheck
  <2> QED
    BY <2>1, <2>2, <2>3
<1>3. ModeOK(s') /\ RanOK(s') /\ (Knows(s') <=> Knows(s)) /\ (NoSkip(s') <=> NoSkip(s))
  BY <1>2 DEF InStep, SameCall, SameMode, ModeOK, RanOK, Knows, NoSkip
<1>4. /\ Fresh(s') <=> Fresh(s)
      /\ Prompted(s') <=> Prompted(s)
      /\ NoChain(s') <=> NoChain(s)
      /\ Translating(s') <=> Translating(s)
      /\ ChainedCall(s') <=> ChainedCall(s)
      /\ ReplacingCall(s') <=> ReplacingCall(s)
      /\ FaultyCall(s') <=> FaultyCall(s)
  BY <1>2, SameKind DEF SameMode
<1>5. ModeOK(s) /\ s.kernel.policy \in {"none", "allow list"}
  BY DEF InStep, ModeOK, Kernels, Asked
<1>6. CASE Entering(s)
  <2>1. CASE Forbidden(s.kernel.policy, s.nr)
    <3>1. s.kernel.policy # "none" /\ s.nr \in {"open", "gone", "void"}
      BY <2>1 DEF Forbidden
    <3>2. Fresh(s) /\ s.nr # "void" /\ Knows(s)
      BY <1>6, <3>1
      DEF Entering, Prompted, ChainedCall, ReplacingCall, RewrittenCall, Fresh, Allowed, Numbers
    <3>3. s.kernel.newer => s.last_restart_how = "CONT"
      BY <1>1, <1>6, Steps DEF Entering, BeforeEntry, Between, Stopped
    <3>4. ~ s.skip_next
      BY <1>5, <1>6, <3>1, <3>3 DEF Entering, ModeOK, NoSkip
    <3>5. Trapped(s')
      BY <1>2, <1>3, <1>4, <1>6, <2>1, <3>1, <3>2, <3>3, <3>4
      DEF Trapped, Entering, Fresh, Unhandled, SameCall, SameMode, Between
    <3> QED
      BY <1>3, <3>5 DEF InStep
  <2>2. CASE ~ Forbidden(s.kernel.policy, s.nr) /\ Traced(s.nr) /\ s.kernel.filter
    <3>1. \/ s.kernel.newer /\ s.todo = FromSeccomp /\ s.last_restart_how = "CONT"
          \/ ~ s.kernel.newer /\ s.todo = OldWay
      BY <1>1, <1>6, Steps DEF Entering, BeforeEntry, Between, Stopped
    <3>2. s'.stop = "seccomp" /\ s'.todo = Tail(s.todo)
      BY <1>2, <2>2
    <3>3. BeforeEntry(s')
      BY <1>2, <2>2, <3>1, <3>2, Steps DEF BeforeEntry, Stopped, SameMode, SameCall
    <3>4. Entering(s')
      BY <1>2, <1>3, <1>4, <1>6, <3>3 DEF Entering, Unhandled, SameCall, SameMode, Launching
    <3> QED
      BY <1>3, <3>4 DEF InStep
  <2>3. CASE ~ Forbidden(s.kernel.policy, s.nr) /\ ~ (Traced(s.nr) /\ s.kernel.filter)
    <3>1. Knows(s)
      BY <1>6, <2>3 DEF Entering, Knows, Traced, Numbers
    <3>2. CASE s.last_restart_how = "CONT"
      <4>1. s.kernel.filter /\ ~ Traced(s.nr)
        BY <1>5, <2>3, <3>2 DEF ModeOK
      <4>2. s'.todo = FromPerform \/ (~ s.kernel.newer /\ s'.todo = FromEnter)
        BY <1>1, <1>2, <1>6, <2>3, <3>2, Steps DEF Entering, BeforeEntry, Between, Stopped
      <4>3. Fresh(s) /\ s.nr \notin {"execve", "utime", "void"}
        BY <1>6, <3>2, <4>1 DEF Entering, Fresh, Traced, Numbers, Allowed
      <4>4. Passing(s')
        BY <1>2, <1>3, <1>4, <1>6, <2>3, <3>2, <4>1, <4>2, <4>3
        DEF Passing, Entering, Unhandled, SameCall, SameMode, Fresh, Own
      <4> QED
        BY <1>3, <4>4 DEF InStep
    <3>3. CASE s.last_restart_how = "SYSCALL"
      <4>1. BeforeEntry(s')
        BY <1>1, <1>2, <1>3, <1>6, <2>3, <3>1, <3>3, Steps
        DEF Entering, BeforeEntry, Between, Stopped, SameMode
      <4>2. Entering(s')
        BY <1>2, <1>3, <1>4, <1>6, <3>1, <4>1 DEF Entering, Unhandled, SameCall, SameMode
      <4> QED
        BY <1>3, <4>2 DEF InStep
    <3> QED
      BY <1>5, <3>2, <3>3 DEF ModeOK
  <2> QED
    BY <2>1, <2>2, <2>3
<1>7. CASE Entered(s)
  <2>1. /\ Handled(s) /\ s.kernel.newer /\ s.todo = FromSeccomp /\ ~ s.already_handled_enter
        /\ Translating(s) /\ ~ s.skip_next /\ Knows(s) => s.status = 1 /\ s.nr # "void"
        /\ s.skip_next => s.nr = "void" \/ Traced(s.nr)
    BY <1>1, <1>7, Steps, StepsLeft
    DEF Entered, Doomed, Handled, Made, Returning, Between, Stopped
  <2>2. CASE Forbidden(s.kernel.policy, s.nr)
    <3>1. s.kernel.policy # "none" /\ s.nr \in {"open", "gone", "void"}
      BY <2>2 DEF Forbidden
    <3>2. Translating(s) /\ Knows(s)
      BY <2>1, <3>1 DEF Handled, ChainedCall, ReplacingCall, FaultyCall
    <3>3. ~ s.skip_next => s.status = 1 /\ s.nr = s.orig.nr /\ s.nr \in {"open", "gone"}
      BY <2>1, <3>1, <3>2 DEF Translating, Void
    <3>4. Doomed(s')
      BY <1>2, <1>3, <1>4, <1>7, <2>1, <2>2, <3>1, <3>2, <3>3
      DEF Doomed, Entered, SameCall, SameMode, Between
    <3>5. Entered(s')
      BY <1>2, <1>3, <1>4, <1>7, <3>4 DEF Entered, SameCall, SameMode
    <3> QED
      BY <1>3, <3>5 DEF InStep
  <2>3. CASE ~ Forbidden(s.kernel.policy, s.nr)
    <3>1. s'.todo = FromPerform
      BY <1>2, <2>1, <2>3, Steps
    <3>2. ~ (Traced(s.nr) /\ s.kernel.filter) => Knows(s) /\ NoSkip(s)
      BY <1>5, <2>1, <2>3 DEF Handled, Knows, NoSkip, Traced, Numbers, Forbidden
    <3>3. Handled(s')
      BY <1>2, <1>3, <1>4, <2>1, <2>3, <3>1, <3>2, Steps
      DEF Handled, Between, Stopped, SameCall, SameMode
    <3>4. Entered(s')
      BY <1>2, <1>3, <1>4, <1>7, <3>3 DEF Entered, SameCall, SameMode
    <3> QED
      BY <1>3, <3>4 DEF InStep
  <2> QED
    BY <2>2, <2>3
<1> QED
  BY <1>1, <1>6, <1>7, Steps, StepsLeft
  DEF InStep, AtRest, AtTrap, Free, Passing, Trapped, Between, Stopped

\* What the kernel performs is a translated call, and its result is the one due.
LEMMA PerformInStep ==
  ASSUME InStep(s), Perform
  PROVE  InStep(s')
<1>1. s.stop = "none" /\ s.todo # <<>> /\ Head(s.todo) = "perform"
  BY DEF Perform, Reaches, Running
<1>2. s.todo = FromPerform /\ (Passing(s) \/ (Entered(s) /\ Handled(s))) /\ ~ s.already_handled_enter
  BY <1>1, Steps, StepsLeft
  DEF InStep, AtRest, AtTrap, Free, Entering, BeforeEntry, Passing, Trapped,
     Entered, Doomed, Handled, Made, Returning, Between, Stopped, Unhandled
<1>3. Knows(s) /\ NoSkip(s)
  BY <1>1, <1>2, Steps, StepsLeft DEF InStep, ModeOK, Passing, Handled, Between, Stopped, Knows
<1>4. CASE s.nr = "void"
  <2>1. SameCall(s, s') /\ SameMode(s, s') /\ s'.stop = "none" /\ s'.todo = FromExit
    BY <1>1, <1>2, <1>4, GoesThroughSame, Steps DEF Perform
  <2>2. ModeOK(s') /\ RanOK(s') /\ Knows(s') /\ NoSkip(s')
    BY <1>3, <2>1 DEF InStep, SameCall, SameMode, ModeOK, RanOK, Knows, NoSkip
  <2>3. /\ NoChain(s') <=> NoChain(s)
        /\ Translating(s') <=> Translating(s)
    BY <2>1, SameKind DEF SameMode
  <2>4. CASE Passing(s)
    <3>1. Passing(s')
      BY <1>4, <2>1, <2>2, <2>3, <2>4 DEF Passing, Unhandled, SameCall, SameMode
    <3> QED
      BY <2>2, <3>1 DEF InStep
  <2>5. CASE Entered(s) /\ Handled(s)
    <3>1. Translating(s) /\ (s.status = 1 => s.orig.nr \in Void)
      BY <1>4, <2>5
      DEF Handled, ChainedCall, ReplacingCall, FaultyCall, Translating, Allowed, Numbers, Void
    <3>2. Made(s')
      BY <1>2, <2>1, <2>2, <2>3, <3>1 DEF Made, Returning, Between, SameCall, SameMode
    <3>3. Entered(s')
      BY <2>1, <2>3, <2>5, <3>2 DEF Entered, SameCall, SameMode
    <3> QED
      BY <2>2, <3>3 DEF InStep
  <2> QED
    BY <1>2, <2>4, <2>5
<1>5. CASE s.nr # "void"
  <2>1. PICK result \in Result(s) :
          s' = [s EXCEPT !.regs = [s.regs EXCEPT !.result = result],
                         !.ran = s.ran \cup {[nr |-> s.nr, args |-> s.regs.args]},
                         !.todo = IF s.nr = "execve" THEN <<"event", "exit">> ELSE Tail(s.todo)]
    BY <1>5 DEF Perform
  <2>2. /\ s'.regs = [s.regs EXCEPT !.result = result]
        /\ s'.ran = s.ran \cup {[nr |-> s.nr, args |-> s.regs.args]}
        /\ s'.nr = s.nr /\ s'.promised = s.promised /\ s'.status = s.status
        /\ s'.chain = s.chain /\ s'.chaining = s.chaining /\ s'.forced = s.forced
        /\ s'.workaround = s.workaround /\ s'.rewritten = s.rewritten /\ s'.orig = s.orig
        /\ s'.rewrite = s.rewrite /\ s'.changed = s.changed /\ s'.stop = s.stop
        /\ s'.kernel = s.kernel /\ s'.left = s.left /\ s'.aborted = s.aborted
        /\ s'.seccomp = s.seccomp /\ s'.detected = s.detected /\ s'.after_enter = s.after_enter
        /\ s'.last_restart_how = s.last_restart_how /\ s'.skip_next = s.skip_next
        /\ s'.already_handled_enter = s.already_handled_enter
    BY <2>1
  <2>3. s'.todo = IF s.nr = "execve" THEN FromEvent ELSE FromExit
    <3>1. s'.todo = IF s.nr = "execve" THEN <<"event", "exit">> ELSE Tail(s.todo)
      BY <2>1
    <3> QED
      BY <1>2, <3>1, Steps DEF FromEvent
  <2>4. /\ s'.regs.result = result /\ s'.regs.nr = s.regs.nr /\ s'.regs.args = s.regs.args
        /\ s'.regs.sp = s.regs.sp /\ s'.regs.pc = s.regs.pc
    BY <2>2
  <2>5. ModeOK(s') /\ Knows(s') /\ NoSkip(s')
    BY <1>3, <2>2 DEF InStep, ModeOK, Knows, NoSkip
  <2>6. /\ NoChain(s') <=> NoChain(s)
        /\ Translating(s') <=> Translating(s)
        /\ ChainedCall(s') <=> ChainedCall(s)
        /\ ReplacingCall(s') <=> ReplacingCall(s)
        /\ FaultyCall(s') <=> FaultyCall(s)
    BY <2>2, <2>4
    DEF NoChain, InChain, Translating, ChainedCall, ReplacingCall, FaultyCall, Allowed
  <2>7. RanOK(s')
    <3>1. Traced(s.nr) => s.regs.args \in {"translated", "chain", "bad"}
      BY <1>2 DEF Passing, Handled, ChainedCall, ReplacingCall, FaultyCall, Translating
    <3>2. \A call \in s'.ran : call \in s.ran \/ (call.nr = s.nr /\ call.args = s.regs.args)
      BY <2>2
    <3> QED
      BY <3>1, <3>2 DEF InStep, RanOK
  <2>8. CASE Passing(s)
    <3>1. result = "kernel"
      BY <2>8 DEF Passing, Result
    <3>2. Passing(s')
      BY <1>5, <2>2, <2>3, <2>4, <2>5, <2>6, <2>8, <3>1 DEF Passing, Unhandled
    <3> QED
      BY <2>5, <2>7, <3>2 DEF InStep
  <2>9. CASE Entered(s) /\ Handled(s)
    <3>1. /\ Between(s', FromEvent) \/ Between(s', FromExit)
          /\ ~ s'.already_handled_enter
      BY <1>1, <1>2, <2>2, <2>3 DEF Between
    <3>2. Made(s')
      <4>1. CASE Translating(s)
        <5>1. s.status = 1 /\ s.orig.nr \notin Void =>
                result = "kernel" \/ (s.orig.nr = "utime" /\ result = "ENOSYS")
          BY <4>1 DEF Translating, Result
        <5> QED
          BY <2>2, <2>4, <2>5, <2>6, <3>1, <4>1, <5>1 DEF Made, Returning
      <4>2. CASE s.status = 1 /\ (ChainedCall(s) \/ ReplacingCall(s)) /\ s.nr = s.regs.nr
        <5>1. result = IF s.regs.args = "chain" THEN "chain" ELSE "kernel"
          BY <4>2 DEF ChainedCall, ReplacingCall, Result
        <5>2. ChainedCall(s) => result = "chain"
          BY <5>1 DEF ChainedCall
        <5>3. ReplacingCall(s) => result = "kernel"
          BY <5>1 DEF ReplacingCall
        <5> QED
          BY <2>2, <2>4, <2>5, <2>6, <3>1, <4>2, <5>2, <5>3 DEF Made, Returning
      <4>3. CASE FaultyCall(s)
        BY <2>5, <2>6, <3>1, <4>3 DEF Made, Returning
      <4> QED
        BY <2>9, <4>1, <4>2, <4>3 DEF Handled
    <3>3. Entered(s')
      BY <2>2, <2>4, <2>6, <2>9, <3>2 DEF Entered
    <3> QED
      BY <2>5, <2>7, <3>3 DEF InStep
  <2> QED
    BY <1>2, <2>8, <2>9
<1> QED
  BY <1>4, <1>5

\* The stops of execve and of SIGSYS come after the call.
LEMMA OtherStopInStep ==
  ASSUME InStep(s), OtherStop
  PROVE  InStep(s')
<1>1. PICK point \in {"event", "sigsys"} : Reaches(point) /\ StopsAt(point)
  BY DEF OtherStop
<1>2. s.stop = "none" /\ s.todo # <<>> /\ Head(s.todo) = point
  BY <1>1 DEF Reaches, Running
<1>3. SameCall(s, s') /\ SameMode(s, s') /\ s'.stop = point /\ s'.todo = Tail(s.todo)
  BY <1>1, StopsAtSame
<1>4. ModeOK(s') /\ RanOK(s') /\ (Knows(s') <=> Knows(s)) /\ (NoSkip(s') <=> NoSkip(s))
  BY <1>3 DEF InStep, SameCall, SameMode, ModeOK, RanOK, Knows, NoSkip
<1>5. /\ NoChain(s') <=> NoChain(s)
      /\ Translating(s') <=> Translating(s)
      /\ ChainedCall(s') <=> ChainedCall(s)
      /\ ReplacingCall(s') <=> ReplacingCall(s)
      /\ FaultyCall(s') <=> FaultyCall(s)
  BY <1>3, SameKind DEF SameMode
<1>6. CASE Trapped(s)
  <2>1. s.todo = OnlySigsys /\ point = "sigsys"
    BY <1>2, <1>6, Steps DEF Trapped, Between, Stopped
  <2>2. Trapped(s')
    BY <1>3, <1>4, <1>5, <1>6, <2>1, Steps
    DEF Trapped, Between, Stopped, SameCall, SameMode, Unhandled, Answer
  <2> QED
    BY <1>4, <2>2 DEF InStep
<1>7. CASE Entered(s) /\ Doomed(s)
  <2>1. s.todo = OnlySigsys /\ point = "sigsys"
    BY <1>2, <1>7, Steps DEF Doomed, Between, Stopped
  <2>2. Doomed(s')
    BY <1>3, <1>4, <1>5, <1>7, <2>1, Steps DEF Doomed, Between, Stopped, SameCall, SameMode
  <2>3. Entered(s')
    BY <1>3, <1>5, <1>7, <2>2 DEF Entered, SameCall, SameMode
  <2> QED
    BY <1>4, <2>3 DEF InStep
<1>8. CASE Entered(s) /\ Made(s)
  <2>1. s.todo = FromEvent /\ point = "event"
    BY <1>2, <1>8, Steps, StepsLeft DEF Made, Returning, Between, Stopped
  <2>2. Made(s')
    BY <1>3, <1>4, <1>5, <1>8, <2>1, Steps
    DEF Made, Returning, Between, Stopped, SameCall, SameMode
  <2>3. Entered(s')
    BY <1>3, <1>5, <1>8, <2>2 DEF Entered, SameCall, SameMode
  <2> QED
    BY <1>4, <2>3 DEF InStep
<1> QED
  BY <1>2, <1>6, <1>7, <1>8, Steps, StepsLeft
  DEF InStep, AtRest, AtTrap, Free, Entering, BeforeEntry, Passing, Entered, Handled, Between,
      Stopped

\* A signal reaches the tracee between two calls only.
LEMMA SignalStopSame ==
  SignalStop => /\ SameCall(s, s') /\ SameMode(s, s') /\ s'.todo = s.todo
                /\ s'.stop = "signal" /\ s.stop = "none" /\ s.todo = <<>>
BY DEF SignalStop, InGuest, Running, SameCall, SameMode

\* A signal is sent at any time.
LEMMA SendSame ==
  ASSUME NEW signal, Send(signal)
  PROVE  SameCall(s, s') /\ SameMode(s, s') /\ s'.todo = s.todo /\ s'.stop = s.stop
BY DEF Send, SameCall, SameMode

\* Neither a signal sent nor the stop it makes changes anything of a call.
LEMMA SignalInStep ==
  ASSUME InStep(s), SameCall(s, s'), SameMode(s, s'), s'.todo = s.todo,
         s'.stop = s.stop \/ (s'.stop = "signal" /\ s.stop = "none" /\ s.todo = <<>>)
  PROVE  InStep(s')
<1>1. SameCall(s, s') /\ SameMode(s, s') /\ s'.todo = s.todo
  OBVIOUS
<1>2. s'.stop = s.stop \/ (s'.stop = "signal" /\ s.stop = "none" /\ s.todo = <<>>)
  OBVIOUS
<1>3. ModeOK(s') /\ RanOK(s') /\ (Knows(s') <=> Knows(s)) /\ (NoSkip(s') <=> NoSkip(s))
  BY <1>1 DEF InStep, SameCall, SameMode, ModeOK, RanOK, Knows, NoSkip
<1>4. /\ Fresh(s') <=> Fresh(s)
      /\ Prompted(s') <=> Prompted(s)
      /\ NoChain(s') <=> NoChain(s)
      /\ Translating(s') <=> Translating(s)
      /\ ChainedCall(s') <=> ChainedCall(s)
      /\ ReplacingCall(s') <=> ReplacingCall(s)
      /\ FaultyCall(s') <=> FaultyCall(s)
  BY <1>1, SameKind DEF SameMode
<1>5. CASE AtRest(s) \/ AtTrap(s)
  <2>1. AtRest(s') \/ AtTrap(s')
    BY <1>1, <1>2, <1>3, <1>4, <1>5
    DEF AtRest, AtTrap, Free, Unhandled, Answer, SameCall, SameMode
  <2> QED
    BY <1>3, <2>1 DEF InStep
<1>6. CASE s'.stop = s.stop
  <2>1. CASE Entering(s)
    <3>1. BeforeEntry(s')
      BY <1>1, <1>3, <1>6, <2>1 DEF Entering, BeforeEntry, Between, Stopped, SameCall, SameMode
    <3>2. Entering(s')
      BY <1>1, <1>3, <1>4, <2>1, <3>1 DEF Entering, Unhandled, SameCall, SameMode, Launching
    <3> QED
      BY <1>3, <3>2 DEF InStep
  <2>2. CASE Passing(s)
    <3>1. Passing(s')
      BY <1>1, <1>3, <1>4, <1>6, <2>2 DEF Passing, Unhandled, SameCall, SameMode
    <3> QED
      BY <1>3, <3>1 DEF InStep
  <2>3. CASE Trapped(s)
    <3>1. Trapped(s')
      BY <1>1, <1>3, <1>4, <1>6, <2>3
      DEF Trapped, Between, Stopped, Unhandled, Answer, SameCall, SameMode
    <3> QED
      BY <1>3, <3>1 DEF InStep
  <2>4. CASE Entered(s)
    <3>1. Doomed(s') \/ Handled(s') \/ Made(s')
      BY <1>1, <1>3, <1>4, <1>6, <2>4
      DEF Entered, Doomed, Handled, Made, Returning, Between, Stopped, SameCall, SameMode
    <3>2. Entered(s')
      BY <1>1, <1>4, <2>4, <3>1 DEF Entered, SameCall, SameMode
    <3> QED
      BY <1>3, <3>2 DEF InStep
  <2> QED
    BY <1>5, <2>1, <2>2, <2>3, <2>4 DEF InStep
<1>7. CASE s'.stop # s.stop
  BY <1>2, <1>5, <1>7, StepsLeft
  DEF InStep, Entering, BeforeEntry, Passing, Trapped, Entered, Doomed, Handled, Made, Returning,
      Between, Stopped
<1> QED
  BY <1>6, <1>7

(***************************************************************************)
(* The stages of PRoot: the entry of a call.                               *)
(***************************************************************************)

(***************************************************************************)
(* What PRoot does at a stop.                                              *)
(***************************************************************************)
SamePlace(a, b) == SameMode(a, b) /\ b.todo = a.todo /\ b.stop = a.stop

SameAnswer(a, b) ==
  /\ b.promised = a.promised /\ b.status = a.status /\ b.chain = a.chain
  /\ b.chaining = a.chaining /\ b.forced = a.forced /\ b.workaround = a.workaround
  /\ b.orig = a.orig /\ b.rewrite = a.rewrite /\ b.restart_how = a.restart_how
  /\ b.sysexit_pending = a.sysexit_pending

\* poke_reg() changes the current registers only.
LEMMA PokeFields ==
  ASSUME NEW a, NEW regs, NEW b, b = Poke(a, regs)
  PROVE  /\ SamePlace(a, b) /\ SameAnswer(a, b) /\ b.restore = a.restore
         /\ b.regs = a.regs /\ b.nr = a.nr /\ b.rewritten = a.rewritten
         /\ b.cur = regs /\ (b.changed <=> a.changed \/ regs # a.cur)
<1>1. b.changed = (a.changed \/ regs # a.cur)
  BY DEF Poke
<1>2. b.changed <=> a.changed \/ regs # a.cur
  BY <1>1
<1> QED
  BY <1>2 DEF Poke, SamePlace, SameMode, SameAnswer

\* push_regs() of an entry, or of a call to be run again: nothing is restored.
LEMMA PushFields ==
  ASSUME NEW a, a.rewritten \in BOOLEAN, NEW including, ~ a.restore, PushStatus(a, including) = 0,
         NEW b, b = Push(a, including)
  PROVE  /\ SamePlace(a, b) /\ SameAnswer(a, b)
         /\ b.cur = a.cur /\ b.rewritten = a.rewritten /\ b.restore = a.restore
         /\ (b.changed <=> a.changed)
         /\ a.changed => b.regs = a.cur /\ b.nr = IF a.kernel.sets_sysnum THEN a.cur.nr ELSE a.nr
         /\ ~ a.changed => b.regs = a.regs /\ b.nr = a.nr
<1>1. ~ (PushStatus(a, including) < 0)
  OBVIOUS
<1>2. CASE a.changed
  <2>1. b = [[a EXCEPT !.cur = a.cur, !.rewritten = a.rewritten]
               EXCEPT !.regs = a.cur, !.nr = IF a.kernel.sets_sysnum THEN a.cur.nr ELSE a.nr]
    BY <1>1, <1>2 DEF Push
  <2> QED
    BY <1>2, <2>1 DEF SamePlace, SameMode, SameAnswer
<1>3. CASE ~ a.changed
  <2>1. b = [a EXCEPT !.cur = a.cur, !.rewritten = a.rewritten]
    BY <1>1, <1>3 DEF Push
  <2> QED
    BY <1>3, <2>1 DEF SamePlace, SameMode, SameAnswer
<1> QED
  BY <1>2, <1>3

\* The three kinds of a call.
LEMMA EnterIgnored ==
  ASSUME NEW a, ~ Traced(a.cur.nr), NEW c \in translate_syscall_enter(a)
  PROVE  c = [[a EXCEPT !.promised = "kernel"] EXCEPT !.status = 1]
<1>1. a.cur.nr \notin {"emulated", "traceme"}
  BY DEF Traced, Numbers
<1>2. translate_syscall_enter(a) = {SetStatus([a EXCEPT !.promised = "kernel"], 1)}
  BY <1>1, Zenon DEF translate_syscall_enter
<1> QED
  BY <1>2 DEF SetStatus

\* A call that PRoot answers is made void (syscall/enter.c).
LEMMA EnterVoided ==
  ASSUME NEW a, a.cur.nr \in Void, NEW c \in translate_syscall_enter(a)
  PROVE  c = [[Poke(a, [a.cur EXCEPT !.nr = "void"]) EXCEPT !.promised = "proot"] EXCEPT !.status = 1]
<1>1. Traced(a.cur.nr) /\ a.cur.nr \in {"emulated", "traceme"}
  BY DEF Traced, Numbers, Void
<1>2. translate_syscall_enter(a)
      = {SetStatus([Poke(a, [a.cur EXCEPT !.nr = "void"]) EXCEPT !.promised = "proot"], 1)}
  BY <1>1, Zenon DEF translate_syscall_enter
<1> QED
  BY <1>2 DEF SetStatus

(***************************************************************************)
(* The entry of a call.                                                    *)
(***************************************************************************)
\* The four outcomes of a translation: the call is not translated, made void, refused,
\* or its arguments were moved.
SameRegs(a, regs) ==
  a.cur.nr = regs.nr /\ a.cur.args = regs.args /\ a.cur.sp = regs.sp /\ a.cur.result = regs.result

Ignored(a, c) ==
  /\ ~ Traced(a.nr) /\ c.status = 1 /\ c.promised = "kernel" /\ c.restart_how = a.restart_how
  /\ SameRegs(c, a.regs) /\ ~ c.changed /\ c.sysexit_pending = a.sysexit_pending

Voided(a, c) ==
  /\ a.nr \in Void /\ c.status = 1 /\ c.promised = "proot" /\ c.restart_how = a.restart_how
  /\ c.cur.nr = "void" /\ c.cur.args = a.regs.args /\ c.changed
  /\ c.sysexit_pending = a.sysexit_pending

Refused(a, c) ==
  /\ Traced(a.nr) /\ a.nr \notin Void /\ ~ Launching(a) /\ c.status = -1 /\ c.promised = "proot"
  /\ c.restart_how = a.restart_how /\ SameRegs(c, a.regs) /\ ~ c.changed
  /\ c.sysexit_pending = a.sysexit_pending

Moved(a, c) ==
  /\ Traced(a.nr) /\ a.nr \notin Void /\ c.status = 1 /\ c.promised = "kernel" /\ c.changed
  /\ c.restart_how = IF a.nr \in {"late", "watch"} THEN "SYSCALL" ELSE a.restart_how
  /\ a.nr \notin {"late", "watch"} => c.sysexit_pending = a.sysexit_pending
  /\ c.cur.nr = IF a.nr = "renamed" THEN "plain" ELSE a.nr
  /\ c.cur.args = "translated" /\ c.cur.result = a.regs.result

\* What a translation leaves alone.
SameOwner(a, c) ==
  /\ c.chain = a.chain /\ c.chaining = a.chaining /\ c.forced = a.forced
  /\ c.workaround = a.workaround /\ c.rewritten = a.rewritten /\ c.rewrite = a.rewrite

\* What a handler of the entry makes of a call: ignored, voided, refused or changed.
LEMMA EnterOutcomes ==
  ASSUME NEW a, a.cur = a.regs, a.orig = a.regs, ~ a.changed, a.nr = a.regs.nr, ~ a.restore,
         a.regs.args \in {"own", "rewritten"}, NEW c \in translate_syscall_enter(a)
  PROVE  /\ SamePlace(a, c) /\ SameOwner(a, c) /\ c.regs = a.regs /\ c.nr = a.nr
         /\ c.orig = a.orig /\ ~ c.restore /\ c.cur.pc = a.regs.pc
         /\ Ignored(a, c) \/ Voided(a, c) \/ Refused(a, c) \/ Moved(a, c)
<1>1. CASE ~ Traced(a.nr)
  <2>1. c = [[a EXCEPT !.promised = "kernel"] EXCEPT !.status = 1]
    BY <1>1, EnterIgnored
  <2> QED
    BY <1>1, <2>1 DEF SamePlace, SameMode, SameOwner, Ignored, SameRegs
<1>2. CASE a.nr \in Void
  <2> DEFINE regs == [a.cur EXCEPT !.nr = "void"]
             b == Poke(a, regs)
  <2>1. c = [[b EXCEPT !.promised = "proot"] EXCEPT !.status = 1]
    BY <1>2, EnterVoided
  <2>2. regs.nr = "void" /\ regs.args = a.regs.args /\ regs.pc = a.regs.pc
    OBVIOUS
  <2> HIDE DEF regs
  <2>3. regs # a.cur
    BY <1>2, <2>2 DEF Void
  <2>4. /\ SamePlace(a, b) /\ SameAnswer(a, b) /\ b.restore = a.restore
        /\ b.regs = a.regs /\ b.nr = a.nr /\ b.rewritten = a.rewritten
        /\ b.cur = regs /\ b.changed
    BY <2>3, PokeFields
  <2> HIDE DEF b
  <2> QED
    BY <1>2, <2>1, <2>4, <2>2 DEF SamePlace, SameMode, SameOwner, SameAnswer, Voided
<1>3. CASE Traced(a.nr) /\ a.nr \notin Void
  <2> DEFINE moved == [a.cur EXCEPT !.args = Translated(@), !.sp = "moved"]
             regs == IF a.cur.nr = "renamed" THEN [moved EXCEPT !.nr = "plain"] ELSE moved
             promise == [a EXCEPT !.promised = "kernel"]
             d == IF a.cur.nr \in {"late", "watch"}
                  THEN [promise EXCEPT !.sysexit_pending = TRUE, !.restart_how = "SYSCALL"]
                  ELSE promise
             b == Poke(d, regs)
  <2>1. \/ ~ Launching(a) /\ c = [[a EXCEPT !.promised = "proot"] EXCEPT !.status = -1]
        \/ c = [b EXCEPT !.status = 1]
    <3> DEFINE A == IF Launching(a) THEN {} ELSE {SetStatus([a EXCEPT !.promised = "proot"], -1)}
    <3>1. a.cur.nr \notin {"emulated", "traceme"} /\ Traced(a.cur.nr)
      BY <1>3 DEF Void
    <3>2. translate_syscall_enter(a) = A \cup {SetStatus(b, 1)}
      BY <3>1, Zenon DEF translate_syscall_enter
    <3>3. SetStatus(b, 1) = [b EXCEPT !.status = 1]
      BY Zenon DEF SetStatus
    <3> HIDE DEF b
    <3> QED
      BY <3>2, <3>3 DEF SetStatus
  <2>2. CASE ~ Launching(a) /\ c = [[a EXCEPT !.promised = "proot"] EXCEPT !.status = -1]
    <3> HIDE DEF b
    <3> QED
      BY <1>3, <2>2 DEF SamePlace, SameMode, SameOwner, Refused, SameRegs
  <2>3. CASE c = [b EXCEPT !.status = 1]
    <3>1. Translated(a.regs.args) = "translated"
      BY DEF Translated
    <3>2. /\ moved.args = "translated" /\ moved.sp = "moved" /\ moved.nr = a.regs.nr
          /\ moved.pc = a.regs.pc /\ moved.result = a.regs.result
      BY <3>1
    <3> HIDE DEF moved
    <3>3. /\ regs.nr = IF a.nr = "renamed" THEN "plain" ELSE a.nr
          /\ regs.args = "translated" /\ regs.pc = a.regs.pc /\ regs.result = a.regs.result
      BY <3>2
    <3> HIDE DEF regs
    <3>4. regs # a.cur
      BY <3>3
    <3>5. promise.promised = "kernel" /\ SamePlace(a, promise) /\ SameOwner(a, promise)
          /\ promise.regs = a.regs /\ promise.nr = a.nr /\ promise.orig = a.orig
          /\ promise.restore = a.restore /\ promise.cur = a.cur
          /\ promise.restart_how = a.restart_how
          /\ promise.sysexit_pending = a.sysexit_pending
      BY DEF SamePlace, SameMode, SameOwner
    <3> HIDE DEF promise
    <3>6. /\ SamePlace(a, d) /\ SameOwner(a, d) /\ d.regs = a.regs /\ d.nr = a.nr
          /\ d.orig = a.orig /\ d.restore = a.restore /\ d.promised = "kernel" /\ d.cur = a.cur
          /\ d.restart_how = IF a.nr \in {"late", "watch"} THEN "SYSCALL" ELSE a.restart_how
      BY <3>5 DEF SamePlace, SameMode, SameOwner
    <3>7. a.nr \notin {"late", "watch"} => d.sysexit_pending = a.sysexit_pending
      BY <3>5
    <3> HIDE DEF d
    <3>8. /\ SamePlace(d, b) /\ SameAnswer(d, b) /\ b.restore = d.restore
          /\ b.regs = d.regs /\ b.nr = d.nr /\ b.rewritten = d.rewritten
          /\ b.cur = regs /\ b.changed
      BY <3>4, <3>6, PokeFields
    <3> HIDE DEF b
    <3> QED
      BY <1>3, <2>3, <3>3, <3>6, <3>8, <3>7 DEF SamePlace, SameMode, SameOwner, SameAnswer, Moved
  <2> QED
    BY <2>1, <2>2, <2>3
<1> QED
  BY <1>1, <1>2, <1>3

\* A call that was refused is made void; the stack pointer goes back when nothing will
\* be seen of the exit.
LEMMA EndEnterFields ==
  ASSUME NEW a, a.status \in {1, -1}, NEW b, b = EndEnter(a)
  PROVE  /\ SamePlace(a, b) /\ SameOwner(a, b) /\ b.regs = a.regs /\ b.nr = a.nr
         /\ b.orig = a.orig /\ b.restore = a.restore /\ b.restart_how = a.restart_how
         /\ b.promised = a.promised /\ b.sysexit_pending = a.sysexit_pending
         /\ b.cur.pc = a.cur.pc /\ b.cur.args = a.cur.args
         /\ b.cur.nr = IF a.status = -1 THEN "void" ELSE a.cur.nr
         /\ b.cur.result = IF a.status = -1 THEN "proot" ELSE a.cur.result
         /\ b.cur.sp = IF a.restart_how = "CONT" THEN a.orig.sp ELSE a.cur.sp
         /\ b.status = IF a.restart_how = "CONT" THEN 0 ELSE a.status
         /\ a.changed => b.changed
         /\ a.status = -1 /\ a.cur.nr # "void" => b.changed
         /\ ~ b.changed => b.cur = a.cur
<1> DEFINE void == [a.cur EXCEPT !.nr = "void", !.result = "proot"]
           failed == IF a.status < 0 THEN Poke(a, void) ELSE a
<1>1. b = IF a.restart_how = "CONT"
          THEN Poke([failed EXCEPT !.status = 0], [failed.cur EXCEPT !.sp = a.orig.sp])
          ELSE failed
  BY Zenon DEF EndEnter
<1>2. /\ void.pc = a.cur.pc /\ void.args = a.cur.args /\ void.nr = "void"
      /\ void.result = "proot" /\ void.sp = a.cur.sp
  OBVIOUS
<1> HIDE DEF void
<1>3. /\ SamePlace(a, failed) /\ SameAnswer(a, failed) /\ failed.regs = a.regs
      /\ failed.nr = a.nr /\ failed.restore = a.restore /\ failed.rewritten = a.rewritten
      /\ failed.cur = IF a.status = -1 THEN void ELSE a.cur
      /\ a.changed => failed.changed
      /\ a.status = -1 /\ a.cur.nr # "void" => failed.changed
      /\ ~ failed.changed => failed.cur = a.cur
  <2>1. CASE a.status = -1
    <3>1. failed = Poke(a, void)
      BY <2>1
    <3> HIDE DEF failed
    <3>2. /\ SamePlace(a, failed) /\ SameAnswer(a, failed) /\ failed.restore = a.restore
          /\ failed.regs = a.regs /\ failed.nr = a.nr /\ failed.rewritten = a.rewritten
          /\ failed.cur = void /\ (failed.changed <=> a.changed \/ void # a.cur)
      BY <3>1, PokeFields
    <3> QED
      BY <1>2, <2>1, <3>2
  <2>2. CASE a.status = 1
    BY <2>2 DEF SamePlace, SameMode, SameAnswer
  <2> QED
    BY <2>1, <2>2
<1>4. CASE a.restart_how = "CONT"
  <2> DEFINE given == [failed.cur EXCEPT !.sp = a.orig.sp]
             idle == [failed EXCEPT !.status = 0]
  <2>1. b = Poke(idle, given)
    BY <1>1, <1>4, Zenon
  <2> HIDE DEF failed
  <2>2. /\ given.pc = failed.cur.pc /\ given.args = failed.cur.args /\ given.nr = failed.cur.nr
        /\ given.result = failed.cur.result /\ given.sp = a.orig.sp
    OBVIOUS
  <2> HIDE DEF given
  <2>3. /\ SamePlace(failed, idle) /\ SameOwner(failed, idle) /\ idle.regs = failed.regs
        /\ idle.nr = failed.nr /\ idle.orig = failed.orig /\ idle.restore = failed.restore
        /\ idle.restart_how = failed.restart_how /\ idle.promised = failed.promised
        /\ idle.sysexit_pending = failed.sysexit_pending /\ idle.status = 0
        /\ idle.cur = failed.cur /\ idle.changed = failed.changed
    BY DEF SamePlace, SameMode, SameOwner
  <2> HIDE DEF idle
  <2>4. /\ SamePlace(idle, b) /\ SameAnswer(idle, b) /\ b.restore = idle.restore
        /\ b.regs = idle.regs /\ b.nr = idle.nr /\ b.rewritten = idle.rewritten
        /\ b.cur = given /\ (b.changed <=> idle.changed \/ given # idle.cur)
    BY <2>1, PokeFields
  <2> QED
    BY <1>2, <1>3, <1>4, <2>2, <2>3, <2>4 DEF SamePlace, SameMode, SameAnswer, SameOwner
<1>5. CASE a.restart_how # "CONT"
  <2>1. b = failed
    BY <1>1, <1>5, Zenon
  <2> HIDE DEF failed
  <2> QED
    BY <1>2, <1>3, <1>5, <2>1 DEF SamePlace, SameMode, SameAnswer, SameOwner
<1> QED
  BY <1>4, <1>5

\* The number of the call cannot be changed: it is made to fail.
Failing(a, d) ==
  /\ d.regs.nr = a.cur.nr /\ d.regs.args = "bad" /\ d.regs.sp = a.cur.sp
  /\ d.regs.pc = a.cur.pc /\ d.regs.result = a.cur.result
  /\ d.cur = d.regs /\ d.nr = a.nr /\ d.changed

Unset(a) == a.changed /\ a.cur.nr # a.orig.nr /\ ~ a.kernel.sets_sysnum

\* What it was before the refusal is taken into account again at the exit.
Undone(before, a, d) ==
  /\ Unset(a) /\ Failing(a, d)
  /\ \/ /\ a.cur.nr = "void" /\ d.chain = a.chain /\ d.chaining = a.chaining
        /\ d.workaround = a.workaround
        /\ d.restart_how = IF a.restart_how = "CONT" THEN "SYSCALL" ELSE a.restart_how
        /\ d.status = IF a.restart_how = "CONT" THEN before.status ELSE a.status
     \/ /\ a.cur.nr # "void" /\ d.chain = <<a.cur>> \o a.chain /\ d.chaining
        /\ d.workaround = "FAULTY_CALL" /\ d.restart_how = a.restart_how
        /\ d.status = a.status

Written(a, d) ==
  /\ ~ Unset(a) /\ SameAnswer(a, d) /\ (d.changed <=> a.changed)
  /\ a.changed => d.regs = a.cur /\ d.nr = IF a.kernel.sets_sysnum THEN a.cur.nr ELSE a.nr
  /\ ~ a.changed => d.regs = a.regs /\ d.nr = a.nr

\* A call whose arguments are made bad, where its number cannot be changed.
LEMMA MakesFail ==
  ASSUME NEW a, a.rewritten \in BOOLEAN, ~ a.restore, a.changed, ~ a.kernel.sets_sysnum,
         NEW bad, bad.nr = a.cur.nr, bad.args = "bad", bad.sp = a.cur.sp, bad.pc = a.cur.pc,
         bad.result = a.cur.result, NEW no, ~ no, NEW d, d = Push(Poke(a, bad), no)
  PROVE  SamePlace(a, d) /\ SameAnswer(a, d) /\ d.rewritten = a.rewritten /\ Failing(a, d)
<1> DEFINE b == Poke(a, bad)
<1>1. /\ SamePlace(a, b) /\ SameAnswer(a, b) /\ b.restore = a.restore
      /\ b.regs = a.regs /\ b.nr = a.nr /\ b.rewritten = a.rewritten
      /\ b.cur = bad /\ (b.changed <=> a.changed \/ bad # a.cur)
  BY PokeFields
<1>2. d = Push(b, no)
  OBVIOUS
<1>3. PushStatus(b, no) = 0
  BY DEF PushStatus
<1> HIDE DEF b
<1>4. b.rewritten \in BOOLEAN /\ ~ b.restore /\ b.changed
  BY <1>1
<1>5. /\ SamePlace(b, d) /\ SameAnswer(b, d)
      /\ d.cur = b.cur /\ d.rewritten = b.rewritten /\ (d.changed <=> b.changed)
      /\ b.changed => d.regs = b.cur /\ d.nr = IF b.kernel.sets_sysnum THEN b.cur.nr ELSE b.nr
  BY <1>2, <1>3, <1>4, PushFields
<1>6. d.changed /\ d.rewritten = a.rewritten
  BY <1>1, <1>4, <1>5, Zenon
<1>7. SamePlace(a, d) /\ SameAnswer(a, d)
  BY <1>1, <1>5 DEF SamePlace, SameMode, SameAnswer
<1>8. d.regs = bad /\ d.cur = bad /\ d.nr = a.nr
  BY <1>1, <1>4, <1>5 DEF SamePlace, SameMode
<1> QED
  BY <1>6, <1>7, <1>8 DEF Failing

\* The registers of the entry are written, or their writing is undone (syscall.c).
LEMMA EnterPushedFields ==
  ASSUME NEW before, NEW a, a.rewritten \in BOOLEAN, ~ a.restore, ~ a.chaining,
         NEW d, d = EnterPushed(before, a)
  PROVE  /\ SamePlace(a, d) /\ d.orig = a.orig /\ d.forced = a.forced /\ d.rewrite = a.rewrite
         /\ d.promised = a.promised /\ d.rewritten = a.rewritten /\ d.cur.nr = a.cur.nr
         /\ Written(a, d) \/ Undone(before, a, d)
<1> DEFINE b == IF a.cur.nr # "void" THEN restart_current_syscall_as_chained(a)
                ELSE IF a.restart_how = "CONT"
                     THEN [a EXCEPT !.status = before.status, !.restart_how = "SYSCALL"]
                ELSE a
<1>1. CASE Unset(a)
  <2>1. PushStatus(a, ~ a.chaining) # 0
    BY <1>1 DEF PushStatus, Unset
  <2> DEFINE bad == [b.cur EXCEPT !.args = "bad"]
             no  == FALSE
  <2>2. d = Push(Poke(b, bad), no)
    BY <2>1, Zenon DEF EnterPushed
  <2>3. /\ SamePlace(a, b) /\ b.orig = a.orig /\ b.forced = a.forced /\ b.rewrite = a.rewrite
        /\ b.promised = a.promised /\ b.rewritten = a.rewritten /\ b.cur = a.cur
        /\ b.restore = a.restore /\ b.changed = a.changed /\ b.nr = a.nr
        /\ \/ /\ a.cur.nr = "void" /\ b.chain = a.chain /\ b.chaining = a.chaining
              /\ b.workaround = a.workaround
              /\ b.restart_how = IF a.restart_how = "CONT" THEN "SYSCALL" ELSE a.restart_how
              /\ b.status = IF a.restart_how = "CONT" THEN before.status ELSE a.status
           \/ /\ a.cur.nr # "void" /\ b.chain = <<a.cur>> \o a.chain /\ b.chaining
              /\ b.workaround = "FAULTY_CALL" /\ b.restart_how = a.restart_how
              /\ b.status = a.status
    <3>1. CASE a.cur.nr # "void"
      <4>1. b = [a EXCEPT !.workaround = "FAULTY_CALL", !.chaining = TRUE,
                          !.chain = <<a.cur>> \o a.chain]
        BY <3>1 DEF restart_current_syscall_as_chained
      <4> HIDE DEF b
      <4>2. b.chaining = TRUE
        BY <4>1
      <4>3. /\ SamePlace(a, b) /\ b.orig = a.orig /\ b.forced = a.forced /\ b.rewrite = a.rewrite
            /\ b.promised = a.promised /\ b.rewritten = a.rewritten /\ b.cur = a.cur
            /\ b.restore = a.restore /\ b.changed = a.changed /\ b.nr = a.nr
            /\ b.workaround = "FAULTY_CALL" /\ b.restart_how = a.restart_how
            /\ b.status = a.status /\ b.chain = <<a.cur>> \o a.chain
        BY <4>1 DEF SamePlace, SameMode
      <4> QED
        BY <3>1, <4>2, <4>3
    <3>2. CASE a.cur.nr = "void" /\ a.restart_how = "CONT"
      <4>1. b = [a EXCEPT !.status = before.status, !.restart_how = "SYSCALL"]
        BY <3>2
      <4> HIDE DEF b
      <4> QED
        BY <3>2, <4>1 DEF SamePlace, SameMode
    <3>3. CASE a.cur.nr = "void" /\ a.restart_how # "CONT"
      BY <3>3 DEF SamePlace, SameMode
    <3> QED
      BY <3>1, <3>2, <3>3
  <2> HIDE DEF b
  <2>4. b.rewritten \in BOOLEAN /\ ~ b.restore /\ b.changed /\ ~ b.kernel.sets_sysnum
    BY <1>1, <2>3 DEF SamePlace, SameMode, Unset
  <2>5. SamePlace(b, d) /\ SameAnswer(b, d) /\ d.rewritten = b.rewritten /\ Failing(b, d)
    <3>1. /\ bad.nr = b.cur.nr /\ bad.args = "bad" /\ bad.sp = b.cur.sp /\ bad.pc = b.cur.pc
          /\ bad.result = b.cur.result /\ ~ no
      OBVIOUS
    <3> HIDE DEF bad, no
    <3> QED
      BY <2>2, <2>4, <3>1, MakesFail
  <2> QED
    BY <1>1, <2>3, <2>5 DEF SamePlace, SameMode, SameAnswer, Failing, Undone
<1>2. CASE ~ Unset(a)
  <2>1. PushStatus(a, ~ a.chaining) = 0
    BY <1>2 DEF PushStatus, Unset
  <2>2. d = Push(a, ~ a.chaining)
    BY <2>1, Zenon DEF EnterPushed
  <2>3. /\ SamePlace(a, d) /\ SameAnswer(a, d)
        /\ d.cur = a.cur /\ d.rewritten = a.rewritten /\ (d.changed <=> a.changed)
        /\ a.changed => d.regs = a.cur /\ d.nr = IF a.kernel.sets_sysnum THEN a.cur.nr ELSE a.nr
        /\ ~ a.changed => d.regs = a.regs /\ d.nr = a.nr
    BY <2>1, <2>2, PushFields
  <2> QED
    BY <1>2, <2>3 DEF SameAnswer, Written
<1> QED
  BY <1>1, <1>2

AtEntry(a) ==
  /\ a.rewritten \in BOOLEAN /\ a.status = 0 /\ a.regs.pc = "after" /\ a.nr = a.regs.nr
  /\ a.restart_how \in {"SYSCALL", "CONT"}
  /\ Fresh(a) \/ (a.restart_how = "SYSCALL" /\ Prompted(a))
  /\ a.restart_how = "CONT" => ~ Sysexit(a.nr)

\* Its exit will be seen.
EntryTaken(a) ==
  /\ a.restart_how = "SYSCALL" /\ a.status \in {1, -1} /\ a.regs.pc = "after"
  /\ \/ Translating(a)
     \/ a.status = 1 /\ a.nr = a.regs.nr /\ (ChainedCall(a) \/ ReplacingCall(a))
     \/ FaultyCall(a)
  /\ a.cur.nr = "void" => Translating(a) /\ a.promised = "proot" /\ (a.nr = "void" \/ Traced(a.nr))
  /\ Translating(a) /\ a.cur.nr # "void" => a.status = 1 /\ a.nr # "void"

\* It will not.
EntryPassed(a) ==
  /\ a.restart_how = "CONT" /\ a.status = 0 /\ a.regs.pc = "after"
  /\ NoChain(a) /\ ~ a.rewritten /\ a.regs.sp = "own" /\ a.regs.args \in {"own", "translated"}
  /\ a.nr \notin {"execve", "utime"}
  /\ Traced(a.nr) => a.regs.args = "translated"
  /\ IF a.nr = "void" THEN a.regs.result = a.promised ELSE a.promised = "kernel"

SamePending(a, d) == d.sysexit_pending = a.sysexit_pending

\* The entry of a call the guest asked for: translated, or left to pass without its exit.
LEMMA RequestedEntry ==
  ASSUME NEW a, AtEntry(a), Fresh(a) \/ RewrittenCall(a), NEW d \in EnterStage(a)
  PROVE  /\ SamePlace(a, d) /\ (EntryTaken(d) \/ (EntryPassed(d) /\ SamePending(a, d))) /\ d.rewritten \in BOOLEAN
         /\ a.restart_how = "SYSCALL" => EntryTaken(d)
         /\ Launching(a) /\ a.nr = "execve" => Translating(d) /\ d.status = 1 /\ d.nr = "execve"
<1> DEFINE h == [a EXCEPT !.restore = FALSE, !.cur = a.regs]
           b == [h EXCEPT !.orig = h.cur, !.changed = FALSE]
<1>1. NoChain(a)
  BY DEF Fresh, RewrittenCall
<1>2. PICK c \in translate_syscall_enter(b) : d = EnterPushed(c, EndEnter(c))
  <2>1. Requested(h)
    BY <1>1 DEF Requested, NoChain
  <2> QED
    BY <2>1 DEF EnterStage, Save
<1>3. /\ SamePlace(a, b) /\ SameOwner(a, b) /\ b.regs = a.regs /\ b.nr = a.nr /\ b.cur = a.regs
      /\ b.orig = a.regs /\ ~ b.changed /\ ~ b.restore /\ b.restart_how = a.restart_how
      /\ b.sysexit_pending = a.sysexit_pending
  BY DEF SamePlace, SameMode, SameOwner
<1> HIDE DEF b
<1>4. a.regs.args \in {"own", "rewritten"} /\ a.regs.sp = "own" /\ b.nr = b.regs.nr
  BY <1>3 DEF AtEntry, Fresh, RewrittenCall, Own
<1>5. /\ SamePlace(b, c) /\ SameOwner(b, c) /\ c.regs = b.regs /\ c.nr = b.nr
      /\ c.orig = b.orig /\ ~ c.restore /\ c.cur.pc = b.regs.pc
      /\ Ignored(b, c) \/ Voided(b, c) \/ Refused(b, c) \/ Moved(b, c)
  BY <1>2, <1>3, <1>4, EnterOutcomes
<1> DEFINE e == EndEnter(c)
<1>6. c.status \in {1, -1}
  BY <1>5 DEF Ignored, Voided, Refused, Moved
<1>7. /\ SamePlace(c, e) /\ SameOwner(c, e) /\ e.regs = c.regs /\ e.nr = c.nr
      /\ e.orig = c.orig /\ e.restore = c.restore /\ e.restart_how = c.restart_how
      /\ e.promised = c.promised /\ e.sysexit_pending = c.sysexit_pending
      /\ e.cur.pc = c.cur.pc /\ e.cur.args = c.cur.args
      /\ e.cur.nr = IF c.status = -1 THEN "void" ELSE c.cur.nr
      /\ e.cur.result = IF c.status = -1 THEN "proot" ELSE c.cur.result
      /\ e.cur.sp = IF c.restart_how = "CONT" THEN c.orig.sp ELSE c.cur.sp
      /\ e.status = IF c.restart_how = "CONT" THEN 0 ELSE c.status
      /\ c.changed => e.changed
      /\ c.status = -1 /\ c.cur.nr # "void" => e.changed
      /\ ~ e.changed => e.cur = c.cur
  BY <1>6, EndEnterFields
<1>8. d = EnterPushed(c, e)
  BY <1>2
<1> HIDE DEF e
<1>9. e.rewritten \in BOOLEAN /\ ~ e.restore /\ ~ e.chaining
  BY <1>1, <1>3, <1>5, <1>7 DEF SameOwner, AtEntry, NoChain
<1>10. /\ SamePlace(e, d) /\ d.orig = e.orig /\ d.forced = e.forced /\ d.rewrite = e.rewrite
       /\ d.promised = e.promised /\ d.rewritten = e.rewritten /\ d.cur.nr = e.cur.nr
       /\ Written(e, d) \/ Undone(c, e, d)
  BY <1>8, <1>9, EnterPushedFields
<1>11. /\ SamePlace(a, d) /\ d.orig = a.regs /\ d.forced = a.forced /\ d.rewrite = a.rewrite
       /\ d.promised = c.promised /\ d.cur.nr = e.cur.nr /\ d.kernel = a.kernel /\ d.left = a.left
  BY <1>3, <1>5, <1>7, <1>10 DEF SamePlace, SameMode, SameOwner
<1>12. d.rewritten = a.rewritten /\ d.rewritten \in BOOLEAN
  <2>1. e.rewritten = a.rewritten
    BY <1>3, <1>5, <1>7 DEF SameOwner
  <2> QED
    BY <1>10, <2>1 DEF AtEntry
<1>13. /\ e.kernel = a.kernel /\ e.nr = a.nr /\ e.regs = a.regs /\ e.orig = a.regs
       /\ e.chain = <<>> /\ ~ e.chaining /\ ~ a.forced /\ e.workaround = "INACTIVE"
       /\ e.restart_how = c.restart_how /\ a.nr = a.regs.nr /\ b.nr = a.nr /\ b.regs = a.regs
       /\ b.restart_how = a.restart_how /\ e.cur.pc = "after" /\ a.regs.pc = "after"
       /\ Launching(b) = Launching(a)
  BY <1>1, <1>3, <1>5, <1>7 DEF SamePlace, SameMode, SameOwner, AtEntry, NoChain, Launching
<1>14. /\ a.rewritten => a.regs.args = "rewritten" /\ a.regs.nr = "path" /\ Own(a.rewrite)
       /\ ~ a.rewritten => a.regs.args = "own"
       /\ Allowed(a, a.regs.nr)
  BY DEF Fresh, RewrittenCall, Own, Allowed, Numbers
<1>15. CASE Undone(c, e, d)
  <2>1. /\ d.regs.args = "bad" /\ d.regs.pc = "after" /\ d.nr = a.nr /\ d.changed
        /\ ~ e.kernel.sets_sysnum /\ e.cur.nr # a.nr
    BY <1>13, <1>15 DEF Undone, Failing, Unset
  <2>2. CASE e.cur.nr = "void"
    <3>1. /\ NoChain(d) /\ d.status = c.status
          /\ d.restart_how = IF c.restart_how = "CONT" THEN "SYSCALL" ELSE c.restart_how
      BY <1>7, <1>11, <1>13, <1>15, <2>2 DEF Undone, NoChain
    <3>2. Voided(b, c) \/ Refused(b, c)
      BY <1>5, <1>7, <1>13, <1>14, <2>2 DEF Ignored, Moved, SameRegs, Allowed, Numbers
    <3>3. d.promised = "proot" /\ c.status = IF a.nr \in Void THEN 1 ELSE -1
      BY <1>11, <1>13, <3>2 DEF Voided, Refused
    <3>4. Traced(a.nr) /\ d.restart_how = "SYSCALL"
      BY <1>13, <3>1, <3>2 DEF Voided, Refused, Void, Traced, Numbers, AtEntry
    <3>5. Translating(d)
      BY <1>4, <1>11, <1>12, <1>13, <1>14, <2>1, <3>1, <3>3 DEF Translating, Allowed
    <3>6. Launching(a) /\ a.nr = "execve" => FALSE
      BY <1>13, <3>2 DEF Voided, Refused, Void
    <3> QED
      BY <1>6, <1>11, <1>12, <2>1, <2>2, <3>1, <3>3, <3>4, <3>5, <3>6 DEF EntryTaken
  <2>3. CASE e.cur.nr # "void"
    <3>1. Moved(b, c) /\ a.nr = "renamed" /\ e.cur.nr = "plain"
      BY <1>5, <1>7, <1>13, <2>1, <2>3 DEF Ignored, Voided, Refused, Moved, SameRegs
    <3>2. c.restart_how = "SYSCALL" /\ c.status = 1 /\ d.promised = "kernel"
      BY <1>11, <1>13, <3>1 DEF Moved, AtEntry, Sysexit
    <3>3. /\ d.chain = <<e.cur>> \o <<>> /\ d.chaining /\ d.workaround = "FAULTY_CALL"
          /\ d.restart_how = "SYSCALL" /\ d.status = 1 /\ ~ d.forced
      BY <1>7, <1>11, <1>13, <1>15, <2>3, <3>2 DEF Undone
    <3>4. d.chain = <<e.cur>>
      BY <3>3
    <3>5. ~ d.rewritten /\ Own(a.regs)
      BY <1>12, <1>13, <1>14, <3>1, <1>4 DEF Own
    <3>6. e.cur.args = "translated"
      BY <1>7, <3>1 DEF Moved
    <3>7. FaultyCall(d)
      BY <1>11, <1>13, <2>1, <3>1, <3>2, <3>3, <3>4, <3>5, <3>6 DEF FaultyCall, InChain
    <3>8. ~ Translating(d)
      BY <3>3 DEF Translating, NoChain
    <3> QED
      BY <1>11, <1>12, <1>13, <2>1, <2>3, <3>1, <3>3, <3>7, <3>8 DEF EntryTaken
  <2> QED
    BY <2>2, <2>3
<1>16. CASE Written(e, d)
  <2>1. NoChain(d) /\ d.status = e.status /\ d.restart_how = c.restart_how
    BY <1>11, <1>13, <1>16 DEF Written, SameAnswer, NoChain
  <2>2. e.changed \/ (Ignored(b, c) /\ e.cur = c.cur)
    BY <1>5, <1>7, <1>13, <1>14 DEF Voided, Refused, Moved, SameRegs, Allowed, Numbers
  <2>3. /\ d.nr = e.cur.nr /\ d.regs.nr = e.cur.nr /\ d.regs.args = e.cur.args
        /\ d.regs.result = e.cur.result /\ d.regs.pc = "after" /\ d.regs.sp = e.cur.sp
    <3>1. CASE e.changed
      BY <1>13, <1>16, <3>1 DEF Written, Unset
    <3>2. CASE ~ e.changed /\ Ignored(b, c) /\ e.cur = c.cur
      BY <1>13, <1>16, <3>2 DEF Written, Ignored, SameRegs
    <3> QED
      BY <2>2, <3>1, <3>2
  <2>4. ~ d.changed => Ignored(b, c)
    <3>1. d.changed <=> e.changed
      BY <1>16 DEF Written
    <3> QED
      BY <2>2, <3>1, Zenon
  <2>5. CASE c.restart_how = "CONT"
    <3>1. EntryPassed(d)
      <4>1. Fresh(a) /\ ~ Sysexit(a.nr) /\ a.restart_how = "CONT"
        BY <1>5, <1>13, <2>5 DEF AtEntry, Ignored, Voided, Refused, Moved
      <4>2. ~ d.rewritten /\ d.regs.sp = "own"
        BY <1>4, <1>5, <1>7, <1>12, <1>13, <1>3, <2>3, <2>5, <4>1 DEF Fresh
      <4>3. ~ Voided(b, c)
        BY <1>13, <4>1 DEF Voided, Void, Sysexit
      <4>4. a.nr \in Numbers /\ a.nr \notin {"execve", "utime", "void"} /\ a.regs.args = "own"
        BY <1>13, <4>1 DEF Fresh, Allowed, Numbers, Sysexit, Own
      <4>5. d.restart_how = "CONT" /\ d.status = 0
        BY <1>7, <2>1, <2>5
      <4>6. CASE Ignored(b, c)
        <5>1. d.nr = a.nr /\ d.regs.args = "own" /\ d.promised = "kernel" /\ ~ Traced(d.nr)
          BY <1>7, <1>11, <1>13, <2>3, <4>4, <4>6 DEF Ignored, SameRegs
        <5> QED
          BY <2>1, <2>3, <4>2, <4>4, <4>5, <5>1 DEF EntryPassed
      <4>7. CASE Refused(b, c)
        <5>1. d.nr = "void" /\ d.regs.args = "own" /\ d.promised = "proot" /\ d.regs.result = "proot"
          BY <1>7, <1>11, <1>13, <2>3, <4>4, <4>7 DEF Refused, SameRegs
        <5> QED
          BY <2>1, <2>3, <4>2, <4>4, <4>5, <5>1 DEF EntryPassed, Traced, Numbers
      <4>8. CASE Moved(b, c)
        <5>1. d.nr = a.nr /\ d.regs.args = "translated" /\ d.promised = "kernel"
          BY <1>7, <1>11, <1>13, <2>3, <4>1, <4>4, <4>8 DEF Moved, Sysexit
        <5> QED
          BY <2>1, <2>3, <4>2, <4>4, <4>5, <5>1 DEF EntryPassed
      <4> QED
        BY <1>5, <4>3, <4>6, <4>7, <4>8
    <3>2. a.restart_how # "SYSCALL" /\ a.nr # "execve"
      BY <1>5, <1>13, <2>5 DEF AtEntry, Ignored, Voided, Refused, Moved, Sysexit
    <3>3. SamePending(a, d)
      <4>1. c.sysexit_pending = b.sysexit_pending
        BY <1>5, <1>13, <2>5 DEF Ignored, Voided, Refused, Moved
      <4> QED
        BY <1>3, <1>7, <1>16, <4>1 DEF Written, SameAnswer, SamePending
    <3> QED
      BY <1>11, <1>12, <3>1, <3>2, <3>3
  <2>6. CASE c.restart_how # "CONT"
    <3>1. d.restart_how = "SYSCALL" /\ d.status = c.status
      BY <1>5, <1>7, <1>13, <2>1, <2>6 DEF AtEntry, Ignored, Voided, Refused, Moved
    <3>2. CASE Ignored(b, c)
      <4>1. /\ d.nr = a.nr /\ ~ Traced(a.nr) /\ d.regs.args = a.regs.args /\ d.regs.nr = a.nr
            /\ d.promised = "kernel" /\ d.status = 1 /\ d.regs.sp = "own" /\ e.cur.nr = a.nr
        BY <1>4, <1>7, <1>11, <1>13, <2>3, <2>6, <3>1, <3>2 DEF Ignored, SameRegs
      <4>2. a.nr \notin {"void", "renamed", "execve"} \cup Void
        BY <1>13, <1>14, <4>1 DEF Allowed, Traced, Numbers, Void
      <4>3. Translating(d)
        BY <1>4, <1>11, <1>12, <1>13, <1>14, <2>1, <4>1, <4>2 DEF Translating, Allowed, Own
      <4> QED
        BY <1>11, <1>12, <2>3, <3>1, <4>1, <4>2, <4>3 DEF EntryTaken
    <3>3. CASE Voided(b, c)
      <4>1. /\ d.nr = "void" /\ a.nr \in Void /\ d.promised = "proot" /\ d.status = 1 /\ d.changed
            /\ e.cur.nr = "void"
        BY <1>7, <1>11, <1>13, <2>3, <2>4, <3>1, <3>3 DEF Ignored, Voided, Void, Traced, Numbers
      <4>2. Translating(d)
        BY <1>4, <1>11, <1>12, <1>13, <1>14, <2>1, <4>1 DEF Translating, Allowed, Traced, Numbers
      <4> QED
        BY <1>11, <1>12, <2>3, <3>1, <4>1, <4>2 DEF EntryTaken, Void
    <3>4. CASE Refused(b, c)
      <4>1. /\ d.nr = "void" /\ d.promised = "proot" /\ d.status = -1 /\ d.changed
            /\ e.cur.nr = "void" /\ ~ Launching(a)
        BY <1>7, <1>11, <1>13, <2>3, <2>4, <3>1, <3>4 DEF Ignored, Refused
      <4>2. Translating(d)
        BY <1>4, <1>11, <1>12, <1>13, <1>14, <2>1, <4>1 DEF Translating, Allowed, Traced, Numbers
      <4> QED
        BY <1>11, <1>12, <2>3, <3>1, <4>1, <4>2 DEF EntryTaken
    <3>5. CASE Moved(b, c)
      <4>1. /\ d.nr = (IF a.nr = "renamed" THEN "plain" ELSE a.nr) /\ d.promised = "kernel"
            /\ d.status = 1 /\ d.changed /\ d.regs.args = "translated" /\ e.cur.nr = d.nr
            /\ a.nr \notin Void
        BY <1>7, <1>11, <1>13, <2>3, <2>4, <3>1, <3>5 DEF Ignored, Moved
      <4>2. a.nr # "void"
        BY <1>13, <1>14 DEF Allowed, Numbers
      <4>3. Translating(d)
        BY <1>4, <1>11, <1>12, <1>13, <1>14, <2>1, <4>1 DEF Translating, Allowed
      <4> QED
        BY <1>11, <1>12, <2>3, <3>1, <4>1, <4>2, <4>3 DEF EntryTaken
    <3> QED
      BY <1>5, <3>2, <3>3, <3>4, <3>5
  <2> QED
    BY <2>5, <2>6
<1> QED
  BY <1>10, <1>15, <1>16

\* A call of PRoot's own is made as it is.
LEMMA ChainEntry ==
  ASSUME NEW a, AtEntry(a), ChainedCall(a) \/ ReplacingCall(a), NEW d \in EnterStage(a)
  PROVE  SamePlace(a, d) /\ EntryTaken(d) /\ d.rewritten \in BOOLEAN
<1> DEFINE h == [a EXCEPT !.restore = FALSE, !.cur = a.regs]
           c == [h EXCEPT !.restart_how = "SYSCALL", !.status = 1]
<1>1. a.chaining /\ a.changed
  BY DEF ChainedCall, ReplacingCall, InChain
<1>2. d = EnterPushed(c, EndEnter(c))
  <2>1. ~ Requested(h)
    BY <1>1 DEF Requested
  <2> QED
    BY <2>1 DEF EnterStage
<1>3. /\ SamePlace(a, c) /\ SameOwner(a, c) /\ c.regs = a.regs /\ c.nr = a.nr /\ c.cur = a.regs
      /\ c.orig = a.orig /\ c.changed = a.changed /\ c.promised = a.promised
      /\ c.restart_how = "SYSCALL" /\ c.status = 1 /\ c.restore = FALSE
  BY DEF SamePlace, SameMode, SameOwner
<1> HIDE DEF c
<1>4. EndEnter(c) = c
  <2>1. ~ (c.status < 0) /\ c.restart_how # "CONT"
    BY <1>3
  <2> QED
    BY <2>1, Zenon DEF EndEnter
<1>5. d = Push(c, ~ c.chaining) /\ PushStatus(c, ~ c.chaining) = 0
  <2>1. PushStatus(c, ~ c.chaining) = 0
    <3>1. c.chaining = a.chaining
      BY <1>3 DEF SameOwner
    <3>2. c.chaining
      BY <1>1, <3>1
    <3> QED
      BY <3>2 DEF PushStatus
  <2> QED
    BY <1>2, <1>4, <2>1, Zenon DEF EnterPushed
<1>6. c.rewritten \in BOOLEAN /\ ~ c.restore /\ c.changed
  BY <1>1, <1>3 DEF SameOwner, AtEntry
<1>7. /\ SamePlace(c, d) /\ SameAnswer(c, d)
      /\ d.cur = c.cur /\ d.rewritten = c.rewritten /\ (d.changed <=> c.changed)
      /\ c.changed => d.regs = c.cur /\ d.nr = IF c.kernel.sets_sysnum THEN c.cur.nr ELSE c.nr
  BY <1>5, <1>6, PushFields
<1>8. /\ SamePlace(a, d) /\ d.promised = a.promised /\ d.chain = a.chain /\ d.chaining = a.chaining
      /\ d.forced = a.forced /\ d.workaround = a.workaround /\ d.orig = a.orig
      /\ d.restart_how = "SYSCALL" /\ d.status = 1 /\ d.cur = a.regs
  BY <1>3, <1>7 DEF SamePlace, SameMode, SameOwner, SameAnswer
<1>9. d.changed /\ d.rewritten = a.rewritten
  <2>1. c.rewritten = a.rewritten
    BY <1>3 DEF SameOwner
  <2> QED
    BY <1>6, <1>7, <2>1, Zenon
<1>10. d.regs = a.regs /\ d.nr = a.nr /\ d.nr = d.regs.nr /\ d.regs.pc = "after"
  BY <1>3, <1>6, <1>7 DEF AtEntry
<1>11. ChainedCall(d) \/ ReplacingCall(d)
  BY <1>1, <1>8, <1>9, <1>10 DEF ChainedCall, ReplacingCall, InChain
<1>12. ~ Translating(d) /\ d.cur.nr # "void"
  BY <1>1, <1>8, <1>10, <1>11 DEF Translating, NoChain, ChainedCall, ReplacingCall, InChain
<1> QED
  BY <1>8, <1>9, <1>10, <1>11, <1>12 DEF EntryTaken, AtEntry

\* translate_syscall_enter() and what surrounds it, of a call of any kind.
LEMMA EntryStage ==
  ASSUME NEW a, AtEntry(a), NEW d \in EnterStage(a)
  PROVE  /\ SamePlace(a, d) /\ (EntryTaken(d) \/ (EntryPassed(d) /\ SamePending(a, d))) /\ d.rewritten \in BOOLEAN
         /\ a.restart_how = "SYSCALL" => EntryTaken(d)
         /\ Launching(a) /\ a.nr = "execve" /\ Fresh(a) =>
              Translating(d) /\ d.status = 1 /\ d.nr = "execve"
<1>1. CASE Fresh(a) \/ RewrittenCall(a)
  BY <1>1, RequestedEntry
<1>2. CASE ChainedCall(a) \/ ReplacingCall(a)
  <2>1. ~ Fresh(a)
    BY <1>2 DEF Fresh, NoChain, ChainedCall, ReplacingCall, InChain
  <2> QED
    BY <1>2, <2>1, ChainEntry
<1> QED
  BY <1>1, <1>2 DEF AtEntry, Prompted

(***************************************************************************)
(* The stages of PRoot: the exit of a call.                                *)
(***************************************************************************)

(***************************************************************************)
(* The exit of a call.                                                     *)
(***************************************************************************)
\* push_regs() of an exit gives the registers back.
LEMMA PopFields ==
  ASSUME NEW a, a.rewritten \in BOOLEAN, a.restore, NEW no, ~ no, NEW b, b = Push(a, no),
         NEW from, from = IF a.rewritten THEN a.rewrite ELSE a.orig
  PROVE  /\ SamePlace(a, b) /\ SameAnswer(a, b) /\ b.rewritten \in BOOLEAN /\ ~ b.rewritten
         /\ b.nr \in {a.nr, b.regs.nr}
         /\ a.changed \/ a.rewritten =>
              /\ b.regs.nr = from.nr /\ b.regs.args = from.args /\ b.regs.sp = from.sp
              /\ b.regs.pc = a.cur.pc /\ b.regs.result = a.cur.result
         /\ ~ (a.changed \/ a.rewritten) => b.regs = a.regs
<1>1. PushStatus(a, no) = 0 /\ ~ (PushStatus(a, no) < 0)
  BY DEF PushStatus
<1>2. CASE a.changed \/ a.rewritten
  <2> DEFINE c == [a.cur EXCEPT !.nr = from.nr, !.args = from.args, !.sp = from.sp]
  <2>1. /\ c.nr = from.nr /\ c.args = from.args /\ c.sp = from.sp /\ c.pc = a.cur.pc
        /\ c.result = a.cur.result
    OBVIOUS
  <2>2. b = [[a EXCEPT !.cur = c, !.rewritten = FALSE]
               EXCEPT !.regs = c, !.nr = IF a.kernel.sets_sysnum THEN c.nr ELSE a.nr]
    <3>1. c = Restored(a.cur, IF RestoresRewrite(a) THEN a.rewrite ELSE a.orig)
      BY Zenon DEF Restored, RestoresRewrite
    <3>2. (a.rewritten /\ ~ (a.restore /\ (a.changed \/ a.rewritten))) = FALSE
      BY <1>2
    <3>3. a.restore /\ (a.changed \/ a.rewritten)
      BY <1>2
    <3> HIDE DEF c
    <3> QED
      BY <1>1, <3>1, <3>2, <3>3, Zenon DEF Push
  <2> HIDE DEF c
  <2>3. /\ SamePlace(a, b) /\ SameAnswer(a, b) /\ b.rewritten = FALSE /\ b.regs = c
        /\ b.nr \in {a.nr, c.nr}
    BY <2>2 DEF SamePlace, SameMode, SameAnswer
  <2> QED
    BY <1>2, <2>1, <2>3
<1>3. CASE ~ (a.changed \/ a.rewritten)
  <2>1. b = [a EXCEPT !.cur = a.cur, !.rewritten = a.rewritten]
    BY <1>1, <1>3 DEF Push
  <2>2. /\ SamePlace(a, b) /\ SameAnswer(a, b) /\ b.rewritten = a.rewritten /\ b.regs = a.regs
        /\ b.nr = a.nr
    BY <2>1 DEF SamePlace, SameMode, SameAnswer
  <2>3. a.rewritten = FALSE
    BY <1>3
  <2> QED
    BY <1>3, <2>2, <2>3
<1> QED
  BY <1>2, <1>3

\* A call that is run again as a newer one.
LEMMA Rewrites ==
  ASSUME NEW a, a.cur.nr \in {"open", "utime"}, a.cur.args = "own", a.cur.sp = "own", ~ a.restore,
         NEW b, b = handle_seccomp_event_common(a)
  PROVE  /\ SamePlace(a, b) /\ b.status = a.status /\ b.chain = a.chain /\ b.chaining = a.chaining
         /\ b.forced = a.forced /\ b.workaround = a.workaround /\ b.orig = a.orig
         /\ b.rewrite = a.rewrite /\ b.promised = "kernel" /\ b.restart_how = "SYSCALL"
         /\ b.rewritten \in BOOLEAN /\ b.rewritten /\ ~ b.restore /\ b.changed /\ b.cur = b.regs
         /\ b.regs.nr = "path" /\ b.regs.args = "rewritten" /\ b.regs.sp = "own"
         /\ b.regs.pc = "trap"
<1> DEFINE new == [a.cur EXCEPT !.nr = "path", !.args = IF @ = "own" THEN "rewritten" ELSE "twice"]
           c == Poke(a, new)
           d == [c EXCEPT !.rewritten = TRUE, !.restart_how = "SYSCALL", !.promised = "kernel"]
           back == [c.cur EXCEPT !.pc = "trap"]
           e == Poke(d, back)
           no == FALSE
<1>1. b = Push(e, no)
  BY Zenon DEF handle_seccomp_event_common, restart_syscall_after_seccomp, Back
<1>2. new.nr = "path" /\ new.args = "rewritten" /\ new.sp = "own"
  OBVIOUS
<1> HIDE DEF new
<1>3. /\ SamePlace(a, c) /\ SameAnswer(a, c) /\ c.restore = a.restore
      /\ c.regs = a.regs /\ c.nr = a.nr /\ c.rewritten = a.rewritten
      /\ c.cur = new /\ (c.changed <=> a.changed \/ new # a.cur)
  BY PokeFields
<1>4. c.changed
  BY <1>2, <1>3
<1>5. back.nr = c.cur.nr /\ back.args = c.cur.args /\ back.sp = c.cur.sp /\ back.pc = "trap"
  OBVIOUS
<1> HIDE DEF back, c
<1>6. d.rewritten = TRUE /\ d.restart_how = "SYSCALL" /\ d.promised = "kernel" /\ SamePlace(c, d)
      /\ d.status = c.status /\ d.chain = c.chain /\ d.chaining = c.chaining /\ d.forced = c.forced
      /\ d.workaround = c.workaround /\ d.orig = c.orig /\ d.rewrite = c.rewrite
      /\ d.restore = c.restore /\ d.changed = c.changed
  BY DEF SamePlace, SameMode
<1> HIDE DEF d
<1>7. /\ SamePlace(d, e) /\ SameAnswer(d, e) /\ e.restore = d.restore
      /\ e.regs = d.regs /\ e.nr = d.nr /\ e.rewritten = d.rewritten
      /\ e.cur = back /\ (e.changed <=> d.changed \/ back # d.cur)
  BY PokeFields
<1> HIDE DEF e
<1>8. PushStatus(e, no) = 0
  BY DEF PushStatus
<1>9. e.changed
  <2>1. d.changed
    BY <1>4, <1>6
  <2> QED
    BY <1>7, <2>1
<1>10. e.rewritten \in BOOLEAN /\ ~ e.restore
  BY <1>3, <1>6, <1>7
<1> HIDE DEF no
<1>11. /\ SamePlace(e, b) /\ SameAnswer(e, b)
       /\ b.cur = e.cur /\ b.rewritten = e.rewritten /\ b.restore = e.restore /\ (b.changed <=> e.changed)
       /\ e.changed => b.regs = e.cur /\ b.nr = IF e.kernel.sets_sysnum THEN e.cur.nr ELSE e.nr
  BY <1>1, <1>8, <1>10, PushFields
<1>12. b.changed
  BY <1>9, <1>11, Zenon
<1>13. b.regs = back /\ b.cur = back
  BY <1>7, <1>9, <1>11
<1>14. back.nr = "path" /\ back.args = "rewritten" /\ back.sp = "own" /\ back.pc = "trap"
  BY <1>2, <1>3, <1>5
<1>15. /\ SamePlace(a, b) /\ b.status = a.status /\ b.chain = a.chain /\ b.chaining = a.chaining
       /\ b.forced = a.forced /\ b.workaround = a.workaround /\ b.orig = a.orig
       /\ b.rewrite = a.rewrite /\ b.promised = "kernel" /\ b.restart_how = "SYSCALL"
       /\ b.rewritten = TRUE
  BY <1>3, <1>6, <1>7, <1>11 DEF SamePlace, SameMode, SameAnswer
<1>16. ~ b.restore
  <2>1. b.restore = a.restore
    BY <1>3, <1>6, <1>7, <1>11
  <2> QED
    BY <2>1
<1> QED
  BY <1>12, <1>13, <1>14, <1>15, <1>16

\* One that PRoot answers.
LEMMA Answers ==
  ASSUME NEW a, a.cur.nr \notin {"open", "utime"}, a.cur = a.regs, ~ a.restore,
         a.rewritten \in BOOLEAN, NEW b, b = handle_seccomp_event_common(a)
  PROVE  /\ SamePlace(a, b) /\ b.status = a.status /\ b.chain = a.chain /\ b.chaining = a.chaining
         /\ b.forced = a.forced /\ b.workaround = a.workaround /\ b.orig = a.orig
         /\ b.rewrite = a.rewrite /\ b.promised = "proot" /\ b.restart_how = a.restart_how
         /\ b.rewritten = a.rewritten
         /\ b.regs.args = a.regs.args /\ b.regs.sp = a.regs.sp /\ b.regs.pc = a.regs.pc
         /\ b.regs.result = "proot"
<1> DEFINE regs == [a.cur EXCEPT !.result = "proot"]
           c == Poke(a, regs)
           no == FALSE
           d == Push(c, no)
<1>1. b = [d EXCEPT !.promised = "proot"]
  BY Zenon DEF handle_seccomp_event_common, set_result_after_seccomp
<1>2. /\ regs.args = a.regs.args /\ regs.sp = a.regs.sp /\ regs.pc = a.regs.pc
      /\ regs.result = "proot"
  OBVIOUS
<1> HIDE DEF regs
<1>3. /\ SamePlace(a, c) /\ SameAnswer(a, c) /\ c.restore = a.restore
      /\ c.regs = a.regs /\ c.nr = a.nr /\ c.rewritten = a.rewritten
      /\ c.cur = regs /\ (c.changed <=> a.changed \/ regs # a.cur)
  BY PokeFields
<1> HIDE DEF c
<1>4. PushStatus(c, no) = 0 /\ c.rewritten \in BOOLEAN /\ ~ c.restore
  BY <1>3 DEF PushStatus
<1> HIDE DEF no
<1>5. /\ SamePlace(c, d) /\ SameAnswer(c, d) /\ d.rewritten = c.rewritten
      /\ c.changed => d.regs = c.cur
      /\ ~ c.changed => d.regs = c.regs
  BY <1>4, PushFields
<1> HIDE DEF d
<1>6. d.regs = regs
  BY <1>3, <1>5
<1>7. /\ SamePlace(d, b) /\ b.regs = d.regs /\ b.status = d.status /\ b.chain = d.chain
      /\ b.chaining = d.chaining /\ b.forced = d.forced /\ b.workaround = d.workaround
      /\ b.orig = d.orig /\ b.rewrite = d.rewrite /\ b.promised = "proot"
      /\ b.restart_how = d.restart_how /\ b.rewritten = d.rewritten
  BY <1>1 DEF SamePlace, SameMode
<1> QED
  BY <1>2, <1>3, <1>5, <1>6, <1>7 DEF SamePlace, SameMode, SameAnswer

\* PRoot's handling of ptrace(PTRACE_TRACEME) turns its filter off.
SameStage(a, b) ==
  /\ b.kernel = a.kernel /\ b.left = a.left /\ b.ran = a.ran /\ b.aborted = a.aborted
  /\ b.detected = a.detected /\ b.after_enter = a.after_enter
  /\ b.last_restart_how = a.last_restart_how /\ b.skip_next = a.skip_next
  /\ b.already_handled_enter = a.already_handled_enter /\ b.todo = a.todo /\ b.stop = a.stop
  /\ \/ b.seccomp = a.seccomp
     \/ a.seccomp = "ENABLED" /\ b.seccomp = "DISABLING" /\ a.orig.nr = "traceme"

\* The result that PRoot gives, or the kernel's.
ExitAnswered(a, c) ==
  /\ SameStage(a, c) /\ SameOwner(a, c) /\ c.regs = a.regs /\ c.orig = a.orig
  /\ c.nr = a.nr
  /\ c.restore = a.restore /\ c.status = a.status /\ c.promised = a.promised
  /\ c.cur.pc = a.cur.pc
  /\ c.cur.result = IF a.status = -1 \/ a.orig.nr \in Void THEN "proot" ELSE a.cur.result
  /\ a.changed => c.changed
  /\ ~ c.changed => c.cur = a.cur
  /\ c.restart_how \in {a.restart_how, "SYSCALL"}
  /\ ~ (a.status = 1 /\ a.orig.nr = "utime" /\ a.cur.result = "ENOSYS")

ExitChained(a, c) ==
  /\ a.status = 1 /\ a.orig.nr = "both" /\ SamePlace(a, c) /\ c.chaining = TRUE
  /\ c.chain \in Seq(ChainedRegs) /\ c.chain # <<>>
  /\ c.forced \in BOOLEAN /\ c.promised = (IF c.forced THEN "proot" ELSE "chain")
  /\ c.workaround = a.workaround /\ c.rewritten = a.rewritten /\ c.orig = a.orig
  /\ c.cur = a.cur

ExitRewritten(a, c) ==
  /\ a.status = 1 /\ a.orig.nr = "utime" /\ SamePlace(a, c) /\ c.chain = a.chain /\ c.chaining = a.chaining
  /\ c.forced = a.forced /\ c.workaround = a.workaround /\ c.rewrite = a.orig
  /\ c.promised = "kernel" /\ c.restart_how = "SYSCALL" /\ c.rewritten \in BOOLEAN
  /\ c.rewritten /\ ~ c.restore
  /\ c.changed /\ c.cur = c.regs /\ c.regs.nr = "path" /\ c.regs.args = "rewritten"
  /\ c.regs.sp = "own" /\ c.regs.pc = "trap"

\* A chain is a sequence of calls whose instruction pointer is at the trap.
LEMMA ChainsAreCalls ==
  ASSUME NEW nrs \in Chains,
         NEW regs, regs = [i \in DOMAIN nrs |-> Regs(nrs[i], "chain", "trap")]
  PROVE  regs \in Seq(ChainedRegs) /\ regs # <<>>
<1>1. PICK n \in 1 .. MaxChain : nrs \in [1 .. n -> {"plain", "both"}]
  BY DEF Chains
<1>2. n \in Nat \ {0}
  BY StagesAssumption
<1>3. \A i \in 1 .. n : regs[i] \in ChainedRegs
  BY <1>1 DEF Regs, ChainedRegs
<1>4. regs \in [1 .. n -> ChainedRegs]
  BY <1>1, <1>3
<1> QED
  BY <1>2, <1>4, SeqDef

\* What a handler of the exit does: answer, chain calls, or run a rewritten call.
LEMMA ExitOutcomes ==
  ASSUME NEW a, a.cur = a.regs, a.rewritten \in BOOLEAN, a.status \in {1, -1}, a.chain = <<>>,
         a.orig.nr = "utime" => Own(a.orig), NEW c \in translate_syscall_exit(a)
  PROVE  ExitAnswered(a, c) \/ ExitChained(a, c) \/ ExitRewritten(a, c)
<1> DEFINE regs == [a.cur EXCEPT !.result = "proot"]
           answered == Poke(a, regs)
<1>1. regs.pc = a.cur.pc /\ regs.result = "proot"
  OBVIOUS
<1>2. /\ SamePlace(a, answered) /\ SameAnswer(a, answered) /\ answered.restore = a.restore
      /\ answered.regs = a.regs /\ answered.nr = a.nr /\ answered.rewritten = a.rewritten
      /\ answered.cur = regs /\ (answered.changed <=> a.changed \/ regs # a.cur)
  <2> HIDE DEF regs
  <2> QED
    BY PokeFields
<1>3. CASE a.status = -1 \/ a.orig.nr = "emulated"
  <2>1. c = answered
    <3>1. /\ a.status < 0 \/ a.orig.nr = "emulated"
          /\ ~ (a.status >= 0 /\ a.orig.nr = "traceme") /\ ~ (a.status >= 0 /\ a.orig.nr = "both")
          /\ ~ (a.status >= 0 /\ a.orig.nr = "watch") /\ ~ (a.status >= 0 /\ a.orig.nr = "utime")
      BY <1>3
    <3>2. translate_syscall_exit(a) = {answered}
      BY <3>1, Zenon DEF translate_syscall_exit
    <3> HIDE DEF answered
    <3> QED
      BY <3>2
  <2> HIDE DEF answered, regs
  <2> QED
    BY <1>1, <1>2, <1>3, <2>1
    DEF ExitAnswered, SameStage, SameOwner, SamePlace, SameMode, SameAnswer, Void
<1>4. CASE a.status = 1 /\ a.orig.nr = "traceme"
  <2> DEFINE off == IF answered.seccomp = "ENABLED" THEN "DISABLING" ELSE answered.seccomp
  <2>1. c = [answered EXCEPT !.seccomp = off]
    <3>1. /\ ~ (a.status < 0 \/ a.orig.nr = "emulated") /\ a.orig.nr # "both"
          /\ a.orig.nr # "watch" /\ a.orig.nr # "utime" /\ a.status >= 0
      BY <1>4
    <3>2. translate_syscall_exit(a) = {[answered EXCEPT !.seccomp = off]}
      BY <1>4, <3>1, Zenon DEF translate_syscall_exit
    <3> HIDE DEF answered
    <3> QED
      BY <3>2
  <2> HIDE DEF answered, regs
  <2>2. ~ c.changed => c.cur = a.cur
    BY <1>2, <2>1
  <2>3. a.changed => c.changed
    BY <1>2, <2>1
  <2> QED
    BY <1>1, <1>2, <1>4, <2>1, <2>2, <2>3
    DEF ExitAnswered, SameStage, SameOwner, SamePlace, SameMode, SameAnswer, Void
<1>5. CASE a.status = 1 /\ a.orig.nr = "both"
  <2>1. c = a \/ c \in Chained(a)
    <3>1. /\ ~ (a.status < 0 \/ a.orig.nr = "emulated") /\ a.orig.nr # "traceme"
          /\ a.orig.nr # "watch" /\ a.orig.nr # "utime" /\ a.status >= 0
      BY <1>5
    <3>2. translate_syscall_exit(a) = {a} \cup Chained(a)
      BY <1>5, <3>1, Zenon DEF translate_syscall_exit
    <3> QED
      BY <3>2
  <2>2. CASE c = a
    BY <1>5, <2>2 DEF ExitAnswered, SameStage, SameOwner, Void
  <2>3. CASE c \in Chained(a)
    <3>1. PICK nrs \in Chains, forced \in BOOLEAN :
            c = [register_chained_syscall(a, [i \in DOMAIN nrs |-> Regs(nrs[i], "chain", "trap")])
                   EXCEPT !.forced = forced, !.promised = IF forced THEN "proot" ELSE "chain"]
      BY <2>3, Zenon DEF Chained
    <3> DEFINE calls == [i \in DOMAIN nrs |-> Regs(nrs[i], "chain", "trap")]
    <3>2. calls \in Seq(ChainedRegs) /\ calls # <<>>
      BY ChainsAreCalls
    <3>3. c = [[a EXCEPT !.chaining = TRUE, !.chain = a.chain \o calls]
                 EXCEPT !.forced = forced, !.promised = IF forced THEN "proot" ELSE "chain"]
      BY <3>1, Zenon DEF register_chained_syscall
    <3> HIDE DEF calls
    <3>4. a.chain \o calls = calls
      BY <3>2
    <3>5. /\ SamePlace(a, c) /\ c.chaining = TRUE /\ c.chain = a.chain \o calls
          /\ c.forced = forced /\ c.promised = (IF forced THEN "proot" ELSE "chain")
          /\ c.workaround = a.workaround /\ c.rewritten = a.rewritten /\ c.orig = a.orig
          /\ c.cur = a.cur
      BY <3>3 DEF SamePlace, SameMode
    <3> QED
      BY <1>5, <3>2, <3>4, <3>5 DEF ExitChained
  <2> QED
    BY <2>1, <2>2, <2>3
<1>6. CASE a.status = 1 /\ a.orig.nr = "watch"
  <2>1. c = a \/ c = [a EXCEPT !.sysexit_pending = TRUE, !.restart_how = "SYSCALL"]
    <3>1. /\ ~ (a.status < 0 \/ a.orig.nr = "emulated") /\ a.orig.nr # "traceme"
          /\ a.orig.nr # "both" /\ a.orig.nr # "utime" /\ a.status >= 0
      BY <1>6
    <3>2. translate_syscall_exit(a)
          = {a, [a EXCEPT !.sysexit_pending = TRUE, !.restart_how = "SYSCALL"]}
      BY <1>6, <3>1, Zenon DEF translate_syscall_exit
    <3> QED
      BY <3>2
  <2>2. CASE c = a
    BY <1>6, <2>2 DEF ExitAnswered, SameStage, SameOwner, Void
  <2>3. CASE c = [a EXCEPT !.sysexit_pending = TRUE, !.restart_how = "SYSCALL"]
    <3>1. c.changed = a.changed
      BY <2>3
    <3>2. ~ c.changed => c.cur = a.cur
      BY <2>3
    <3> QED
      BY <1>6, <2>3, <3>1, <3>2 DEF ExitAnswered, SameStage, SameOwner, Void
  <2> QED
    BY <2>1, <2>2, <2>3
<1>7. CASE a.status = 1 /\ a.orig.nr = "utime" /\ a.cur.result = "ENOSYS"
  <2> DEFINE b == [a EXCEPT !.status = 0, !.restore = FALSE, !.cur = a.orig, !.rewrite = a.orig]
  <2>1. c = handle_seccomp_event_common(b)
    <3>1. /\ ~ (a.status < 0 \/ a.orig.nr = "emulated") /\ a.orig.nr # "traceme"
          /\ a.orig.nr # "both" /\ a.orig.nr # "watch" /\ a.status >= 0
      BY <1>7
    <3>2. translate_syscall_exit(a) = {fix_and_restart_enosys_syscall(a)}
      BY <1>7, <3>1, Zenon DEF translate_syscall_exit
    <3> QED
      BY <3>2 DEF fix_and_restart_enosys_syscall
  <2>2. /\ SamePlace(a, b) /\ b.chain = a.chain /\ b.chaining = a.chaining /\ b.forced = a.forced
        /\ b.workaround = a.workaround /\ b.orig = a.orig /\ b.rewrite = a.orig
        /\ b.cur = a.orig /\ b.restore = FALSE
    BY DEF SamePlace, SameMode
  <2> HIDE DEF b
  <2>3. b.cur.nr \in {"open", "utime"} /\ b.cur.args = "own" /\ b.cur.sp = "own" /\ ~ b.restore
    BY <1>7, <2>2 DEF Own
  <2>4. /\ SamePlace(b, c) /\ c.status = b.status /\ c.chain = b.chain /\ c.chaining = b.chaining
        /\ c.forced = b.forced /\ c.workaround = b.workaround /\ c.orig = b.orig
        /\ c.rewrite = b.rewrite /\ c.promised = "kernel" /\ c.restart_how = "SYSCALL"
        /\ c.rewritten \in BOOLEAN /\ c.rewritten /\ ~ c.restore /\ c.changed /\ c.cur = c.regs
        /\ c.regs.nr = "path" /\ c.regs.args = "rewritten" /\ c.regs.sp = "own"
        /\ c.regs.pc = "trap"
    BY <2>1, <2>3, Rewrites
  <2> QED
    BY <1>7, <2>2, <2>4 DEF ExitRewritten, SamePlace, SameMode
<1>8. CASE a.status = 1 /\ a.orig.nr \notin Void \cup {"both", "watch"}
           /\ ~ (a.orig.nr = "utime" /\ a.cur.result = "ENOSYS")
  <2>1. c = a
    <3>1. /\ ~ (a.status < 0 \/ a.orig.nr = "emulated") /\ a.orig.nr # "traceme"
          /\ a.orig.nr # "both" /\ a.orig.nr # "watch" /\ a.status >= 0
      BY <1>8 DEF Void
    <3>2. translate_syscall_exit(a) = {a}
      BY <1>8, <3>1, Zenon DEF translate_syscall_exit
    <3> QED
      BY <3>2
  <2> QED
    BY <1>8, <2>1 DEF ExitAnswered, SameStage, SameOwner
<1> QED
  BY <1>3, <1>4, <1>5, <1>6, <1>7, <1>8 DEF Void

\* Only the status of the translation differs.
SameTurn(a, b) ==
  /\ SamePlace(a, b) /\ SameOwner(a, b) /\ b.promised = a.promised /\ b.orig = a.orig
  /\ b.restart_how = a.restart_how /\ b.regs = a.regs /\ b.cur = a.cur
  /\ b.nr = a.nr
  /\ b.restore = a.restore /\ b.changed = a.changed

\* Setting the status leaves the rest of the call.
LEMMA StatusFields ==
  ASSUME NEW a, NEW status
  PROVE  SameTurn(a, SetStatus(a, status)) /\ SetStatus(a, status).status = status
<1> DEFINE b == [a EXCEPT !.status = status]
<1>1. SameTurn(a, b) /\ b.status = status
  BY DEF SamePlace, SameMode, SameOwner, SameTurn
<1> QED
  BY <1>1 DEF SetStatus

\* Without a chain the registers go back to the guest.
LEMMA PopAnswer ==
  ASSUME NEW a, a.rewritten \in BOOLEAN, a.restore, ~ a.chaining, a.cur.pc = "after",
         Own(IF a.rewritten THEN a.rewrite ELSE a.orig),
         ~ a.changed => a.regs = a.cur,
         ~ a.changed /\ ~ a.rewritten => Own(a.regs) /\ a.regs.nr = a.orig.nr,
         NEW d, d = ExitPushed(a)
  PROVE  /\ SamePlace(a, d) /\ d.status = 0 /\ d.promised = a.promised /\ d.chain = a.chain
         /\ d.chaining = a.chaining /\ d.forced = a.forced /\ d.workaround = a.workaround
         /\ d.orig = a.orig /\ d.restart_how = a.restart_how /\ d.rewritten \in BOOLEAN
         /\ ~ d.rewritten /\ Own(d.regs) /\ d.regs.pc = "after" /\ d.regs.result = a.cur.result
         /\ ~ a.rewritten => d.regs.nr = a.orig.nr
         /\ d.nr \in {a.nr, d.regs.nr}
<1> DEFINE b == SetStatus(a, 0)
           no == FALSE
           from == IF b.rewritten THEN b.rewrite ELSE b.orig
<1>1. SameTurn(a, b) /\ b.status = 0
  BY StatusFields
<1>2. ~ b.chaining
  BY <1>1 DEF SameOwner, SameTurn
<1>3. d = Push(b, no)
  BY <1>2, Zenon DEF ExitPushed
<1> HIDE DEF b
<1>4. b.rewritten = a.rewritten /\ from = IF a.rewritten THEN a.rewrite ELSE a.orig
  BY <1>1 DEF SameOwner, SameTurn
<1>5. b.rewritten \in BOOLEAN /\ b.restore /\ ~ no
  BY <1>1, <1>4 DEF SameTurn
<1>6. from = IF b.rewritten THEN b.rewrite ELSE b.orig
  OBVIOUS
<1> HIDE DEF no, from
<1>7. /\ SamePlace(b, d) /\ SameAnswer(b, d) /\ d.rewritten \in BOOLEAN /\ ~ d.rewritten
      /\ d.nr \in {b.nr, d.regs.nr}
      /\ b.changed \/ b.rewritten =>
           /\ d.regs.nr = from.nr /\ d.regs.args = from.args /\ d.regs.sp = from.sp
           /\ d.regs.pc = b.cur.pc /\ d.regs.result = b.cur.result
      /\ ~ (b.changed \/ b.rewritten) => d.regs = b.regs
  BY <1>3, <1>5, <1>6, PopFields
<1>8. Own(d.regs) /\ d.regs.pc = "after" /\ d.regs.result = a.cur.result
      /\ (~ a.rewritten => d.regs.nr = a.orig.nr)
  <2>1. CASE b.changed \/ b.rewritten
    BY <1>1, <1>4, <1>7, <2>1 DEF Own, SameTurn
  <2>2. CASE ~ (b.changed \/ b.rewritten)
    <3>1. ~ a.changed /\ ~ a.rewritten
      BY <1>1, <1>4, <2>2 DEF SameTurn
    <3> QED
      BY <1>1, <1>7, <2>2, <3>1 DEF SameTurn
  <2> QED
    BY <2>1, <2>2
<1>9. /\ SamePlace(a, d) /\ d.status = 0 /\ d.promised = a.promised /\ d.chain = a.chain
      /\ d.chaining = a.chaining /\ d.forced = a.forced /\ d.workaround = a.workaround
      /\ d.orig = a.orig /\ d.restart_how = a.restart_how /\ d.nr \in {a.nr, d.regs.nr}
  BY <1>1, <1>7 DEF SamePlace, SameMode, SameOwner, SameAnswer, SameTurn
<1> QED
  BY <1>7, <1>8, <1>9

\* The next call of the chain takes the place of the one that returned.
MovesOn(a, d) ==
  /\ SamePlace(a, d) /\ d.status = 0 /\ d.promised = a.promised /\ d.chain = Tail(a.chain)
  /\ d.chaining = a.chaining /\ d.forced = a.forced /\ d.workaround = a.workaround
  /\ d.orig = a.orig /\ d.restart_how = "SYSCALL" /\ d.rewritten = a.rewritten /\ d.changed
  /\ d.regs.nr = Head(a.chain).nr /\ d.regs.args = Head(a.chain).args /\ d.regs.pc = "trap"

\* The next call of a chain takes the place of the one that ended (syscall/chain.c).
LEMMA NextOfChain ==
  ASSUME NEW a, a.rewritten \in BOOLEAN, a.chaining, a.chain # <<>>, a.cur.pc = "after",
         NEW d, d = ExitPushed(a)
  PROVE  MovesOn(a, d)
<1> DEFINE b == SetStatus(a, 0)
           regs == [Head(b.chain) EXCEPT !.sp = b.cur.sp, !.pc = "trap", !.result = b.cur.result]
           c == Poke(b, regs)
           e == [c EXCEPT !.restore = FALSE, !.chain = Tail(c.chain), !.restart_how = "SYSCALL"]
           no == FALSE
<1>1. SameTurn(a, b) /\ b.status = 0
  BY StatusFields
<1>2. b.chaining /\ b.chain # <<>>
  BY <1>1 DEF SameOwner, SameTurn
<1>3. d = Push(e, no)
  <2>1. chain_next_syscall(b) = e
    BY <1>2, Zenon DEF chain_next_syscall
  <2> QED
    BY <1>2, <2>1, Zenon DEF ExitPushed
<1> HIDE DEF b
<1>4. regs.nr = Head(b.chain).nr /\ regs.args = Head(b.chain).args /\ regs.pc = "trap"
  OBVIOUS
<1> HIDE DEF regs
<1>5. /\ SamePlace(b, c) /\ SameAnswer(b, c) /\ c.restore = b.restore
      /\ c.regs = b.regs /\ c.nr = b.nr /\ c.rewritten = b.rewritten
      /\ c.cur = regs /\ (c.changed <=> b.changed \/ regs # b.cur)
  BY PokeFields
<1>6. c.changed
  BY <1>1, <1>4, <1>5 DEF SameTurn
<1> HIDE DEF c
<1>7. /\ SamePlace(c, e) /\ e.status = c.status /\ e.promised = c.promised
      /\ e.chain = Tail(c.chain) /\ e.chaining = c.chaining /\ e.forced = c.forced
      /\ e.workaround = c.workaround /\ e.orig = c.orig /\ e.restart_how = "SYSCALL"
      /\ e.rewritten = c.rewritten /\ e.changed = c.changed /\ e.cur = c.cur /\ e.restore = FALSE
  BY DEF SamePlace, SameMode
<1> HIDE DEF e
<1>8. PushStatus(e, no) = 0
  BY DEF PushStatus
<1>9. e.rewritten \in BOOLEAN /\ ~ e.restore /\ e.changed
  BY <1>1, <1>5, <1>6, <1>7 DEF SameOwner, SameTurn
<1> HIDE DEF no
<1>10. /\ SamePlace(e, d) /\ SameAnswer(e, d) /\ d.rewritten = e.rewritten
       /\ (d.changed <=> e.changed)
       /\ e.changed => d.regs = e.cur
  BY <1>3, <1>8, <1>9, PushFields
<1>11. d.changed
  BY <1>9, <1>10, Zenon
<1>12. /\ SamePlace(a, d) /\ d.status = 0 /\ d.promised = a.promised /\ d.chain = Tail(a.chain)
       /\ d.chaining = a.chaining /\ d.forced = a.forced /\ d.workaround = a.workaround
       /\ d.orig = a.orig /\ d.restart_how = "SYSCALL" /\ d.rewritten = a.rewritten
  BY <1>1, <1>5, <1>7, <1>10 DEF SamePlace, SameMode, SameOwner, SameAnswer, SameTurn
<1>13. d.regs = regs /\ b.chain = a.chain
  BY <1>1, <1>5, <1>7, <1>9, <1>10 DEF SameOwner, SameTurn
<1> QED
  BY <1>4, <1>11, <1>12, <1>13 DEF MovesOn

\* The last one gives the registers back, with the result that was forced.
LEMMA EndOfChain ==
  ASSUME NEW a, a.rewritten \in BOOLEAN, ~ a.rewritten, a.restore, a.chaining, a.chain = <<>>,
         a.changed, a.cur.pc = "after", Own(a.orig), NEW d, d = ExitPushed(a)
  PROVE  /\ SamePlace(a, d) /\ d.status = 0 /\ d.promised = a.promised /\ d.chain = <<>>
         /\ ~ d.chaining /\ ~ d.forced /\ d.workaround = a.workaround
         /\ d.rewritten \in BOOLEAN /\ ~ d.rewritten /\ d.restart_how = a.restart_how
         /\ Own(d.regs) /\ d.regs.pc = "after"
         /\ d.regs.result = IF a.forced THEN "proot" ELSE a.cur.result
<1> DEFINE b == SetStatus(a, 0)
           regs == IF b.forced THEN [b.cur EXCEPT !.result = "proot"] ELSE b.cur
           c == Poke(b, regs)
           e == [c EXCEPT !.chaining = FALSE, !.forced = FALSE]
           no == FALSE
           from == IF e.rewritten THEN e.rewrite ELSE e.orig
<1>1. SameTurn(a, b) /\ b.status = 0
  BY StatusFields
<1>2. b.chaining /\ b.chain = <<>> /\ b.changed
  BY <1>1 DEF SameOwner, SameTurn
<1>3. d = Push(e, no)
  <2>1. chain_next_syscall(b) = e
    BY <1>2, Zenon DEF chain_next_syscall, Forces
  <2> QED
    BY <1>2, <2>1, Zenon DEF ExitPushed
<1> HIDE DEF b
<1>4. regs.pc = b.cur.pc /\ regs.result = IF b.forced THEN "proot" ELSE b.cur.result
  OBVIOUS
<1> HIDE DEF regs
<1>5. /\ SamePlace(b, c) /\ SameAnswer(b, c) /\ c.restore = b.restore
      /\ c.regs = b.regs /\ c.nr = b.nr /\ c.rewritten = b.rewritten
      /\ c.cur = regs /\ (c.changed <=> b.changed \/ regs # b.cur)
  BY PokeFields
<1>6. c.changed
  BY <1>2, <1>5
<1> HIDE DEF c
<1>7. /\ SamePlace(c, e) /\ e.status = c.status /\ e.promised = c.promised /\ e.chain = c.chain
      /\ e.chaining = FALSE /\ e.forced = FALSE /\ e.workaround = c.workaround
      /\ e.orig = c.orig /\ e.restart_how = c.restart_how /\ e.rewritten = c.rewritten
      /\ e.changed = c.changed /\ e.cur = c.cur /\ e.restore = c.restore
  BY DEF SamePlace, SameMode
<1>8. from = IF e.rewritten THEN e.rewrite ELSE e.orig
  OBVIOUS
<1> HIDE DEF e
<1>9. e.rewritten \in BOOLEAN /\ e.restore /\ e.changed /\ ~ e.rewritten /\ ~ no
  BY <1>1, <1>5, <1>6, <1>7 DEF SameOwner, SameTurn
<1>10. Own(from)
  BY <1>1, <1>5, <1>7, <1>9 DEF SameAnswer, SameTurn
<1> HIDE DEF no, from
<1>11. /\ SamePlace(e, d) /\ SameAnswer(e, d) /\ d.rewritten \in BOOLEAN /\ ~ d.rewritten
       /\ e.changed \/ e.rewritten =>
            /\ d.regs.nr = from.nr /\ d.regs.args = from.args /\ d.regs.sp = from.sp
            /\ d.regs.pc = e.cur.pc /\ d.regs.result = e.cur.result
  BY <1>3, <1>8, <1>9, PopFields
<1>12. Own(d.regs) /\ d.regs.pc = "after"
       /\ d.regs.result = IF a.forced THEN "proot" ELSE a.cur.result
  BY <1>1, <1>4, <1>5, <1>7, <1>9, <1>10, <1>11 DEF Own, SameOwner, SameTurn
<1>13. /\ SamePlace(a, d) /\ d.status = 0 /\ d.promised = a.promised /\ d.chain = <<>>
       /\ d.chaining = FALSE /\ d.forced = FALSE /\ d.workaround = a.workaround
       /\ d.restart_how = a.restart_how
  BY <1>1, <1>2, <1>5, <1>7, <1>11 DEF SamePlace, SameMode, SameOwner, SameAnswer, SameTurn
<1> QED
  BY <1>11, <1>12, <1>13

\* Nor is anything given back when the call is to be run again.
RunsAgain(a, d) ==
  /\ SamePlace(a, d) /\ d.status = 0 /\ d.promised = a.promised /\ d.chain = a.chain
  /\ d.chaining = a.chaining /\ d.forced = a.forced /\ d.workaround = a.workaround
  /\ d.rewrite = a.rewrite /\ d.restart_how = a.restart_how /\ d.rewritten = a.rewritten
  /\ d.regs = a.cur

\* The exit of a call to be rewritten runs it again.
LEMMA RunAgain ==
  ASSUME NEW a, a.rewritten \in BOOLEAN, ~ a.restore, ~ a.chaining, a.changed,
         NEW d, d = ExitPushed(a)
  PROVE  RunsAgain(a, d)
<1> DEFINE b == SetStatus(a, 0)
           no == FALSE
<1>1. SameTurn(a, b) /\ b.status = 0
  BY StatusFields
<1>2. ~ b.chaining /\ b.changed /\ ~ b.restore /\ b.rewritten \in BOOLEAN
  BY <1>1 DEF SameOwner, SameTurn
<1>3. d = Push(b, no)
  BY <1>2, Zenon DEF ExitPushed
<1> HIDE DEF b
<1>4. PushStatus(b, no) = 0
  BY DEF PushStatus
<1> HIDE DEF no
<1>5. /\ SamePlace(b, d) /\ SameAnswer(b, d) /\ d.rewritten = b.rewritten
      /\ b.changed => d.regs = b.cur
  BY <1>2, <1>3, <1>4, PushFields
<1> QED
  BY <1>1, <1>2, <1>5 DEF SamePlace, SameMode, SameOwner, SameAnswer, SameTurn,
     RunsAgain

\* A call of the guest is answered, followed by a chain, or run again as a newer one.
LEMMA ExitOfCall ==
  ASSUME NEW a, a.rewritten \in BOOLEAN, a.status \in {1, -1}, a.regs.pc = "after",
         Translating(a), NEW d \in ExitStage(a)
  PROVE  /\ SameStage(a, d) /\ d.status = 0 /\ d.rewritten \in BOOLEAN
         /\ d.restart_how \in {a.restart_how, "SYSCALL"}
         /\ \/ /\ NoChain(d) /\ ~ d.rewritten /\ Own(d.regs) /\ d.regs.pc = "after"
               /\ d.promised = a.promised
               /\ d.regs.result = IF a.status = -1 \/ a.orig.nr \in Void THEN "proot"
                                  ELSE a.regs.result
               /\ ~ a.rewritten => d.regs.nr = a.orig.nr
               /\ d.nr \in {a.nr, d.regs.nr}
               /\ ~ (a.status = 1 /\ a.orig.nr = "utime" /\ a.regs.result = "ENOSYS")
            \/ /\ a.status = 1 /\ a.orig.nr = "both" /\ ChainedCall(d)
               /\ d.regs.pc = "trap" /\ d.restart_how = "SYSCALL"
            \/ /\ a.status = 1 /\ a.orig.nr = "utime" /\ RewrittenCall(d)
               /\ d.regs.pc = "trap" /\ d.restart_how = "SYSCALL"
<1> DEFINE h == [a EXCEPT !.restore = TRUE, !.cur = a.regs]
           b == [h EXCEPT !.workaround = "INACTIVE"]
<1>1. NoChain(a) /\ ~ a.chaining
  BY DEF Translating, NoChain
<1>2. PICK c \in translate_syscall_exit(b) : d = ExitPushed(c)
  <2>1. h.chaining = a.chaining
    OBVIOUS
  <2>2. ~ h.chaining
    BY <1>1, <2>1
  <2>3. ExitStage(a) = {ExitPushed(c) : c \in translate_syscall_exit(b)}
    BY <2>2, Zenon DEF ExitStage
  <2> QED
    BY <2>3, Zenon
<1>3. /\ SamePlace(a, b) /\ b.chain = a.chain /\ b.chaining = a.chaining /\ b.forced = a.forced
      /\ b.workaround = "INACTIVE" /\ b.rewritten = a.rewritten /\ b.rewrite = a.rewrite
      /\ b.orig = a.orig /\ b.status = a.status /\ b.promised = a.promised
      /\ b.regs = a.regs /\ b.cur = a.regs /\ b.restart_how = a.restart_how /\ b.restore = TRUE
      /\ b.changed = a.changed /\ b.nr = a.nr
  BY DEF SamePlace, SameMode
<1> HIDE DEF b
<1>4. /\ b.cur = b.regs /\ b.rewritten \in BOOLEAN /\ b.status \in {1, -1} /\ b.chain = <<>>
      /\ b.orig.nr = "utime" => Own(b.orig)
  BY <1>1, <1>3 DEF Translating, NoChain, Own
<1>5. ExitAnswered(b, c) \/ ExitChained(b, c) \/ ExitRewritten(b, c)
  BY <1>2, <1>4, ExitOutcomes
<1>6. CASE ExitAnswered(b, c)
  <2>1. /\ SameStage(a, c) /\ SameOwner(b, c) /\ c.regs = a.regs /\ c.orig = a.orig
        /\ c.nr = a.nr /\ c.status = a.status /\ c.promised = a.promised /\ c.cur.pc = "after"
        /\ c.cur.result = (IF a.status = -1 \/ a.orig.nr \in Void THEN "proot" ELSE a.regs.result)
        /\ ~ c.changed => c.cur = a.regs
        /\ c.restart_how \in {a.restart_how, "SYSCALL"}
        /\ ~ (a.status = 1 /\ a.orig.nr = "utime" /\ a.regs.result = "ENOSYS")
    BY <1>3, <1>6 DEF ExitAnswered, SameStage, SamePlace, SameMode
  <2>2. c.restore /\ (~ c.changed => ~ a.changed)
    BY <1>3, <1>6 DEF ExitAnswered
  <2>3. /\ c.rewritten \in BOOLEAN /\ c.rewritten = a.rewritten /\ ~ c.chaining
        /\ c.rewrite = a.rewrite
    BY <1>1, <1>3, <2>1 DEF SameOwner
  <2>4. Own(IF c.rewritten THEN c.rewrite ELSE c.orig)
    BY <2>1, <2>3 DEF Translating, Own
  <2>5. ~ c.changed => c.regs = c.cur
    BY <2>1
  <2>6. ~ c.changed /\ ~ c.rewritten => Own(c.regs) /\ c.regs.nr = c.orig.nr
    BY <2>1, <2>2, <2>3 DEF Translating, Own
  <2>7. /\ SamePlace(c, d) /\ d.status = 0 /\ d.promised = c.promised /\ d.chain = c.chain
        /\ d.chaining = c.chaining /\ d.forced = c.forced /\ d.workaround = c.workaround
        /\ d.orig = c.orig /\ d.restart_how = c.restart_how /\ d.rewritten \in BOOLEAN
        /\ ~ d.rewritten /\ Own(d.regs) /\ d.regs.pc = "after" /\ d.regs.result = c.cur.result
        /\ ~ c.rewritten => d.regs.nr = c.orig.nr
        /\ d.nr \in {c.nr, d.regs.nr}
    BY <1>2, <2>1, <2>2, <2>3, <2>4, <2>5, <2>6, PopAnswer
  <2>8. NoChain(d)
    BY <1>1, <1>3, <2>1, <2>7 DEF NoChain, SameOwner
  <2>9. SameStage(a, d)
    BY <2>1, <2>7 DEF SameStage, SamePlace, SameMode
  <2> QED
    BY <2>1, <2>3, <2>7, <2>8, <2>9
<1>7. CASE ExitChained(b, c)
  <2>1. /\ a.status = 1 /\ a.orig.nr = "both" /\ SamePlace(a, c) /\ c.chaining
        /\ c.chain \in Seq(ChainedRegs) /\ c.chain # <<>>
        /\ c.promised = (IF c.forced THEN "proot" ELSE "chain")
        /\ c.workaround = "INACTIVE" /\ c.rewritten = a.rewritten /\ c.orig = a.orig
        /\ c.cur.pc = "after"
    BY <1>3, <1>7 DEF ExitChained, SamePlace, SameMode
  <2>2. ~ a.rewritten /\ Own(a.orig)
    BY <2>1 DEF Translating, Own
  <2>3. c.rewritten \in BOOLEAN
    BY <2>1
  <2>4. MovesOn(c, d)
    BY <1>2, <2>1, <2>3, NextOfChain
  <2>5. Head(c.chain) \in ChainedRegs /\ Tail(c.chain) \in Seq(ChainedRegs)
    BY <2>1
  <2>6. d.regs.nr \in {"plain", "both"} /\ d.regs.args = "chain"
    BY <2>4, <2>5 DEF ChainedRegs, MovesOn
  <2>7. d.promised = (IF d.forced THEN "proot" ELSE "chain")
    BY <2>1, <2>4 DEF MovesOn
  <2>8. d.chaining /\ ~ d.rewritten
    BY <2>1, <2>2, <2>4 DEF MovesOn
  <2>9. ChainedCall(d)
    BY <2>1, <2>2, <2>4, <2>5, <2>6, <2>7, <2>8 DEF ChainedCall, InChain, MovesOn
  <2>10. SameStage(a, d)
    BY <2>1, <2>4 DEF SameStage, SamePlace, SameMode, MovesOn
  <2> QED
    BY <2>1, <2>3, <2>4, <2>9, <2>10 DEF MovesOn
<1>8. CASE ExitRewritten(b, c)
  <2>1. /\ a.status = 1 /\ a.orig.nr = "utime" /\ SamePlace(a, c) /\ c.chain = a.chain
        /\ c.chaining = a.chaining /\ c.forced = a.forced /\ c.workaround = "INACTIVE"
        /\ c.rewrite = a.orig /\ c.promised = "kernel" /\ c.restart_how = "SYSCALL"
        /\ c.rewritten \in BOOLEAN /\ c.rewritten /\ ~ c.restore /\ c.changed /\ c.cur = c.regs
        /\ c.regs.nr = "path" /\ c.regs.args = "rewritten"
        /\ c.regs.sp = "own" /\ c.regs.pc = "trap"
    BY <1>3, <1>8 DEF ExitRewritten, SamePlace, SameMode
  <2>2. Own(a.orig) /\ ~ c.chaining
    BY <1>1, <2>1 DEF Translating, Own, NoChain
  <2>3. RunsAgain(c, d)
    <3>1. c.rewritten \in BOOLEAN /\ ~ c.restore /\ ~ c.chaining /\ c.changed
      BY <2>1, <2>2
    <3> QED
      BY <1>2, <3>1, RunAgain
  <2>4. NoChain(d)
    BY <1>1, <2>1, <2>3 DEF NoChain, RunsAgain
  <2>5. RewrittenCall(d)
    BY <2>1, <2>2, <2>3, <2>4 DEF RewrittenCall, RunsAgain
  <2>6. SameStage(a, d)
    BY <2>1, <2>3 DEF SameStage, SamePlace, SameMode, RunsAgain
  <2> QED
    BY <2>1, <2>3, <2>5, <2>6 DEF RunsAgain
<1> QED
  BY <1>5, <1>6, <1>7, <1>8

\* After a call of PRoot's own comes the next one, or the answer.
LEMMA ExitOfChain ==
  ASSUME NEW a, a.rewritten \in BOOLEAN, a.regs.pc = "after", Returning(a), ~ Translating(a),
         NEW d \in ExitStage(a)
  PROVE  /\ SameStage(a, d) /\ d.seccomp = a.seccomp /\ d.status = 0 /\ d.rewritten \in BOOLEAN
         /\ d.restart_how \in {a.restart_how, "SYSCALL"}
         /\ \/ d.regs.pc = "after" /\ Answer(d)
            \/ d.regs.pc = "trap" /\ d.restart_how = "SYSCALL" /\ Prompted(d)
<1> DEFINE h == [a EXCEPT !.restore = TRUE, !.cur = a.regs]
           b == [h EXCEPT !.workaround = "INACTIVE"]
           e == [h EXCEPT !.workaround = IF a.workaround = "FAULTY_CALL" THEN "REPLACED_CALL"
                                         ELSE a.workaround]
<1>1. /\ InChain(a) /\ a.chaining
      /\ (a.status = 1 /\ (ChainedCall(a) \/ ReplacingCall(a))) \/ FaultyCall(a)
  BY DEF Returning, ChainedCall, ReplacingCall, FaultyCall, InChain
<1>2. CASE ReplacingCall(a) /\ a.status = 1
  <2>1. PICK c \in translate_syscall_exit(b) : d = ExitPushed(c)
    <3>1. h.workaround = "REPLACED_CALL"
      BY <1>2 DEF ReplacingCall
    <3>2. ExitStage(a) = {ExitPushed(c) : c \in translate_syscall_exit(b)}
      BY <3>1, Zenon DEF ExitStage
    <3> QED
      BY <3>2, Zenon
  <2>2. /\ SamePlace(a, b) /\ b.chain = a.chain /\ b.forced = a.forced
        /\ b.workaround = "INACTIVE" /\ b.rewritten = a.rewritten
        /\ b.orig = a.orig /\ b.status = a.status /\ b.promised = a.promised
        /\ b.regs = a.regs /\ b.cur = a.regs /\ b.restart_how = a.restart_how
    BY DEF SamePlace, SameMode
  <2>3. b.restore = TRUE /\ b.chaining = a.chaining /\ b.changed = a.changed
    OBVIOUS
  <2> HIDE DEF b
  <2>4. b.restore /\ b.chaining /\ b.changed
    BY <1>1, <2>3 DEF InChain
  <2>5. /\ b.cur = b.regs /\ b.rewritten \in BOOLEAN /\ b.status \in {1, -1} /\ b.chain = <<>>
        /\ b.orig.nr = "renamed" /\ (b.orig.nr = "utime" => Own(b.orig))
    BY <1>2, <2>2 DEF ReplacingCall
  <2>6. ExitAnswered(b, c)
    <3>1. ExitAnswered(b, c) \/ ExitChained(b, c) \/ ExitRewritten(b, c)
      BY <2>1, <2>5, ExitOutcomes
    <3> QED
      BY <2>5, <3>1 DEF ExitChained, ExitRewritten
  <2>7. /\ SameStage(b, c) /\ c.chain = <<>> /\ c.rewritten = a.rewritten /\ c.orig = a.orig
        /\ c.promised = a.promised /\ c.cur.pc = "after" /\ c.cur.result = a.regs.result
        /\ c.restart_how \in {a.restart_how, "SYSCALL"} /\ c.workaround = "INACTIVE"
        /\ c.forced = a.forced
    BY <1>2, <2>2, <2>5, <2>6 DEF ExitAnswered, SameOwner, ReplacingCall, Void
  <2>8. c.restore /\ c.chaining /\ c.changed
    BY <2>4, <2>6 DEF ExitAnswered, SameOwner
  <2>9. c.rewritten \in BOOLEAN /\ ~ c.rewritten /\ ~ c.forced /\ Own(c.orig)
    BY <1>1, <1>2, <2>7 DEF InChain, ReplacingCall
  <2>10. /\ SamePlace(c, d) /\ d.status = 0 /\ d.promised = c.promised /\ d.chain = <<>>
         /\ ~ d.chaining /\ ~ d.forced /\ d.workaround = c.workaround
         /\ d.rewritten \in BOOLEAN /\ ~ d.rewritten /\ d.restart_how = c.restart_how
         /\ Own(d.regs) /\ d.regs.pc = "after"
         /\ d.regs.result = IF c.forced THEN "proot" ELSE c.cur.result
    BY <2>1, <2>7, <2>8, <2>9, EndOfChain
  <2>11. a.regs.result = a.promised
    BY <1>1, <1>2 DEF Returning, ReplacingCall, ChainedCall, FaultyCall
  <2>12. Answer(d)
    BY <2>7, <2>9, <2>10, <2>11 DEF Answer, NoChain, Own
  <2>13. SameStage(a, d) /\ d.seccomp = a.seccomp
    BY <2>2, <2>5, <2>7, <2>10 DEF SameStage, SamePlace, SameMode
  <2> QED
    BY <2>7, <2>10, <2>12, <2>13
<1>3. CASE (a.status = 1 /\ ChainedCall(a)) \/ FaultyCall(a)
  <2>1. d = ExitPushed(e)
    <3>1. h.workaround = a.workaround /\ h.chaining = a.chaining
      OBVIOUS
    <3>2. h.workaround # "REPLACED_CALL" /\ h.chaining
      BY <1>1, <1>3, <3>1 DEF ChainedCall, FaultyCall
    <3>3. ExitStage(a) = {ExitPushed([h EXCEPT !.workaround = IF h.workaround = "FAULTY_CALL"
                                        THEN "REPLACED_CALL" ELSE h.workaround])}
      BY <3>2, Zenon DEF ExitStage
    <3> QED
      BY <3>1, <3>3, Zenon
  <2>2. /\ SamePlace(a, e) /\ e.chain = a.chain /\ e.forced = a.forced
        /\ e.workaround = (IF a.workaround = "FAULTY_CALL" THEN "REPLACED_CALL" ELSE a.workaround)
        /\ e.rewritten = a.rewritten /\ e.orig = a.orig /\ e.promised = a.promised
        /\ e.cur = a.regs /\ e.restart_how = a.restart_how
    BY DEF SamePlace, SameMode
  <2>3. e.restore = TRUE /\ e.chaining = a.chaining /\ e.changed = a.changed
    OBVIOUS
  <2> HIDE DEF e
  <2>4. e.restore /\ e.chaining /\ e.changed
    BY <1>1, <2>3 DEF InChain
  <2>5. /\ e.rewritten \in BOOLEAN /\ ~ e.rewritten /\ Own(e.orig) /\ Own(a.orig)
        /\ e.cur.pc = "after"
    BY <1>1, <2>2 DEF InChain
  <2>6. CASE a.chain # <<>>
    <3>1. MovesOn(e, d)
      BY <2>1, <2>2, <2>4, <2>5, <2>6, NextOfChain
    <3>2. InChain(d)
      BY <2>2, <2>4, <2>5, <3>1 DEF MovesOn, InChain
    <3>3. SameStage(a, d) /\ d.seccomp = a.seccomp /\ d.status = 0 /\ d.rewritten \in BOOLEAN
      BY <2>2, <2>5, <3>1 DEF MovesOn, SameStage, SamePlace, SameMode
    <3>4. CASE ChainedCall(a)
      <4>1. Head(a.chain) \in ChainedRegs /\ Tail(a.chain) \in Seq(ChainedRegs)
        BY <2>6, <3>4 DEF ChainedCall
      <4>2. d.regs.nr \in {"plain", "both"} /\ d.regs.args = "chain"
        BY <2>2, <3>1, <4>1 DEF MovesOn, ChainedRegs
      <4>3. d.chain \in Seq(ChainedRegs) /\ d.workaround = "INACTIVE"
        BY <2>2, <3>1, <3>4, <4>1 DEF MovesOn, ChainedCall
      <4>4. d.promised = (IF d.forced THEN "proot" ELSE "chain")
        BY <2>2, <3>1, <3>4 DEF MovesOn, ChainedCall
      <4>5. ChainedCall(d)
        BY <3>2, <4>2, <4>3, <4>4 DEF ChainedCall
      <4> QED
        BY <3>1, <3>3, <4>5 DEF MovesOn, Prompted
    <3>5. CASE FaultyCall(a)
      <4>1. Head(a.chain) = a.chain[1] /\ Tail(a.chain) = <<>>
        <5> DEFINE call == a.chain[1]
        <5>1. a.chain = <<call>>
          BY <3>5 DEF FaultyCall
        <5> HIDE DEF call
        <5>2. Head(a.chain) = call /\ Tail(a.chain) = <<>>
          BY <5>1
        <5> QED
          BY <5>2 DEF call
      <4>2. d.regs.nr = "plain" /\ d.regs.args = "translated" /\ d.chain = <<>>
        BY <2>2, <3>1, <3>5, <4>1 DEF MovesOn, FaultyCall
      <4>3. ~ d.forced
        BY <2>2, <3>1, <3>5 DEF MovesOn, FaultyCall
      <4>4. d.workaround = "REPLACED_CALL" /\ d.promised = "kernel" /\ d.orig.nr = "renamed"
        BY <2>2, <3>1, <3>5 DEF MovesOn, FaultyCall
      <4>5. ReplacingCall(d)
        BY <3>2, <4>2, <4>3, <4>4 DEF ReplacingCall
      <4> QED
        BY <3>1, <3>3, <4>5 DEF MovesOn, Prompted
    <3> QED
      BY <1>3, <3>4, <3>5
  <2>7. CASE a.chain = <<>>
    <3>1. ChainedCall(a)
      BY <1>3, <2>7 DEF FaultyCall
    <3>2. /\ SamePlace(e, d) /\ d.status = 0 /\ d.promised = e.promised /\ d.chain = <<>>
          /\ ~ d.chaining /\ ~ d.forced /\ d.workaround = e.workaround
          /\ d.rewritten \in BOOLEAN /\ ~ d.rewritten /\ d.restart_how = e.restart_how
          /\ Own(d.regs) /\ d.regs.pc = "after"
          /\ d.regs.result = IF e.forced THEN "proot" ELSE e.cur.result
      BY <2>1, <2>2, <2>4, <2>5, <2>7, EndOfChain
    <3>3. a.regs.result = "chain"
      BY <1>1, <3>1 DEF Returning, ChainedCall, ReplacingCall, FaultyCall
    <3>4. e.workaround = "INACTIVE" /\ e.promised = IF e.forced THEN "proot" ELSE "chain"
      BY <2>2, <3>1 DEF ChainedCall
    <3>5. Answer(d)
      BY <2>2, <3>2, <3>3, <3>4 DEF Answer, NoChain, Own
    <3>6. SameStage(a, d) /\ d.seccomp = a.seccomp
      BY <2>2, <3>2 DEF SameStage, SamePlace, SameMode
    <3> QED
      BY <2>2, <3>2, <3>5, <3>6
  <2> QED
    BY <2>6, <2>7
<1> QED
  BY <1>1, <1>2, <1>3

\* translate_syscall_exit() and what surrounds it: the answer, or a call to be prompted.
LEMMA ExitReturning ==
  ASSUME NEW a, a.rewritten \in BOOLEAN, a.status \in {1, -1}, a.regs.pc = "after", Returning(a),
         NEW d \in ExitStage(a)
  PROVE  /\ SameStage(a, d) /\ d.status = 0 /\ d.rewritten \in BOOLEAN
         /\ d.restart_how \in {a.restart_how, "SYSCALL"}
         /\ \/ d.regs.pc = "after" /\ Answer(d)
            \/ d.regs.pc = "trap" /\ d.restart_how = "SYSCALL" /\ Prompted(d)
         /\ d.seccomp = a.seccomp \/ Translating(a)
<1>1. CASE Translating(a)
  <2>1. /\ SameStage(a, d) /\ d.status = 0 /\ d.rewritten \in BOOLEAN
        /\ d.restart_how \in {a.restart_how, "SYSCALL"}
        /\ \/ /\ NoChain(d) /\ ~ d.rewritten /\ Own(d.regs) /\ d.regs.pc = "after"
              /\ d.promised = a.promised
              /\ d.regs.result = IF a.status = -1 \/ a.orig.nr \in Void THEN "proot"
                                 ELSE a.regs.result
              /\ ~ (a.status = 1 /\ a.orig.nr = "utime" /\ a.regs.result = "ENOSYS")
           \/ ChainedCall(d) /\ d.regs.pc = "trap" /\ d.restart_how = "SYSCALL"
           \/ RewrittenCall(d) /\ d.regs.pc = "trap" /\ d.restart_how = "SYSCALL"
    BY <1>1, ExitOfCall
  <2>2. ~ (a.status = 1 /\ (ChainedCall(a) \/ ReplacingCall(a))) /\ ~ FaultyCall(a)
    BY <1>1 DEF Translating, NoChain, ChainedCall, ReplacingCall, FaultyCall, InChain
  <2>3. a.promised = IF a.status = -1 \/ a.orig.nr \in Void THEN "proot" ELSE "kernel"
    BY <1>1 DEF Translating
  <2>4. a.status = 1 /\ a.orig.nr \notin Void =>
          a.regs.result = "kernel" \/ (a.orig.nr = "utime" /\ a.regs.result = "ENOSYS")
    BY <2>2 DEF Returning
  <2> QED
    BY <1>1, <2>1, <2>3, <2>4 DEF Prompted, Answer, Own
<1> QED
  BY <1>1, ExitOfChain

\* The exit of a call about which a SIGSYS is still to come.
LEMMA ExitDoomed ==
  ASSUME NEW a, a.rewritten \in BOOLEAN, a.status \in {1, -1}, a.regs.pc = "after", Translating(a),
         a.promised = "proot" \/ (a.status = 1 /\ a.nr = a.orig.nr /\ a.nr \in {"open", "gone"}),
         NEW d \in ExitStage(a)
  PROVE  /\ SameStage(a, d) /\ d.status = 0 /\ d.rewritten \in BOOLEAN /\ ~ d.rewritten
         /\ d.restart_how \in {a.restart_how, "SYSCALL"} /\ NoChain(d) /\ d.regs.pc = "after"
         /\ Own(d.regs)
         /\ a.promised = "proot" => Answer(d)
         /\ a.promised # "proot" => d.regs.nr = a.orig.nr /\ d.nr \in {a.nr, a.orig.nr}
<1>1. /\ SameStage(a, d) /\ d.status = 0 /\ d.rewritten \in BOOLEAN
      /\ d.restart_how \in {a.restart_how, "SYSCALL"}
      /\ \/ /\ NoChain(d) /\ ~ d.rewritten /\ Own(d.regs) /\ d.regs.pc = "after"
            /\ d.promised = a.promised
            /\ d.regs.result = IF a.status = -1 \/ a.orig.nr \in Void THEN "proot"
                               ELSE a.regs.result
            /\ ~ a.rewritten => d.regs.nr = a.orig.nr
            /\ d.nr \in {a.nr, d.regs.nr}
         \/ a.status = 1 /\ a.orig.nr = "both"
         \/ a.status = 1 /\ a.orig.nr = "utime"
  BY ExitOfCall
<1>2. ~ (a.status = 1 /\ a.orig.nr \in {"both", "utime"})
  BY DEF Translating, Void
<1>3. a.promised = "proot" => a.status = -1 \/ a.orig.nr \in Void
  BY DEF Translating
<1>4. a.promised # "proot" => ~ a.rewritten
  BY DEF Translating
<1> QED
  BY <1>1, <1>2, <1>3, <1>4 DEF Answer, Own

(***************************************************************************)
(* The stops that PRoot handles.                                           *)
(***************************************************************************)

(***************************************************************************)
(* One iteration of PRoot's event loop.                                    *)
(***************************************************************************)
\* The same tracee, but for how it is to be restarted.
Woken(a, b) == SameCall(a, b) /\ SameMode(a, b) /\ b.todo = a.todo /\ b.stop = a.stop

\* What a stop never changes.
SameHost(a, b) ==
  /\ b.kernel = a.kernel /\ b.left = a.left /\ b.ran = a.ran /\ b.todo = a.todo
  /\ b.aborted = a.aborted /\ b.detected = a.detected /\ b.after_enter = a.after_enter

\* After translate_syscall(): the next SIGSYS may be expected, the filter disabled.
Finished(c, b) ==
  /\ SameCall(c, b) /\ SameHost(c, b) /\ b.already_handled_enter = c.already_handled_enter
  /\ b.seccomp = IF c.seccomp = "DISABLING" THEN "DISABLED" ELSE c.seccomp
  /\ b.restart_how = IF c.seccomp = "DISABLING" THEN "SYSCALL" ELSE c.restart_how

\* restart_tracee().
Resumes(b, r) ==
  /\ SameCall(b, r) /\ SameHost(b, r) /\ b.seccomp = r.seccomp /\ r.skip_next = b.skip_next
  /\ r.already_handled_enter = b.already_handled_enter
  /\ r.last_restart_how = b.restart_how /\ r.stop = "none"

\* restart_tracee() forgets the stop and how the tracee is to be restarted.
LEMMA Restarts ==
  ASSUME NEW b, NEW r,
         r = [b EXCEPT !.stop = "none", !.last_restart_how = b.restart_how, !.restart_how = "none"]
  PROVE  Resumes(b, r)
BY DEF Resumes, SameCall, SameHost

\* The event loop first chooses how the tracee will be restarted.
LEMMA Wakes ==
  ASSUME NEW how, NEW w, w = [s EXCEPT !.restart_how = how]
  PROVE  Woken(s, w) /\ w.restart_how = how /\ w.sysexit_pending = s.sysexit_pending
BY DEF Woken, SameCall, SameMode

\* The end of a system call stop: skip_next, the signals kept, the filter disabled.
LEMMA Finishes ==
  ASSUME NEW c, NEW first, NEW b, b = Disabled(Redeliver(SkipNext(first, c)))
  PROVE  /\ Finished(c, b)
         /\ ~ first => b.skip_next = c.skip_next
         /\ first /\ b.skip_next => c.after_enter /\ c.cur.nr = "void"
         /\ first /\ c.after_enter /\ c.cur.nr = "void" => b.skip_next
<1> DEFINE e == SkipNext(first, c)
           f == Redeliver(e)
<1>1. b = Disabled(f)
  OBVIOUS
<1>2. /\ SameCall(c, e) /\ SameHost(c, e) /\ e.already_handled_enter = c.already_handled_enter
      /\ e.seccomp = c.seccomp /\ e.restart_how = c.restart_how
      /\ ~ first => e.skip_next = c.skip_next
      /\ first => e.skip_next = (c.after_enter /\ c.cur.nr = "void")
  <2>1. CASE first
    <3>1. e = [c EXCEPT !.skip_next = c.after_enter /\ c.cur.nr = "void"]
      BY <2>1 DEF SkipNext
    <3> HIDE DEF e
    <3> QED
      BY <2>1, <3>1 DEF SameCall, SameHost
  <2>2. CASE ~ first
    <3>1. e = c
      BY <2>2 DEF SkipNext
    <3> QED
      BY <2>2, <3>1 DEF SameCall, SameHost
  <2> QED
    BY <2>1, <2>2
<1> HIDE DEF e
<1>3. /\ SameCall(e, f) /\ SameHost(e, f) /\ f.already_handled_enter = e.already_handled_enter
      /\ f.seccomp = e.seccomp /\ f.restart_how = e.restart_how /\ f.skip_next = e.skip_next
  <2> DEFINE P == e.suppressed # {} /\ ~ e.chaining /\ ~ e.rewritten
  <2>1. CASE P
    <3>1. f = [e EXCEPT !.pending = e.pending \cup e.suppressed, !.suppressed = {}]
      BY <2>1 DEF Redeliver
    <3> HIDE DEF f
    <3> QED
      BY <3>1 DEF SameCall, SameHost
  <2>2. CASE ~ P
    <3>1. f = e
      BY <2>2 DEF Redeliver
    <3> QED
      BY <3>1 DEF SameCall, SameHost
  <2> QED
    BY <2>1, <2>2
<1> HIDE DEF f
<1>4. /\ SameCall(f, b) /\ SameHost(f, b) /\ b.already_handled_enter = f.already_handled_enter
      /\ b.seccomp = (IF f.seccomp = "DISABLING" THEN "DISABLED" ELSE f.seccomp)
      /\ b.restart_how = (IF f.seccomp = "DISABLING" THEN "SYSCALL" ELSE f.restart_how)
      /\ b.skip_next = f.skip_next
  <2>1. CASE f.seccomp = "DISABLING"
    <3>1. b = [f EXCEPT !.restart_how = "SYSCALL", !.seccomp = "DISABLED"]
      BY <1>1, <2>1 DEF Disabled
    <3> QED
      BY <2>1, <3>1 DEF SameCall, SameHost
  <2>2. CASE f.seccomp # "DISABLING"
    <3>1. b = f
      BY <1>1, <2>2 DEF Disabled
    <3> QED
      BY <2>2, <3>1 DEF SameCall, SameHost
  <2> QED
    BY <2>1, <2>2
<1>5. Finished(c, b)
  BY <1>2, <1>3, <1>4 DEF Finished, SameCall, SameHost
<1>6. b.skip_next = e.skip_next
  BY <1>3, <1>4
<1>7. first => b.skip_next = (c.after_enter /\ c.cur.nr = "void")
  BY <1>2, <1>6
<1> QED
  BY <1>2, <1>5, <1>6, <1>7

\* A stop at the entry or the exit of a call.
LEMMA SyscallStops ==
  ASSUME ModeOK(s), s.stop \in {"enter", "exit"}, NEW b \in Outcomes(s)
  PROVE  \E x : /\ Woken(s, x)
                /\ x.restart_how = IF s.seccomp = "ENABLED" /\ s.status # 0 THEN "CONT" ELSE "SYSCALL"
                /\ ~ s.already_handled_enter =>
                     \E c \in translate_syscall(x) : b = Disabled(Redeliver(SkipNext(InSysenter(x), c)))
                /\ s.already_handled_enter =>
                     b = Disabled([Asserts(x, ~ InSysenter(x) /\ ~ x.after_enter)
                                     EXCEPT !.already_handled_enter = FALSE, !.restart_how = "SYSCALL"])
<1> DEFINE w == [s EXCEPT !.restart_how = ByDefault(s)]
           x == IF w.seccomp = "ENABLED"
                THEN [w EXCEPT !.restart_how = IF InSysenter(w) THEN "SYSCALL" ELSE "CONT",
                               !.sysexit_pending = InSysenter(w)]
                ELSE w
<1>1. b \in syscall_stop(w)
  BY Zenon DEF Outcomes
<1>2. Woken(s, w) /\ w.restart_how = ByDefault(s)
  BY Wakes
<1> HIDE DEF w
<1>3. w.seccomp \in {"ENABLED", "DISABLED"} /\ w.seccomp = s.seccomp
  BY <1>2 DEF ModeOK, Woken, SameMode
<1>4. /\ Woken(w, x)
      /\ x.restart_how = IF s.seccomp = "ENABLED" /\ s.status # 0 THEN "CONT" ELSE "SYSCALL"
  <2>1. CASE w.seccomp = "ENABLED"
    <3> DEFINE how == IF InSysenter(w) THEN "SYSCALL" ELSE "CONT"
    <3>1. x = [w EXCEPT !.restart_how = how, !.sysexit_pending = InSysenter(w)]
      BY <2>1
    <3>2. how = IF s.status # 0 THEN "CONT" ELSE "SYSCALL"
      BY <1>2 DEF InSysenter, Woken, SameCall
    <3> HIDE DEF x, how
    <3>3. Woken(w, x) /\ x.restart_how = how
      BY <3>1 DEF Woken, SameCall, SameMode
    <3> QED
      BY <1>3, <2>1, <3>2, <3>3
  <2>2. CASE w.seccomp # "ENABLED"
    <3>1. x = w
      BY <2>2
    <3>2. ByDefault(s) = "SYSCALL"
      BY <1>3, <2>2 DEF ByDefault
    <3> HIDE DEF x
    <3> QED
      BY <1>2, <1>3, <2>2, <3>1, <3>2 DEF Woken, SameCall, SameMode
  <2> QED
    BY <2>1, <2>2
<1>5. /\ ~ w.already_handled_enter =>
           \E c \in translate_syscall(x) : b = Disabled(Redeliver(SkipNext(InSysenter(w), c)))
      /\ w.already_handled_enter =>
           b = Disabled([Asserts(x, ~ InSysenter(x) /\ ~ x.after_enter)
                           EXCEPT !.already_handled_enter = FALSE, !.restart_how = "SYSCALL"])
  <2>1. w.seccomp # "DISABLING"
    BY <1>3
  <2>2. syscall_stop(w) =
          IF ~ w.already_handled_enter
          THEN {Disabled(Redeliver(SkipNext(InSysenter(w), c))) : c \in translate_syscall(x)}
          ELSE {Disabled([Asserts(x, ~ InSysenter(x) /\ ~ x.after_enter)
                            EXCEPT !.already_handled_enter = FALSE, !.restart_how = "SYSCALL"])}
    BY <2>1, Zenon DEF syscall_stop
  <2> HIDE DEF x
  <2> QED
    BY <1>1, <2>2, Zenon
<1> HIDE DEF x
<1>6. Woken(s, x) /\ w.already_handled_enter = s.already_handled_enter /\ w.status = x.status
  BY <1>2, <1>4 DEF Woken, SameCall, SameMode
<1>7. InSysenter(w) = InSysenter(x)
  BY <1>6 DEF InSysenter
<1> QED
  BY <1>4, <1>5, <1>6, <1>7, Zenon

\* The assertions of the event loop hold.
Asserted(x, g) ==
  /\ ~ g.aborted /\ SameCall(x, g) /\ g.kernel = x.kernel /\ g.left = x.left /\ g.ran = x.ran
  /\ g.seccomp = x.seccomp /\ g.detected = x.detected /\ g.after_enter = x.after_enter
  /\ g.last_restart_how = x.last_restart_how /\ g.skip_next = x.skip_next
  /\ g.already_handled_enter = x.already_handled_enter /\ g.todo = x.todo /\ g.stop = x.stop
  /\ g.restart_how = x.restart_how /\ g.sysexit_pending = x.sysexit_pending

\* An assertion that holds changes nothing.
LEMMA Aborts ==
  ASSUME NEW x, NEW aborted, NEW g, g = [x EXCEPT !.aborted = aborted]
  PROVE  /\ g.aborted = aborted /\ SameCall(x, g) /\ g.kernel = x.kernel /\ g.left = x.left
         /\ g.ran = x.ran /\ g.seccomp = x.seccomp /\ g.detected = x.detected
         /\ g.after_enter = x.after_enter /\ g.last_restart_how = x.last_restart_how
         /\ g.skip_next = x.skip_next /\ g.already_handled_enter = x.already_handled_enter
         /\ g.todo = x.todo /\ g.stop = x.stop
         /\ g.restart_how = x.restart_how /\ g.sysexit_pending = x.sysexit_pending
BY DEF SameCall

\* assert() of what holds.
LEMMA AssertHolds ==
  ASSUME NEW x, NEW ok, ok, ~ x.aborted, NEW g, g = Asserts(x, ok)
  PROVE  Asserted(x, g)
<1> DEFINE aborted == x.aborted \/ ~ ok
<1>1. g = [x EXCEPT !.aborted = aborted]
  BY Zenon DEF Asserts
<1>2. ~ aborted
  OBVIOUS
<1> HIDE DEF aborted
<1>3. /\ g.aborted = aborted /\ SameCall(x, g) /\ g.kernel = x.kernel /\ g.left = x.left
      /\ g.ran = x.ran /\ g.seccomp = x.seccomp /\ g.detected = x.detected
      /\ g.after_enter = x.after_enter /\ g.last_restart_how = x.last_restart_how
      /\ g.skip_next = x.skip_next /\ g.already_handled_enter = x.already_handled_enter
      /\ g.todo = x.todo /\ g.stop = x.stop
      /\ g.restart_how = x.restart_how /\ g.sysexit_pending = x.sysexit_pending
  BY ONLY <1>1, Aborts
<1> QED
  BY <1>2, <1>3, Zenon DEF Asserted

\* Where the tracee goes on after its entry was handled.
Onwards(d, r) ==
  /\ r.stop = "none" /\ r.last_restart_how = "SYSCALL"
  /\ \/ /\ r.kernel.newer /\ r.todo = FromSeccomp /\ ~ r.already_handled_enter
        /\ r.skip_next => d.cur.nr = "void"
        /\ Knows(r) /\ d.cur.nr = "void" => r.skip_next
     \/ r.todo = FromPerform /\ ~ r.already_handled_enter /\ Knows(r) /\ ~ r.skip_next
     \/ /\ ~ r.kernel.newer /\ r.todo = FromEnter /\ r.already_handled_enter /\ Knows(r)
        /\ ~ r.skip_next
  /\ ~ Knows(r) => r.nr = "execve" /\ Translating(r)

\* A call whose entry was taken goes on from where it is.
LEMMA GoesOn ==
  ASSUME NEW d, NEW r, ModeOK(r), RanOK(r), EntryTaken(d), SameCall(d, r), r.kernel = d.kernel,
         Onwards(d, r)
  PROVE  InStep(r)
<1>1. /\ Translating(r) <=> Translating(d)
      /\ ChainedCall(r) <=> ChainedCall(d)
      /\ ReplacingCall(r) <=> ReplacingCall(d)
      /\ FaultyCall(r) <=> FaultyCall(d)
  BY SameKind
<1>2. FromSeccomp # FromEnter /\ FromPerform # FromEnter
  BY DEF FromSeccomp, FromEnter, FromPerform
<1>3. /\ r.regs.pc = "after" /\ r.status \in {1, -1} /\ r.status = d.status /\ r.nr = d.nr
      /\ r.regs = d.regs /\ r.promised = d.promised
  BY DEF EntryTaken, SameCall
<1>4. /\ d.cur.nr = "void" => Translating(r) /\ r.promised = "proot" /\ (r.nr = "void" \/ Traced(r.nr))
      /\ Translating(r) /\ d.cur.nr # "void" => r.status = 1 /\ r.nr # "void"
      /\ \/ Translating(r)
         \/ r.status = 1 /\ r.nr = r.regs.nr /\ (ChainedCall(r) \/ ReplacingCall(r))
         \/ FaultyCall(r)
  BY <1>1, <1>3 DEF EntryTaken
<1>5. r.skip_next => Translating(r) /\ r.promised = "proot"
  BY <1>4 DEF Onwards
<1>6. Handled(r)
  <2>1. CASE /\ r.kernel.newer /\ r.todo = FromSeccomp /\ ~ r.already_handled_enter
             /\ r.skip_next => d.cur.nr = "void"
             /\ Knows(r) /\ d.cur.nr = "void" => r.skip_next
    BY <1>2, <1>4, <2>1 DEF Onwards, Handled, Between
  <2>2. CASE r.todo = FromPerform /\ ~ r.already_handled_enter /\ Knows(r) /\ ~ r.skip_next
    BY <1>2, <1>4, <2>2 DEF Onwards, Handled, Between, NoSkip
  <2>3. CASE /\ ~ r.kernel.newer /\ r.todo = FromEnter /\ r.already_handled_enter /\ Knows(r)
             /\ ~ r.skip_next
    BY <1>2, <1>4, <2>3 DEF Onwards, Handled, Between
  <2> QED
    BY <2>1, <2>2, <2>3 DEF Onwards
<1>7. Entered(r)
  BY <1>3, <1>5, <1>6 DEF Entered, Onwards
<1> QED
  BY <1>7 DEF InStep

\* The stop at the entry: the call is translated, or was by the seccomp stop before it.
LEMMA EnterStopInStep ==
  ASSUME InStep(s), s.stop = "enter", NEW b \in Outcomes(s), NEW r, Resumes(b, r)
  PROVE  InStep(r)
<1>1. ModeOK(s) /\ RanOK(s)
  BY DEF InStep
<1>2. PICK x : /\ Woken(s, x)
               /\ x.restart_how = IF s.seccomp = "ENABLED" /\ s.status # 0 THEN "CONT" ELSE "SYSCALL"
               /\ ~ s.already_handled_enter =>
                    \E c \in translate_syscall(x) : b = Disabled(Redeliver(SkipNext(InSysenter(x), c)))
               /\ s.already_handled_enter =>
                    b = Disabled([Asserts(x, ~ InSysenter(x) /\ ~ x.after_enter)
                                    EXCEPT !.already_handled_enter = FALSE, !.restart_how = "SYSCALL"])
  BY <1>1, SyscallStops
<1>3. Entering(s) \/ (Entered(s) /\ Handled(s))
  BY DEF InStep, AtRest, AtTrap, Free, Passing, Trapped, Entered, Doomed, Made, Between, Stopped
<1>4. CASE Entering(s)
  <2>1. /\ s.todo = IF s.kernel.newer THEN FromSeccomp ELSE FromPerform
        /\ ~ s.kernel.newer => Knows(s)
        /\ s.status = 0 /\ ~ s.already_handled_enter /\ s.regs.pc = "after" /\ s.nr = s.regs.nr
        /\ Fresh(s) \/ Prompted(s)
        /\ ~ Knows(s) => Launching(s) /\ s.nr = "execve" /\ Fresh(s)
    BY <1>4 DEF Entering, BeforeEntry, Between, Stopped, Unhandled
  <2>2. /\ AtEntry(x) /\ x.restart_how = "SYSCALL" /\ InSysenter(x)
        /\ ~ Knows(s) => Launching(x) /\ x.nr = "execve" /\ Fresh(x)
    <3>1. /\ Fresh(x) <=> Fresh(s)
          /\ Prompted(x) <=> Prompted(s)
      BY <1>2, SameKind DEF Woken, SameMode
    <3>2. x.rewritten \in BOOLEAN
      BY <1>1, <1>2 DEF ModeOK, Woken, SameCall
    <3>3. x.restart_how = "SYSCALL"
      BY <1>2, <2>1
    <3> QED
      BY <1>2, <2>1, <3>1, <3>2, <3>3
      DEF AtEntry, Woken, SameCall, SameMode, Launching, InSysenter
  <2>3. PICK d \in EnterStage(x) : b = Disabled(Redeliver(SkipNext(InSysenter(x), d)))
    BY <1>2, <2>1, <2>2, Zenon DEF translate_syscall
  <2>4. /\ SamePlace(x, d) /\ EntryTaken(d) /\ d.rewritten \in BOOLEAN
        /\ ~ Knows(s) => Translating(d) /\ d.nr = "execve"
    BY <2>2, <2>3, EntryStage
  <2>5. /\ Finished(d, b)
        /\ b.skip_next => d.after_enter /\ d.cur.nr = "void"
        /\ d.after_enter /\ d.cur.nr = "void" => b.skip_next
    <3>1. InSysenter(x)
      BY <2>2
    <3> DEFINE first == InSysenter(x)
    <3>2. first /\ b = Disabled(Redeliver(SkipNext(first, d)))
      BY <2>3, <3>1
    <3> HIDE DEF first
    <3> QED
      BY <3>2, Finishes
  <2>6. /\ SameHost(s, d) /\ d.seccomp = s.seccomp /\ d.seccomp # "DISABLING"
        /\ d.already_handled_enter = s.already_handled_enter
    BY <1>1, <1>2, <2>4 DEF SamePlace, SameMode, SameHost, Woken, ModeOK
  <2>7. d.restart_how = "SYSCALL"
    BY <2>4 DEF EntryTaken
  <2>8. /\ SameHost(s, r) /\ SameCall(d, r) /\ r.stop = "none" /\ r.last_restart_how = "SYSCALL"
        /\ r.seccomp = s.seccomp /\ r.skip_next = b.skip_next
        /\ r.already_handled_enter = s.already_handled_enter
    BY <2>5, <2>6, <2>7 DEF Finished, Resumes, SameHost, SameCall
  <2>9. /\ Knows(r) <=> Knows(s)
        /\ d.after_enter <=> s.kernel.newer /\ Knows(s)
    BY <1>1, <2>6, <2>8 DEF Knows, SameHost, ModeOK
  <2>10. r.skip_next => s.kernel.newer
    BY <2>5, <2>8, <2>9
  <2>11. ModeOK(r)
    <3>1. r.rewritten \in BOOLEAN
      BY <2>4, <2>8 DEF SameCall
    <3> QED
      BY <1>1, <2>8, <2>9, <2>10, <3>1 DEF ModeOK, SameHost
  <2>12. RanOK(r)
    BY <1>1, <2>8 DEF RanOK, SameHost
  <2>13. Translating(r) <=> Translating(d)
    BY <2>6, <2>8, SameKind DEF SameHost
  <2>14. Onwards(d, r)
    <3>1. r.todo = s.todo /\ r.kernel = s.kernel /\ ~ r.already_handled_enter /\ r.nr = d.nr
      BY <2>1, <2>8 DEF SameHost, SameCall
    <3>2. ~ Knows(r) => r.nr = "execve" /\ Translating(r)
      BY <2>4, <2>9, <2>13, <3>1
    <3>3. CASE s.kernel.newer
      BY <2>1, <2>5, <2>8, <2>9, <3>1, <3>2, <3>3 DEF Onwards
    <3>4. CASE ~ s.kernel.newer
      BY <2>1, <2>8, <2>9, <2>10, <3>1, <3>2, <3>4 DEF Onwards
    <3> QED
      BY <3>3, <3>4
  <2> QED
    BY <2>4, <2>6, <2>8, <2>11, <2>12, <2>14, GoesOn DEF SameHost
<1>5. CASE Entered(s) /\ Handled(s)
  <2>1. /\ ~ s.kernel.newer /\ Knows(s) /\ s.todo = FromPerform /\ s.already_handled_enter
        /\ s.status \in {1, -1}
    BY <1>5 DEF Entered, Handled, Between, Stopped
  <2> DEFINE ok == ~ InSysenter(x) /\ ~ x.after_enter
             g == Asserts(x, ok)
             y == [g EXCEPT !.already_handled_enter = FALSE, !.restart_how = "SYSCALL"]
  <2>2. b = Disabled(y)
    BY <1>2, <2>1
  <2>3. ok
    BY <1>1, <1>2, <2>1 DEF InSysenter, ModeOK, Woken, SameMode, SameCall
  <2> HIDE DEF ok
  <2>4. /\ SameCall(x, y) /\ y.kernel = x.kernel /\ y.left = x.left /\ y.ran = x.ran
        /\ y.todo = x.todo /\ ~ y.aborted /\ y.detected = x.detected
        /\ y.after_enter = x.after_enter /\ y.seccomp = x.seccomp /\ y.skip_next = x.skip_next
        /\ y.restart_how = "SYSCALL"
    <3>1. ~ x.aborted
      BY <1>1, <1>2 DEF ModeOK, Woken, SameMode
    <3>2. g = Asserts(x, ok)
      OBVIOUS
    <3> HIDE DEF g
    <3>3. Asserted(x, g)
      BY <2>3, <3>2, <3>1, AssertHolds
    <3> QED
      BY <3>3 DEF Asserted, SameCall
  <2>5. y.already_handled_enter = FALSE
    BY DEF Asserts
  <2> HIDE DEF y
  <2>6. b = y
    BY <1>1, <1>2, <2>2, <2>4 DEF Disabled, ModeOK, Woken, SameMode
  <2>7. /\ SameCall(s, r) /\ r.kernel = s.kernel /\ r.left = s.left /\ r.ran = s.ran
        /\ r.todo = s.todo /\ ~ r.aborted /\ r.detected = s.detected
        /\ r.seccomp = s.seccomp
        /\ r.last_restart_how = "SYSCALL" /\ r.stop = "none"
    BY <1>2, <2>4, <2>6 DEF Woken, SameMode, SameCall, Resumes, SameHost
  <2>8. /\ r.after_enter = s.after_enter /\ r.skip_next = s.skip_next
        /\ r.already_handled_enter = FALSE
    BY <1>2, <2>4, <2>5, <2>6 DEF Woken, SameMode, Resumes, SameHost
  <2>9. /\ Translating(r) <=> Translating(s)
        /\ ChainedCall(r) <=> ChainedCall(s)
        /\ ReplacingCall(r) <=> ReplacingCall(s)
        /\ FaultyCall(r) <=> FaultyCall(s)
    BY <2>7, SameKind
  <2>10. ModeOK(r) /\ RanOK(r) /\ Knows(r)
    BY <1>1, <2>1, <2>7, <2>8 DEF ModeOK, RanOK, Knows, SameCall
  <2>11. Handled(r)
    <3>1. FromPerform # FromEnter
      BY DEF FromPerform, FromEnter
    <3>2. \/ Translating(r)
          \/ r.status = 1 /\ r.nr = r.regs.nr /\ (ChainedCall(r) \/ ReplacingCall(r))
          \/ FaultyCall(r)
      BY <1>5, <2>7, <2>9 DEF Handled, SameCall
    <3>3. Between(r, FromPerform) /\ NoSkip(r) /\ ~ r.already_handled_enter
      BY <2>1, <2>7, <2>8 DEF Between, NoSkip
    <3> QED
      BY <2>10, <3>1, <3>2, <3>3 DEF Handled, Between
  <2>12. Entered(r)
    BY <1>5, <2>7, <2>8, <2>9, <2>11 DEF Entered, SameCall
  <2> QED
    BY <2>10, <2>12 DEF InStep
<1> QED
  BY <1>3, <1>4, <1>5

\* The stop at the exit: the answer is given, or the next call is prompted.
LEMMA ExitStopInStep ==
  ASSUME InStep(s), s.stop = "exit", NEW b \in Outcomes(s), NEW r, Resumes(b, r)
  PROVE  InStep(r)
<1>1. ModeOK(s) /\ RanOK(s)
  BY DEF InStep
<1>2. Entered(s) /\ (Made(s) \/ Doomed(s))
  BY DEF InStep, AtRest, AtTrap, Free, Entering, BeforeEntry, Passing, Trapped, Entered, Handled,
         Between, Stopped
<1>3. /\ ~ s.already_handled_enter /\ Knows(s) /\ s.status \in {1, -1} /\ s.regs.pc = "after"
      /\ s.todo = IF Made(s) THEN <<>> ELSE OnlySigsys
  BY <1>2 DEF Entered, Made, Doomed, Between, Stopped
<1>4. PICK x : /\ Woken(s, x)
               /\ x.restart_how = IF s.seccomp = "ENABLED" /\ s.status # 0 THEN "CONT" ELSE "SYSCALL"
               /\ ~ s.already_handled_enter =>
                    \E c \in translate_syscall(x) : b = Disabled(Redeliver(SkipNext(InSysenter(x), c)))
               /\ s.already_handled_enter =>
                    b = Disabled([Asserts(x, ~ InSysenter(x) /\ ~ x.after_enter)
                                    EXCEPT !.already_handled_enter = FALSE, !.restart_how = "SYSCALL"])
  BY <1>1, SyscallStops
<1>5. ~ InSysenter(x)
  BY <1>3, <1>4 DEF InSysenter, Woken, SameCall
<1>6. PICK d \in ExitStage(x) : b = Disabled(Redeliver(SkipNext(InSysenter(x), d)))
  BY <1>3, <1>4, <1>5, Zenon DEF translate_syscall
<1>7. Finished(d, b) /\ b.skip_next = d.skip_next
  <2> DEFINE first == InSysenter(x)
  <2>1. ~ first /\ b = Disabled(Redeliver(SkipNext(first, d)))
    BY <1>5, <1>6
  <2> HIDE DEF first
  <2> QED
    BY <2>1, Finishes
<1>8. /\ x.rewritten \in BOOLEAN /\ x.status \in {1, -1} /\ x.regs.pc = "after"
      /\ x.kernel = s.kernel /\ x.orig = s.orig /\ x.nr = s.nr /\ x.promised = s.promised
      /\ x.status = s.status /\ x.seccomp = s.seccomp
      /\ x.restart_how = IF s.seccomp = "ENABLED" THEN "CONT" ELSE "SYSCALL"
      /\ Translating(x) <=> Translating(s)
  <2>1. Translating(x) <=> Translating(s)
    BY <1>4, SameKind DEF Woken, SameMode
  <2> QED
    BY <1>1, <1>3, <1>4, <2>1 DEF ModeOK, Woken, SameCall, SameMode
<1>9. ASSUME SameStage(x, d), d.status = 0, d.rewritten \in BOOLEAN,
             d.restart_how \in {x.restart_how, "SYSCALL"},
             d.seccomp = x.seccomp \/ Translating(x)
      PROVE  /\ ModeOK(r) /\ RanOK(r) /\ Knows(r) /\ SameCall(d, r) /\ r.stop = "none"
             /\ r.kernel = d.kernel /\ r.kernel = s.kernel
             /\ r.todo = s.todo /\ Unhandled(r) /\ r.skip_next = s.skip_next
             /\ d.restart_how = "SYSCALL" => r.last_restart_how = "SYSCALL"
  <2>1. /\ SameHost(s, d) /\ d.skip_next = s.skip_next
        /\ d.already_handled_enter = s.already_handled_enter
        /\ \/ d.seccomp = s.seccomp
           \/ s.seccomp = "ENABLED" /\ d.seccomp = "DISABLING" /\ s.orig.nr = "traceme"
    BY <1>4, <1>8, <1>9 DEF SameStage, Woken, SameMode, SameHost
  <2>2. d.seccomp = "DISABLING" => s.kernel.policy = "none" /\ s.seccomp = "ENABLED"
    <3>1. s.seccomp # "DISABLING"
      BY <1>1 DEF ModeOK
    <3> QED
      BY <1>8, <1>9, <2>1, <3>1 DEF Translating, Allowed
  <2>3. /\ r.seccomp = (IF d.seccomp = "DISABLING" THEN "DISABLED" ELSE d.seccomp)
        /\ r.last_restart_how = (IF d.seccomp = "DISABLING" THEN "SYSCALL" ELSE d.restart_how)
        /\ SameHost(s, r) /\ SameCall(d, r) /\ r.stop = "none" /\ r.skip_next = s.skip_next
        /\ r.already_handled_enter = s.already_handled_enter
    BY <1>7, <2>1 DEF Finished, Resumes, SameHost, SameCall
  <2>4. /\ r.seccomp \in {"ENABLED", "DISABLED"} /\ r.last_restart_how \in {"SYSCALL", "CONT"}
        /\ r.seccomp = "ENABLED" => s.seccomp = "ENABLED"
        /\ r.seccomp = "DISABLED" => r.last_restart_how = "SYSCALL"
        /\ r.seccomp = "DISABLED" => s.seccomp = "DISABLED" \/ s.kernel.policy = "none"
    BY <1>1, <1>8, <1>9, <2>1, <2>2, <2>3 DEF ModeOK
  <2>5. r.rewritten \in BOOLEAN /\ r.status = 0
    BY <1>9, <2>3 DEF SameCall
  <2>6. ModeOK(r)
    BY <1>1, <2>3, <2>4, <2>5 DEF ModeOK, SameHost, Knows
  <2>7. RanOK(r) /\ Knows(r)
    BY <1>1, <1>3, <2>3 DEF RanOK, Knows, SameHost
  <2> QED
    BY <1>3, <2>1, <2>3, <2>5, <2>6, <2>7 DEF Unhandled, SameHost
<1>10. CASE Made(s)
  <2>1. Returning(x)
    <3>1. /\ ChainedCall(x) <=> ChainedCall(s)
          /\ ReplacingCall(x) <=> ReplacingCall(s)
          /\ FaultyCall(x) <=> FaultyCall(s)
      BY <1>4, SameKind DEF Woken, SameMode
    <3> QED
      BY <1>4, <1>8, <1>10, <3>1 DEF Made, Returning, Woken, SameCall
  <2>2. /\ SameStage(x, d) /\ d.status = 0 /\ d.rewritten \in BOOLEAN
        /\ d.restart_how \in {x.restart_how, "SYSCALL"}
        /\ \/ d.regs.pc = "after" /\ Answer(d)
           \/ d.regs.pc = "trap" /\ d.restart_how = "SYSCALL" /\ Prompted(d)
        /\ d.seccomp = x.seccomp \/ Translating(x)
    BY <1>6, <1>8, <2>1, ExitReturning
  <2>3. /\ ModeOK(r) /\ RanOK(r) /\ Knows(r) /\ SameCall(d, r) /\ r.stop = "none"
        /\ r.kernel = d.kernel /\ r.kernel = s.kernel
        /\ r.todo = s.todo /\ Unhandled(r) /\ r.skip_next = s.skip_next
        /\ d.restart_how = "SYSCALL" => r.last_restart_how = "SYSCALL"
    BY <1>9, <2>2
  <2>4. Free(r)
    BY <1>3, <1>10, <2>3 DEF Free, Made, NoSkip
  <2>5. /\ Prompted(r) <=> Prompted(d)
        /\ NoChain(r) <=> NoChain(d)
    BY <2>3, SameKind
  <2>6. Answer(d) => Answer(r)
    BY <2>3, <2>5 DEF Answer, SameCall
  <2>7. AtRest(r) \/ AtTrap(r)
    BY <2>2, <2>3, <2>4, <2>5, <2>6 DEF AtRest, AtTrap, SameCall
  <2> QED
    BY <2>3, <2>7 DEF InStep
<1>11. CASE Doomed(s) /\ ~ Made(s)
  <2>1. Translating(x)
    BY <1>8, <1>11 DEF Doomed
  <2>2. x.promised = "proot" \/ (x.status = 1 /\ x.nr = x.orig.nr /\ x.nr \in {"open", "gone"})
    BY <1>8, <1>11 DEF Doomed
  <2>3. /\ SameStage(x, d) /\ d.status = 0 /\ d.rewritten \in BOOLEAN /\ ~ d.rewritten
        /\ d.restart_how \in {x.restart_how, "SYSCALL"} /\ NoChain(d) /\ d.regs.pc = "after"
        /\ Own(d.regs)
        /\ x.promised = "proot" => Answer(d)
        /\ x.promised # "proot" => d.regs.nr = x.orig.nr /\ d.nr \in {x.nr, x.orig.nr}
    BY <1>6, <1>8, <2>1, <2>2, ExitDoomed
  <2>4. /\ ModeOK(r) /\ RanOK(r) /\ Knows(r) /\ SameCall(d, r) /\ r.stop = "none"
        /\ r.kernel = d.kernel /\ r.kernel = s.kernel
        /\ r.todo = s.todo /\ Unhandled(r) /\ r.skip_next = s.skip_next
        /\ d.restart_how = "SYSCALL" => r.last_restart_how = "SYSCALL"
    BY <1>9, <2>1, <2>3
  <2>5. NoChain(r) /\ ~ r.rewritten /\ r.regs = d.regs /\ r.nr = d.nr
    <3>1. NoChain(r) <=> NoChain(d)
      BY <2>4, SameKind
    <3> QED
      BY <2>3, <2>4, <3>1 DEF SameCall
  <2>6. r.skip_next => Answer(r)
    <3>1. s.skip_next => x.promised = "proot"
      BY <1>8, <1>11 DEF Doomed
    <3>2. Answer(d) => Answer(r)
      BY <2>4, <2>5 DEF Answer, SameCall
    <3> QED
      BY <2>3, <2>4, <3>1, <3>2
  <2>7. ~ r.skip_next => r.nr \in {"open", "gone"} /\ r.regs.nr \in {"open", "gone"} /\ Own(r.regs)
    <3>1. ~ s.skip_next => s.status = 1 /\ s.nr = s.orig.nr /\ s.nr \in {"open", "gone"}
      BY <1>11 DEF Doomed
    <3>2. ~ s.skip_next => x.promised # "proot"
      BY <1>8, <2>1, <3>1 DEF Translating, Void
    <3> QED
      BY <1>8, <2>3, <2>4, <2>5, <3>1, <3>2
  <2>8. Trapped(r)
    BY <1>3, <1>11, <2>3, <2>4, <2>5, <2>6, <2>7 DEF Trapped, Doomed, Between
  <2> QED
    BY <2>4, <2>8 DEF InStep
<1> QED
  BY <1>2, <1>10, <1>11

\* The stop of execve changes nothing of the call.
LEMMA EventHandled ==
  ASSUME InStep(s), s.stop = "event", NEW b \in Outcomes(s), NEW r, Resumes(b, r)
  PROVE  InStep(r)
<1>1. ModeOK(s) /\ RanOK(s)
  BY DEF InStep
<1>2. Entered(s) /\ Made(s)
  BY DEF InStep, AtRest, AtTrap, Free, Entering, BeforeEntry, Passing, Trapped, Entered, Handled,
         Doomed, Between, Stopped
<1> DEFINE w == [s EXCEPT !.restart_how = ByDefault(s)]
<1>3. b = event_stop(w)
  BY Zenon DEF Outcomes
<1>4. Woken(s, w)
  BY Wakes
<1> HIDE DEF w
<1>5. Woken(w, b) /\ b.restart_how = w.last_restart_how
  BY <1>3 DEF event_stop, Woken, SameCall, SameMode
<1>6. /\ SameCall(s, r) /\ SameMode(s, r) /\ r.todo = s.todo /\ r.stop = "none"
  BY <1>2, <1>4, <1>5 DEF Woken, SameCall, SameMode, SameHost, Resumes
<1>7. ModeOK(r) /\ RanOK(r) /\ Knows(r) /\ (NoSkip(r) <=> NoSkip(s))
  BY <1>1, <1>2, <1>6 DEF Made, SameCall, SameMode, ModeOK, RanOK, Knows, NoSkip
<1>8. s.todo = FromExit
  BY <1>2 DEF Made, Between, Stopped
<1>9. /\ Translating(r) <=> Translating(s)
      /\ ChainedCall(r) <=> ChainedCall(s)
      /\ ReplacingCall(r) <=> ReplacingCall(s)
      /\ FaultyCall(r) <=> FaultyCall(s)
  BY <1>6, SameKind DEF SameMode
<1>10. Entered(r)
  BY <1>2, <1>6, <1>7, <1>8, <1>9
  DEF Entered, Made, Returning, Between, Stopped, SameCall, SameMode
<1> QED
  BY <1>7, <1>10 DEF InStep

\* A signal changes nothing of the call.
LEMMA SignalTaken ==
  ASSUME NEW w, NEW signal, NEW b,
         b = signal_stop([w EXCEPT !.pending = w.pending \ {signal}], signal)
  PROVE  Woken(w, b) /\ b.restart_how = w.restart_how
<1> DEFINE v == [w EXCEPT !.pending = w.pending \ {signal}]
<1>1. Woken(w, v) /\ v.restart_how = w.restart_how
  BY DEF Woken, SameCall, SameMode
<1>2. b = signal_stop(v, signal)
  OBVIOUS
<1> HIDE DEF v
<1>3. Woken(v, b) /\ b.restart_how = v.restart_how
  <2>1. CASE Suppressing(v)
    <3>1. b = [v EXCEPT !.suppressed = {signal}]
      BY <1>2, <2>1 DEF signal_stop
    <3> QED
      BY ONLY <3>1 DEF Woken, SameCall, SameMode
  <2>2. CASE ~ Suppressing(v)
    <3>1. b = [v EXCEPT !.got = v.got \cup {signal}]
      BY <1>2, <2>2 DEF signal_stop
    <3> QED
      BY ONLY <3>1 DEF Woken, SameCall, SameMode
  <2> QED
    BY <2>1, <2>2
<1> QED
  BY <1>1, <1>3 DEF Woken, SameCall, SameMode

\* Between two system calls, chained or not.
LEMMA SignalHandled ==
  ASSUME InStep(s), s.stop = "signal", NEW b \in Outcomes(s), NEW r, Resumes(b, r)
  PROVE  InStep(r)
<1>1. ModeOK(s) /\ RanOK(s)
  BY DEF InStep
<1>2. AtRest(s) \/ AtTrap(s)
  BY DEF InStep, Entering, BeforeEntry, Passing, Trapped, Entered, Handled,
         Made, Doomed, Between, Stopped
<1> DEFINE w == [s EXCEPT !.restart_how = ByDefault(s)]
<1>3. \E signal \in s.pending : b = signal_stop([w EXCEPT !.pending = w.pending \ {signal}], signal)
  BY Zenon DEF Outcomes
<1>4. Woken(s, w) /\ w.restart_how = ByDefault(s)
  BY Wakes
<1> HIDE DEF w
<1>5. Woken(w, b) /\ b.restart_how = w.restart_how
  <2>1. PICK signal \in s.pending :
               b = signal_stop([w EXCEPT !.pending = w.pending \ {signal}], signal)
    BY <1>3
  <2> QED
    BY <2>1, SignalTaken
<1>6. /\ SameCall(s, r) /\ SameHost(s, r) /\ r.seccomp = s.seccomp /\ r.skip_next = s.skip_next
      /\ r.already_handled_enter = s.already_handled_enter
      /\ r.last_restart_how = ByDefault(s) /\ r.stop = "none"
  BY <1>4, <1>5 DEF Woken, SameCall, SameMode, SameHost, Resumes
<1>7. /\ ByDefault(s) \in {"SYSCALL", "CONT"}
      /\ s.seccomp = "DISABLED" => ByDefault(s) = "SYSCALL"
      /\ AtTrap(s) => ByDefault(s) = "SYSCALL"
  <2>1. AtTrap(s) => Necessary(s)
    BY DEF AtTrap, Prompted, RewrittenCall, ChainedCall, ReplacingCall, InChain, Necessary
  <2> QED
    BY <2>1 DEF ByDefault
<1>8. ModeOK(r) /\ RanOK(r)
  BY <1>1, <1>6, <1>7 DEF ModeOK, RanOK, Knows, SameCall, SameHost
<1>9. /\ Prompted(r) <=> Prompted(s)
      /\ NoChain(r) <=> NoChain(s)
  BY <1>6, SameKind DEF SameHost
<1>10. Free(r)
  BY <1>2, <1>6 DEF AtRest, AtTrap, Free, Unhandled, NoSkip, Knows, SameCall, SameHost
<1>11. AtRest(r) \/ AtTrap(r)
  BY <1>2, <1>6, <1>7, <1>9, <1>10 DEF AtRest, AtTrap, Answer, SameCall
<1> QED
  BY <1>8, <1>11 DEF InStep

(***************************************************************************)
(* SIGSYS.                                                                 *)
(***************************************************************************)
\* PRoot answers the call, or runs a newer one.
LEMMA SigsysAnswered ==
  ASSUME NEW a, a.status = 0, a.rewritten \in BOOLEAN, ~ a.rewritten, NoChain(a), Own(a.regs),
         a.regs.pc = "after", a.regs.nr \in {"open", "gone"},
         NEW b, b = handle_seccomp_event(a)
  PROVE  /\ SamePlace(a, b) /\ b.status = 0 /\ b.rewritten \in BOOLEAN
         /\ b.restart_how \in {a.restart_how, "SYSCALL"}
         /\ \/ b.regs.pc = "after" /\ Answer(b)
            \/ b.regs.pc = "trap" /\ b.restart_how = "SYSCALL" /\ RewrittenCall(b)
<1> DEFINE c == [a EXCEPT !.status = 0, !.restore = FALSE, !.cur = a.regs, !.rewrite = a.regs]
<1>1. b = handle_seccomp_event_common(c)
  BY Zenon DEF handle_seccomp_event
<1>2. /\ SamePlace(a, c) /\ c.status = 0 /\ c.chain = a.chain /\ c.chaining = a.chaining
      /\ c.forced = a.forced /\ c.workaround = a.workaround /\ c.rewrite = a.regs
      /\ c.rewritten = a.rewritten /\ c.cur = a.regs /\ c.regs = a.regs
      /\ c.restart_how = a.restart_how
  BY DEF SamePlace, SameMode
<1>3. c.restore = FALSE
  OBVIOUS
<1> HIDE DEF c
<1>4. ~ c.restore /\ c.rewritten \in BOOLEAN /\ ~ c.rewritten /\ c.cur = c.regs /\ NoChain(c)
  BY <1>2, <1>3 DEF NoChain
<1>5. CASE a.regs.nr = "open"
  <2>1. /\ SamePlace(c, b) /\ b.status = c.status /\ b.chain = c.chain /\ b.chaining = c.chaining
        /\ b.forced = c.forced /\ b.workaround = c.workaround
        /\ b.rewrite = c.rewrite /\ b.promised = "kernel" /\ b.restart_how = "SYSCALL"
        /\ b.rewritten \in BOOLEAN /\ b.rewritten
        /\ b.regs.nr = "path" /\ b.regs.args = "rewritten" /\ b.regs.sp = "own"
        /\ b.regs.pc = "trap"
    <3>1. c.cur.nr \in {"open", "utime"} /\ c.cur.args = "own" /\ c.cur.sp = "own" /\ ~ c.restore
      BY <1>2, <1>4, <1>5 DEF Own
    <3> QED
      BY <1>1, <3>1, Rewrites
  <2>2. RewrittenCall(b)
    BY <1>2, <1>4, <2>1 DEF RewrittenCall, NoChain, Own
  <2> QED
    BY <1>2, <2>1, <2>2 DEF SamePlace, SameMode
<1>6. CASE a.regs.nr # "open"
  <2>1. /\ SamePlace(c, b) /\ b.status = c.status /\ b.chain = c.chain /\ b.chaining = c.chaining
        /\ b.forced = c.forced /\ b.workaround = c.workaround
        /\ b.promised = "proot" /\ b.restart_how = c.restart_how
        /\ b.rewritten = c.rewritten
        /\ b.regs.args = c.regs.args /\ b.regs.sp = c.regs.sp /\ b.regs.pc = c.regs.pc
        /\ b.regs.result = "proot"
    <3>1. c.cur.nr \notin {"open", "utime"} /\ c.cur = c.regs /\ ~ c.restore /\ c.rewritten \in BOOLEAN
      BY <1>2, <1>4, <1>6
    <3> QED
      BY <1>1, <3>1, Answers
  <2>2. NoChain(b) /\ b.rewritten \in BOOLEAN /\ ~ b.rewritten
    BY <1>4, <2>1 DEF NoChain
  <2>3. Answer(b)
    BY <1>2, <2>1, <2>2 DEF Answer, Own
  <2> QED
    BY <1>2, <2>1, <2>2, <2>3 DEF SamePlace, SameMode
<1> QED
  BY <1>5, <1>6

\* The tracee once its SIGSYS was taken into account.
Over(a, b) ==
  /\ b.kernel = a.kernel /\ b.left = a.left /\ b.ran = a.ran /\ b.aborted = a.aborted
  /\ b.detected = a.detected /\ b.after_enter = a.after_enter /\ b.todo = a.todo
  /\ b.seccomp = a.seccomp /\ b.already_handled_enter = a.already_handled_enter
  /\ ~ b.skip_next /\ b.status = 0 /\ b.rewritten \in BOOLEAN
  /\ b.restart_how \in {ByDefault(a), "SYSCALL"}
  /\ \/ b.regs.pc = "after" /\ Answer(b)
     \/ b.regs.pc = "trap" /\ b.restart_how = "SYSCALL" /\ RewrittenCall(b)

\* After a SIGSYS the guest is at rest, or a rewritten call is at its trap.
LEMMA SigsysOver ==
  ASSUME InStep(s), s.todo = <<>>, s.kernel.policy # "none", Knows(s), ~ s.already_handled_enter,
         NEW b, Over(s, b), NEW r, Resumes(b, r)
  PROVE  InStep(r)
<1>1. ModeOK(s) /\ RanOK(s)
  BY DEF InStep
<1>2. /\ r.kernel = s.kernel /\ r.left = s.left /\ r.ran = s.ran /\ r.aborted = s.aborted
      /\ r.detected = s.detected /\ r.after_enter = s.after_enter /\ r.todo = <<>>
      /\ r.seccomp = s.seccomp /\ r.already_handled_enter = s.already_handled_enter
      /\ r.status = 0 /\ r.rewritten \in BOOLEAN /\ r.skip_next = b.skip_next
      /\ r.last_restart_how = b.restart_how /\ r.stop = "none" /\ SameCall(b, r)
  BY DEF Over, Resumes, SameCall, SameHost
<1>3. /\ b.restart_how \in {"SYSCALL", "CONT"}
      /\ s.seccomp = "DISABLED" => b.restart_how = "SYSCALL"
  BY DEF Over, ByDefault
<1>4. ModeOK(r) /\ RanOK(r) /\ Knows(r)
  BY <1>1, <1>2, <1>3 DEF Over, ModeOK, RanOK, Knows
<1>5. Free(r)
  BY <1>2, <1>4 DEF Over, Free, Unhandled, NoSkip
<1>6. /\ RewrittenCall(r) <=> RewrittenCall(b)
      /\ NoChain(r) <=> NoChain(b)
  BY <1>2, SameKind DEF Over
<1>7. AtRest(r) \/ AtTrap(r)
  BY <1>2, <1>5, <1>6 DEF Over, AtRest, AtTrap, Answer, Prompted, SameCall
<1> QED
  BY <1>4, <1>7 DEF InStep

\* The stop of SIGSYS: skipped, answered by PRoot, or answered with ENOSYS (event.c:686).
LEMMA SigsysHandled ==
  ASSUME InStep(s), s.stop = "sigsys", NEW b \in Outcomes(s), NEW r, Resumes(b, r)
  PROVE  InStep(r)
<1>1. ModeOK(s) /\ RanOK(s)
  BY DEF InStep
<1>2. Trapped(s) \/ (Entered(s) /\ Doomed(s))
  BY DEF InStep, AtRest, AtTrap, Free, Entering, BeforeEntry, Passing, Entered, Handled, Made,
         Between, Stopped
<1>3. /\ s.todo = <<>> /\ s.kernel.policy # "none" /\ Knows(s) /\ ~ s.already_handled_enter
      /\ s.regs.pc = "after"
  BY <1>2 DEF Trapped, Doomed, Entered, Unhandled, Between, Stopped
<1> DEFINE w == [s EXCEPT !.restart_how = ByDefault(s)]
<1>4. \E c \in IF InSysenter(w) THEN {w} ELSE translate_syscall(w) :
         b = IF IgnoreSigsys(c, w.nr) THEN [c EXCEPT !.skip_next = FALSE]
             ELSE handle_seccomp_event(c)
  <2>1. b \in sigsys_stop(w)
    BY Zenon DEF Outcomes
  <2> HIDE DEF w
  <2> QED
    BY <2>1, Zenon DEF sigsys_stop
<1>5. Woken(s, w) /\ w.restart_how = ByDefault(s)
  BY Wakes
<1> HIDE DEF w
<1>6. PICK c \in IF InSysenter(w) THEN {w} ELSE translate_syscall(w) :
         b = IF IgnoreSigsys(c, w.nr) THEN [c EXCEPT !.skip_next = FALSE]
             ELSE handle_seccomp_event(c)
  BY <1>4
<1>7. InSysenter(w) <=> s.status = 0
  BY <1>5 DEF InSysenter, Woken, SameCall
\* What is known of the call, whatever its exit.
<1>8. /\ SameHost(s, c) /\ c.seccomp = s.seccomp
      /\ c.already_handled_enter = s.already_handled_enter
      /\ c.skip_next = s.skip_next
      /\ c.status = 0 /\ c.rewritten \in BOOLEAN /\ ~ c.rewritten /\ NoChain(c)
      /\ c.regs.pc = "after" /\ c.restart_how \in {ByDefault(s), "SYSCALL"}
      /\ s.skip_next => Answer(c)
      /\ ~ s.skip_next => s.nr \in {"open", "gone"} /\ c.regs.nr \in {"open", "gone"} /\ Own(c.regs)
  <2>1. CASE Trapped(s)
    <3>1. s.status = 0
      BY <2>1 DEF Trapped, Unhandled
    <3>2. c = w
      BY <1>6, <1>7, <3>1
    <3>3. NoChain(c) <=> NoChain(s)
      BY <1>5, <3>2, SameKind DEF Woken, SameMode
    <3>4. Answer(s) => Answer(c)
      BY <1>5, <3>2, <3>3 DEF Answer, Woken, SameCall
    <3> QED
      BY <1>1, <1>3, <1>5, <2>1, <3>1, <3>2, <3>3, <3>4
      DEF Trapped, Woken, SameCall, SameMode, SameHost, ModeOK
  <2>2. CASE Entered(s) /\ Doomed(s)
    <3>1. /\ w.rewritten \in BOOLEAN /\ w.status \in {1, -1} /\ w.regs.pc = "after"
          /\ w.kernel = s.kernel /\ w.orig = s.orig /\ w.nr = s.nr /\ w.promised = s.promised
          /\ w.status = s.status
      BY <1>1, <1>3, <1>5, <2>2 DEF Entered, ModeOK, Woken, SameCall, SameMode
    <3>2. Translating(w)
      <4>1. Translating(w) <=> Translating(s)
        BY <1>5, SameKind DEF Woken, SameMode
      <4> QED
        BY <2>2, <4>1 DEF Doomed
    <3>3. c \in ExitStage(w)
      BY <1>6, <3>1 DEF InSysenter, translate_syscall
    <3>4. w.promised = "proot" \/ (w.status = 1 /\ w.nr = w.orig.nr /\ w.nr \in {"open", "gone"})
      BY <2>2, <3>1 DEF Doomed
    <3>5. /\ SameStage(w, c) /\ c.status = 0 /\ c.rewritten \in BOOLEAN /\ ~ c.rewritten
          /\ c.restart_how \in {w.restart_how, "SYSCALL"} /\ NoChain(c) /\ c.regs.pc = "after"
          /\ Own(c.regs)
          /\ w.promised = "proot" => Answer(c)
          /\ w.promised # "proot" => c.regs.nr = w.orig.nr
      BY <3>1, <3>2, <3>3, <3>4, ExitDoomed
    <3>6. w.orig.nr # "traceme"
      BY <1>3, <3>1, <3>2 DEF Translating, Allowed
    <3>7. /\ SameHost(s, c) /\ c.seccomp = s.seccomp
          /\ c.already_handled_enter = s.already_handled_enter
          /\ c.skip_next = s.skip_next
      BY <1>5, <3>5, <3>6 DEF SameStage, Woken, SameMode, SameHost
    <3>8. s.skip_next => w.promised = "proot"
      BY <2>2, <3>1 DEF Doomed
    <3>9. ~ s.skip_next => s.status = 1 /\ s.nr = s.orig.nr /\ s.nr \in {"open", "gone"}
      BY <2>2 DEF Doomed
    <3>10. ~ s.skip_next => w.promised # "proot"
      BY <3>1, <3>2, <3>9 DEF Translating, Void
    <3> QED
      BY <1>5, <3>1, <3>5, <3>7, <3>8, <3>9, <3>10
  <2> QED
    BY <1>2, <2>1, <2>2
<1>9. Over(s, b)
  <2>1. CASE s.skip_next
    <3>1. b = [c EXCEPT !.skip_next = FALSE]
      <4>1. c.skip_next
        BY <1>8, <2>1
      <4> QED
        BY <1>6, <4>1, Zenon DEF IgnoreSigsys
    <3>2. /\ SameCall(c, b) /\ SameHost(c, b) /\ b.seccomp = c.seccomp
          /\ b.already_handled_enter = c.already_handled_enter /\ b.skip_next = FALSE
          /\ b.restart_how = c.restart_how
      BY ONLY <3>1 DEF SameCall, SameHost
    <3>3. NoChain(b) /\ Answer(b)
      <4>1. NoChain(b) <=> NoChain(c)
        BY <3>2, SameKind DEF SameHost
      <4> QED
        BY <1>8, <2>1, <3>2, <4>1 DEF Answer, SameCall
    <3> QED
      BY <1>8, <3>2, <3>3 DEF Over, SameCall, SameHost
  <2>2. CASE ~ s.skip_next
    <3>1. ~ IgnoreSigsys(c, w.nr)
      <4>1. w.nr = s.nr /\ s.nr # "void" /\ ~ c.skip_next
        BY <1>5, <1>8, <2>2 DEF Woken, SameCall
      <4> QED
        BY <4>1 DEF IgnoreSigsys
    <3>2. b = handle_seccomp_event(c)
      BY <1>6, <3>1, Zenon
    <3>3. /\ SamePlace(c, b) /\ b.status = 0 /\ b.rewritten \in BOOLEAN
          /\ b.restart_how \in {c.restart_how, "SYSCALL"}
          /\ \/ b.regs.pc = "after" /\ Answer(b)
             \/ b.regs.pc = "trap" /\ b.restart_how = "SYSCALL" /\ RewrittenCall(b)
      BY <1>8, <2>2, <3>2, SigsysAnswered
    <3> QED
      BY <1>8, <2>2, <3>3 DEF Over, SamePlace, SameMode, SameHost
  <2> QED
    BY <2>1, <2>2
<1> QED
  BY <1>3, <1>9, SigsysOver

(***************************************************************************)
(* The seccomp stops.                                                      *)
(***************************************************************************)
\* The first one tells their order.
Detected(a, b) ==
  /\ SameCall(a, b) /\ b.kernel = a.kernel /\ b.left = a.left /\ b.ran = a.ran
  /\ b.aborted = a.aborted /\ b.todo = a.todo /\ b.stop = a.stop
  /\ b.last_restart_how = a.last_restart_how /\ b.already_handled_enter = a.already_handled_enter
  /\ b.sysexit_pending = a.sysexit_pending /\ b.restart_how = ByDefault(a)
  /\ b.skip_next \in BOOLEAN /\ ~ b.skip_next /\ b.detected \in BOOLEAN /\ b.detected
  /\ b.seccomp = IF a.detected THEN a.seccomp ELSE "ENABLED"
  /\ b.after_enter <=> a.kernel.newer

\* The first seccomp stop tells the order of the stops (event.c:550).
LEMMA Detects ==
  ASSUME ModeOK(s), ~ s.detected => (s.status = 0 <=> ~ s.kernel.newer),
         NEW w, w = [s EXCEPT !.restart_how = ByDefault(s)],
         NEW b, b = [(IF w.detected THEN w
                      ELSE [w EXCEPT !.seccomp = "ENABLED", !.detected = TRUE,
                                     !.after_enter = ~ InSysenter(w)]) EXCEPT !.skip_next = FALSE]
  PROVE  Detected(s, b)
<1>1. /\ Woken(s, w) /\ w.restart_how = ByDefault(s) /\ w.sysexit_pending = s.sysexit_pending
  BY Wakes
<1> DEFINE c == IF w.detected THEN w
                ELSE [w EXCEPT !.seccomp = "ENABLED", !.detected = TRUE,
                               !.after_enter = ~ InSysenter(w)]
<1>2. b = [c EXCEPT !.skip_next = FALSE]
  OBVIOUS
<1>3. /\ SameCall(w, c) /\ c.kernel = w.kernel /\ c.left = w.left /\ c.ran = w.ran
      /\ c.aborted = w.aborted /\ c.todo = w.todo /\ c.stop = w.stop
      /\ c.last_restart_how = w.last_restart_how
      /\ c.already_handled_enter = w.already_handled_enter
      /\ c.sysexit_pending = w.sysexit_pending /\ c.restart_how = w.restart_how
      /\ c.detected
      /\ c.seccomp = (IF w.detected THEN w.seccomp ELSE "ENABLED")
      /\ ~ w.detected => (c.after_enter <=> ~ InSysenter(w))
      /\ w.detected => c.after_enter = w.after_enter
  <2>1. CASE w.detected
    <3>1. c = w
      BY <2>1
    <3> HIDE DEF c
    <3> QED
      BY ONLY <2>1, <3>1 DEF SameCall
  <2>2. CASE ~ w.detected
    <3>1. c = [w EXCEPT !.seccomp = "ENABLED", !.detected = TRUE, !.after_enter = ~ InSysenter(w)]
      BY <2>2
    <3> HIDE DEF c
    <3>2. /\ SameCall(w, c) /\ c.kernel = w.kernel /\ c.left = w.left /\ c.ran = w.ran
          /\ c.aborted = w.aborted /\ c.todo = w.todo /\ c.stop = w.stop
          /\ c.last_restart_how = w.last_restart_how
          /\ c.already_handled_enter = w.already_handled_enter
          /\ c.sysexit_pending = w.sysexit_pending /\ c.restart_how = w.restart_how
          /\ c.seccomp = "ENABLED" /\ c.detected = TRUE /\ c.after_enter = (~ InSysenter(w))
      BY ONLY <3>1 DEF SameCall
    <3> QED
      BY <2>2, <3>2
  <2> QED
    BY <2>1, <2>2
<1> HIDE DEF c
<1>4. /\ SameCall(c, b) /\ b.kernel = c.kernel /\ b.left = c.left /\ b.ran = c.ran
      /\ b.aborted = c.aborted /\ b.todo = c.todo /\ b.stop = c.stop
      /\ b.last_restart_how = c.last_restart_how
      /\ b.already_handled_enter = c.already_handled_enter
      /\ b.sysexit_pending = c.sysexit_pending /\ b.restart_how = c.restart_how
      /\ b.skip_next = FALSE /\ b.detected = c.detected /\ b.seccomp = c.seccomp
      /\ b.after_enter = c.after_enter
  BY ONLY <1>2 DEF SameCall
<1>5. b.after_enter <=> s.kernel.newer
  <2>1. CASE s.detected
    <3>1. w.detected /\ w.after_enter = s.after_enter
      BY <1>1, <2>1 DEF Woken, SameMode
    <3>2. s.after_enter <=> s.kernel.newer
      BY <2>1 DEF ModeOK, Knows
    <3> QED
      BY <1>3, <1>4, <3>1, <3>2
  <2>2. CASE ~ s.detected
    <3>1. ~ w.detected /\ w.status = s.status
      BY <1>1, <2>2 DEF Woken, SameMode, SameCall
    <3>2. c.after_enter <=> s.kernel.newer
      BY <1>3, <2>2, <3>1 DEF InSysenter
    <3> QED
      BY <1>4, <3>2
  <2> QED
    BY <2>1, <2>2
<1>6. /\ SameCall(s, b) /\ b.kernel = s.kernel /\ b.left = s.left /\ b.ran = s.ran
      /\ b.aborted = s.aborted /\ b.todo = s.todo /\ b.stop = s.stop
      /\ b.last_restart_how = s.last_restart_how
      /\ b.already_handled_enter = s.already_handled_enter
      /\ b.sysexit_pending = s.sysexit_pending /\ b.restart_how = ByDefault(s)
      /\ b.skip_next = FALSE
  BY <1>1, <1>3, <1>4 DEF Woken, SameCall, SameMode
<1>7. b.detected = TRUE /\ b.seccomp = IF s.detected THEN s.seccomp ELSE "ENABLED"
  <2>1. w.detected = s.detected /\ w.seccomp = s.seccomp
    BY <1>1 DEF Woken, SameMode
  <2>2. b.seccomp = (IF s.detected THEN s.seccomp ELSE "ENABLED")
    BY <1>3, <1>4, <2>1
  <2>3. b.detected = c.detected
    BY <1>4
  <2> QED
    BY <2>2, <2>3, <1>3
<1> QED
  BY <1>5, <1>6, <1>7 DEF Detected

\* The host and the mode after the stop.
Keeps(b, r) ==
  /\ r.kernel = b.kernel /\ r.left = b.left /\ r.ran = b.ran /\ r.todo = b.todo
  /\ ~ r.aborted /\ r.seccomp = b.seccomp /\ r.detected = b.detected
  /\ r.after_enter = b.after_enter /\ r.skip_next = b.skip_next

\* The ways through the handler of seccomp stops.
LEMMA SeccompOutcomes ==
  ASSUME ModeOK(s), s.stop = "seccomp", ~ s.detected => (s.status = 0 <=> ~ s.kernel.newer),
         NEW d \in Outcomes(s)
  PROVE  \E b :
    /\ Detected(s, b)
    /\ \/ /\ b.after_enter /\ ~ InSysenter(b)
          /\ d = Asserts([b EXCEPT !.restart_how = b.last_restart_how], b.last_restart_how # "CONT")
       \/ /\ ~ (b.after_enter /\ ~ InSysenter(b))
          /\ \/ b.seccomp # "ENABLED" /\ d = Asserts(b, InSysenter(b))
             \/ /\ b.seccomp = "ENABLED" /\ (Sysexit(b.nr) \/ Necessary(s))
                /\ \E c \in IF b.after_enter
                            THEN translate_syscall([b EXCEPT !.restart_how = "SYSCALL"]) ELSE {b} :
                      d = [c EXCEPT !.restart_how = "SYSCALL"]
             \/ /\ b.seccomp = "ENABLED" /\ ~ Sysexit(b.nr) /\ ~ Necessary(s)
                /\ d \in EnterBySeccompStop(Asserts(b, InSysenter(b)))
<1> DEFINE w == [s EXCEPT !.restart_how = ByDefault(s)]
           b == [(IF w.detected THEN w
                  ELSE [w EXCEPT !.seccomp = "ENABLED", !.detected = TRUE,
                                 !.after_enter = ~ InSysenter(w)]) EXCEPT !.skip_next = FALSE]
<1>1. d \in seccomp_stop(w, Necessary(s))
  BY Zenon DEF Outcomes
<1>2. Detected(s, b)
  BY Detects
<1> HIDE DEF w
<1> DEFINE first == b.after_enter /\ ~ InSysenter(b)
           taken == Sysexit(b.nr) \/ Necessary(s)
<1>3. d \in (IF first
             THEN {Asserts([b EXCEPT !.restart_how = b.last_restart_how], b.last_restart_how # "CONT")}
             ELSE IF b.seccomp # "ENABLED" THEN {Asserts(b, InSysenter(b))}
             ELSE IF taken
             THEN {[c EXCEPT !.restart_how = "SYSCALL"] :
                     c \in IF b.after_enter THEN translate_syscall([b EXCEPT !.restart_how = "SYSCALL"])
                           ELSE {b}}
             ELSE EnterBySeccompStop(Asserts(b, InSysenter(b))))
  BY <1>1, Zenon DEF seccomp_stop
<1> HIDE DEF b
<1>4. CASE first
  BY <1>2, <1>3, <1>4, Zenon
<1>5. CASE ~ first /\ b.seccomp # "ENABLED"
  BY <1>2, <1>3, <1>5, Zenon
<1>6. CASE ~ first /\ b.seccomp = "ENABLED" /\ taken
  BY <1>2, <1>3, <1>6, Zenon
<1>7. CASE ~ first /\ b.seccomp = "ENABLED" /\ ~ taken
  BY <1>2, <1>3, <1>7, Zenon
<1> QED
  BY <1>4, <1>5, <1>6, <1>7

\* What the handler of seccomp stops keeps of the mode.
LEMMA KeepsMode ==
  ASSUME InStep(s), s.kernel.filter, NEW b, Detected(s, b), NEW r, Keeps(b, r),
         r.rewritten \in BOOLEAN, r.last_restart_how \in {"SYSCALL", "CONT"},
         b.seccomp = "DISABLED" => r.last_restart_how = "SYSCALL"
  PROVE  ModeOK(r) /\ RanOK(r) /\ Knows(r) /\ ~ r.skip_next
<1>1. ModeOK(s) /\ RanOK(s)
  BY DEF InStep
<1>2. /\ r.kernel = s.kernel /\ r.ran = s.ran /\ ~ r.aborted
      /\ r.seccomp = IF s.detected THEN s.seccomp ELSE "ENABLED"
  BY DEF Detected, Keeps
<1>3. r.skip_next = b.skip_next /\ r.detected = b.detected /\ r.after_enter = b.after_enter
  BY DEF Keeps
<1>4. r.detected /\ ~ r.skip_next /\ (r.after_enter <=> s.kernel.newer) /\ r.seccomp = b.seccomp
  BY <1>3 DEF Detected, Keeps
<1> QED
  BY <1>1, <1>2, <1>4 DEF ModeOK, RanOK, Knows

\* The entry of a call that was stopped by the filter.
SeccompEntry(v, e, d) ==
  /\ SameCall(e, d) /\ SameHost(v, d) /\ e.kernel = v.kernel /\ d.seccomp = v.seccomp
  /\ d.skip_next = v.skip_next /\ e.rewritten \in BOOLEAN
  /\ \/ EntryTaken(e) /\ d.restart_how = "SYSCALL" /\ (d.already_handled_enter <=> ~ v.after_enter)
     \/ EntryPassed(e) /\ d.restart_how = "CONT" /\ ~ d.already_handled_enter

\* The entry, translated by the seccomp stop.
LEMMA EnterBySeccomp ==
  ASSUME NEW v, v.rewritten \in BOOLEAN, v.status = 0, v.regs.pc = "after", v.nr = v.regs.nr, Fresh(v),
         ~ Sysexit(v.nr), ~ v.sysexit_pending, v.seccomp = "ENABLED", ~ v.already_handled_enter,
         NEW d \in EnterBySeccompStop(v)
  PROVE  \E e : SeccompEntry(v, e, d)
<1> DEFINE y == [v EXCEPT !.restart_how = "CONT"]
           how(e) == IF e.sysexit_pending \/ e.seccomp = "DISABLING" THEN "SYSCALL" ELSE e.restart_how
           c(e) == [e EXCEPT !.restart_how = how(e)]
<1>1. PICK e \in translate_syscall(y) :
         d = [c(e) EXCEPT !.already_handled_enter = c(e).already_handled_enter \/ HandledBySeccompStop(c(e))]
  <2>1. \E e \in translate_syscall(y) :
          d = LET x == [e EXCEPT !.restart_how =
                          IF e.sysexit_pending \/ e.seccomp = "DISABLING" THEN "SYSCALL" ELSE @]
              IN [x EXCEPT !.already_handled_enter = @ \/ HandledBySeccompStop(x)]
    BY Zenon DEF EnterBySeccompStop
  <2> QED
    BY <2>1, Zenon
<1>2. /\ SameCall(v, y) /\ SameMode(v, y) /\ y.todo = v.todo /\ y.stop = v.stop
      /\ y.restart_how = "CONT" /\ y.sysexit_pending = v.sysexit_pending
  BY DEF SameCall, SameMode
<1> HIDE DEF y
<1>3. Fresh(y)
  BY <1>2, SameKind DEF SameMode
<1>4. AtEntry(y)
  BY <1>2, <1>3 DEF AtEntry, SameCall
<1>5. e \in EnterStage(y)
  BY <1>1, <1>2 DEF translate_syscall, InSysenter, SameCall
<1>6. SamePlace(y, e) /\ (EntryTaken(e) \/ (EntryPassed(e) /\ SamePending(y, e))) /\ e.rewritten \in BOOLEAN
  BY <1>4, <1>5, EntryStage
<1>7. SameHost(v, e) /\ e.seccomp = "ENABLED" /\ ~ e.already_handled_enter /\ e.skip_next = v.skip_next
  BY <1>2, <1>6 DEF SamePlace, SameMode, SameHost
<1> DEFINE x == c(e)
           handled == x.already_handled_enter \/ HandledBySeccompStop(x)
<1>8. d = [x EXCEPT !.already_handled_enter = handled]
  BY <1>1, Zenon
<1>9. /\ SameCall(e, x) /\ SameHost(e, x) /\ x.seccomp = e.seccomp /\ x.skip_next = e.skip_next
      /\ x.already_handled_enter = e.already_handled_enter /\ x.restart_how = how(e)
  <2>1. x = [e EXCEPT !.restart_how = how(e)]
    OBVIOUS
  <2> HIDE DEF x, how
  <2> QED
    BY ONLY <2>1 DEF SameCall, SameHost
<1> HIDE DEF x
<1>10. /\ SameCall(x, d) /\ SameHost(x, d) /\ d.seccomp = x.seccomp /\ d.skip_next = x.skip_next
       /\ d.restart_how = x.restart_how /\ d.already_handled_enter = handled
  <2> HIDE DEF handled
  <2> QED
    BY ONLY <1>8 DEF SameCall, SameHost
<1>11. handled <=> ~ v.after_enter /\ x.restart_how = "SYSCALL"
  <2>1. ~ x.already_handled_enter /\ x.after_enter = v.after_enter
    BY <1>7, <1>9 DEF SameHost
  <2> QED
    BY <2>1 DEF HandledBySeccompStop
<1>12. /\ SameCall(e, d) /\ SameHost(v, d) /\ e.kernel = v.kernel /\ d.seccomp = v.seccomp
       /\ d.skip_next = v.skip_next /\ d.restart_how = how(e)
  <2> HIDE DEF how, handled
  <2> QED
    BY <1>7, <1>9, <1>10 DEF SameCall, SameHost
<1>13. d.already_handled_enter <=> ~ v.after_enter /\ d.restart_how = "SYSCALL"
  <2>1. d.restart_how = x.restart_how /\ d.already_handled_enter = handled
    BY <1>10
  <2> HIDE DEF handled
  <2> QED
    BY <1>11, <2>1
<1>14. CASE EntryTaken(e)
  <2>1. how(e) = "SYSCALL"
    BY <1>14 DEF EntryTaken
  <2> HIDE DEF how, handled
  <2>2. SeccompEntry(v, e, d)
    BY <1>6, <1>12, <1>13, <1>14, <2>1 DEF SeccompEntry
  <2> QED
    BY <2>2
<1>15. CASE EntryPassed(e) /\ SamePending(y, e)
  <2>1. ~ e.sysexit_pending
    <3>1. e.sysexit_pending = v.sysexit_pending
      BY <1>2, <1>15 DEF SamePending
    <3> QED
      BY <3>1
  <2>2. how(e) = "CONT"
    BY <1>7, <1>15, <2>1 DEF EntryPassed
  <2> HIDE DEF how, handled
  <2>3. SeccompEntry(v, e, d)
    BY <1>6, <1>12, <1>13, <1>15, <2>2 DEF SeccompEntry
  <2> QED
    BY <2>3
<1> QED
  BY <1>6, <1>14, <1>15

\* A stop that came after the entry was handled.
LEMMA SeccompOfHandled ==
  ASSUME InStep(s), Entered(s), Handled(s), s.stop = "seccomp", NEW b, Detected(s, b),
         NEW d, d = Asserts([b EXCEPT !.restart_how = b.last_restart_how], b.last_restart_how # "CONT"),
         NEW r, Resumes(d, r)
  PROVE  InStep(r)
<1>1. ModeOK(s) /\ s.kernel.newer /\ s.kernel.filter /\ s.todo = FromPerform /\ ~ s.already_handled_enter
  <2>1. FromPerform # FromEnter
    BY DEF FromPerform, FromEnter
  <2> QED
    BY <2>1 DEF InStep, Handled, Between, Stopped
<1> DEFINE y == [b EXCEPT !.restart_how = b.last_restart_how]
           ok == b.last_restart_how # "CONT"
<1>2. /\ SameCall(b, y) /\ SameMode(b, y) /\ y.todo = b.todo /\ y.restart_how = b.last_restart_how
  BY DEF SameCall, SameMode
<1>3. d = Asserts(y, ok)
  OBVIOUS
<1> HIDE DEF y
<1>4. b.last_restart_how = "SYSCALL" /\ b.aborted = s.aborted /\ SameCall(s, b)
  BY DEF Detected, Entered
<1>5. ok /\ ~ y.aborted
  BY <1>1, <1>2, <1>4 DEF ModeOK, SameMode
<1> HIDE DEF ok
<1>6. Asserted(y, d)
  BY <1>3, <1>5, AssertHolds
<1>7. /\ Keeps(b, r) /\ SameCall(s, r) /\ r.last_restart_how = "SYSCALL" /\ r.stop = "none"
      /\ r.already_handled_enter = b.already_handled_enter
  <2>1. ~ d.aborted /\ r.aborted = d.aborted
    BY <1>6 DEF Asserted, Resumes, SameHost
  <2> QED
    BY <1>2, <1>4, <1>6, <2>1 DEF Asserted, Resumes, SameHost, SameCall, SameMode, Keeps
<1>8. /\ r.kernel = s.kernel /\ r.todo = FromPerform /\ r.rewritten \in BOOLEAN
      /\ r.already_handled_enter = s.already_handled_enter
  BY <1>1, <1>7 DEF Detected, Keeps, SameCall, ModeOK
<1>9. ModeOK(r) /\ RanOK(r) /\ Knows(r) /\ ~ r.skip_next
  BY <1>1, <1>7, <1>8, KeepsMode
<1>10. /\ Translating(r) <=> Translating(s)
       /\ ChainedCall(r) <=> ChainedCall(s)
       /\ ReplacingCall(r) <=> ReplacingCall(s)
       /\ FaultyCall(r) <=> FaultyCall(s)
  BY <1>7, <1>8, SameKind
<1>11. Handled(r)
  <2>1. FromPerform # FromEnter
    BY DEF FromPerform, FromEnter
  <2>2. \/ Translating(r)
        \/ r.status = 1 /\ r.nr = r.regs.nr /\ (ChainedCall(r) \/ ReplacingCall(r))
        \/ FaultyCall(r)
    BY <1>7, <1>10 DEF Handled, SameCall
  <2> QED
    BY <1>1, <1>7, <1>8, <1>9, <2>1, <2>2 DEF Handled, Between, NoSkip
<1>12. Entered(r)
  BY <1>7, <1>9, <1>11 DEF Entered, SameCall
<1> QED
  BY <1>9, <1>12 DEF InStep

\* The seccomp stop: before the entry it is passed by, after it the call is translated.
LEMMA SeccompHandled ==
  ASSUME InStep(s), s.stop = "seccomp", NEW d \in Outcomes(s), NEW r, Resumes(d, r)
  PROVE  InStep(r)
<1>1. ModeOK(s) /\ RanOK(s)
  BY DEF InStep
<1>2. Entering(s) \/ (Entered(s) /\ Handled(s))
  BY DEF InStep, AtRest, AtTrap, Free, Passing, Trapped, Entered, Doomed, Made, Between, Stopped
<1>3. Entering(s) =>
        /\ s.status = 0 /\ ~ s.already_handled_enter /\ s.regs.pc = "after" /\ s.nr = s.regs.nr
        /\ s.kernel.filter /\ Traced(s.nr)
        /\ Fresh(s) \/ (s.last_restart_how = "SYSCALL" /\ Prompted(s))
        /\ s.kernel.newer =>
             s.todo = FromPerform /\ s.detected /\ s.seccomp = "ENABLED" /\ Fresh(s)
        /\ ~ s.kernel.newer => s.todo = FromEnter
  <2>1. Entering(s) =>
          /\ s.status = 0 /\ ~ s.already_handled_enter /\ s.regs.pc = "after" /\ s.nr = s.regs.nr
          /\ Traced(s.nr)
          /\ Fresh(s) \/ (s.last_restart_how = "SYSCALL" /\ Prompted(s))
          /\ s.kernel.newer => s.todo = FromPerform /\ s.last_restart_how = "CONT"
          /\ ~ s.kernel.newer => s.todo = FromEnter /\ s.kernel.filter
    BY DEF Entering, BeforeEntry, Unhandled, Between, Stopped
  <2>2. s.last_restart_how = "CONT" => s.seccomp = "ENABLED" /\ s.detected /\ s.kernel.filter
    BY <1>1 DEF ModeOK
  <2> QED
    BY <2>1, <2>2
<1>4. /\ s.kernel.filter
      /\ ~ s.detected => (s.status = 0 <=> ~ s.kernel.newer)
  <2>1. Entered(s) /\ Handled(s) => s.kernel.newer /\ s.kernel.filter /\ s.status # 0
    BY DEF Entered, Handled, Between, Stopped
  <2> QED
    BY <1>2, <1>3, <2>1
<1>5. PICK b :
    /\ Detected(s, b)
    /\ \/ /\ b.after_enter /\ ~ InSysenter(b)
          /\ d = Asserts([b EXCEPT !.restart_how = b.last_restart_how], b.last_restart_how # "CONT")
       \/ /\ ~ (b.after_enter /\ ~ InSysenter(b))
          /\ \/ b.seccomp # "ENABLED" /\ d = Asserts(b, InSysenter(b))
             \/ /\ b.seccomp = "ENABLED" /\ (Sysexit(b.nr) \/ Necessary(s))
                /\ \E c \in IF b.after_enter
                            THEN translate_syscall([b EXCEPT !.restart_how = "SYSCALL"]) ELSE {b} :
                      d = [c EXCEPT !.restart_how = "SYSCALL"]
             \/ /\ b.seccomp = "ENABLED" /\ ~ Sysexit(b.nr) /\ ~ Necessary(s)
                /\ d \in EnterBySeccompStop(Asserts(b, InSysenter(b)))
  BY <1>1, <1>4, SeccompOutcomes
<1>6. SameCall(s, b) /\ b.kernel = s.kernel /\ (b.after_enter <=> s.kernel.newer)
  BY <1>5 DEF Detected
<1>7. CASE Entered(s) /\ Handled(s)
  <2>1. b.after_enter /\ ~ InSysenter(b)
    <3>1. s.kernel.newer /\ s.status # 0
      BY <1>7 DEF Entered, Handled, Between, Stopped
    <3> QED
      BY <1>6, <3>1 DEF InSysenter, SameCall
  <2>2. d = Asserts([b EXCEPT !.restart_how = b.last_restart_how], b.last_restart_how # "CONT")
    BY <1>5, <2>1, Zenon
  <2> QED
    BY <1>5, <1>7, <2>2, SeccompOfHandled
<1>8. CASE Entering(s)
  <2>1. InSysenter(b)
    BY <1>3, <1>6, <1>8 DEF InSysenter, SameCall
  <2>2. /\ b.rewritten \in BOOLEAN /\ b.status = 0 /\ b.regs.pc = "after" /\ b.nr = b.regs.nr
        /\ ~ b.already_handled_enter /\ b.todo = s.todo /\ ~ b.aborted
        /\ b.seccomp = IF s.detected THEN s.seccomp ELSE "ENABLED"
        /\ b.restart_how = ByDefault(s) /\ b.last_restart_how = s.last_restart_how
    BY <1>1, <1>3, <1>5, <1>6, <1>8 DEF Detected, SameCall, ModeOK
  <2>3. /\ Fresh(b) <=> Fresh(s)
        /\ Prompted(b) <=> Prompted(s)
    BY <1>6, SameKind
  \* On an old kernel the entry is still to come.
  <2>4. ASSUME ~ s.kernel.newer, Keeps(b, r), SameCall(b, r), r.stop = "none",
               r.last_restart_how = "SYSCALL", ~ r.already_handled_enter
        PROVE  InStep(r)
    <3>1. r.kernel = s.kernel /\ r.todo = FromEnter /\ r.rewritten \in BOOLEAN /\ r.status = 0
      BY <1>3, <1>6, <1>8, <2>2, <2>4 DEF Keeps, SameCall
    <3>2. ModeOK(r) /\ RanOK(r) /\ Knows(r) /\ ~ r.skip_next
      BY <1>4, <1>5, <2>4, <3>1, KeepsMode
    <3>3. SameCall(s, r)
      BY <1>6, <2>4 DEF SameCall
    <3>4. /\ Fresh(r) <=> Fresh(s)
          /\ Prompted(r) <=> Prompted(s)
      BY <3>1, <3>3, SameKind
    <3>5. BeforeEntry(r)
      BY <2>4, <3>1, <3>2 DEF BeforeEntry, Between
    <3>6. Entering(r)
      BY <1>3, <1>8, <2>4, <3>1, <3>2, <3>3, <3>4, <3>5 DEF Entering, Unhandled, NoSkip, SameCall
    <3> QED
      BY <3>2, <3>6 DEF InStep
  <2>5. CASE b.seccomp # "ENABLED"
    <3>1. d = Asserts(b, InSysenter(b))
      BY <1>5, <2>1, <2>5, Zenon
    <3>2. Asserted(b, d)
      <4> DEFINE ok == InSysenter(b)
      <4>1. ok /\ d = Asserts(b, ok)
        BY <2>1, <3>1
      <4> HIDE DEF ok
      <4> QED
        BY <2>2, <4>1, AssertHolds
    <3>3. ~ s.kernel.newer
      BY <1>3, <1>8, <2>2, <2>5
    <3>4. ByDefault(s) = "SYSCALL"
      <4>1. s.seccomp # "ENABLED"
        BY <2>2, <2>5
      <4> QED
        BY <4>1 DEF ByDefault
    <3>5. /\ Keeps(b, r) /\ SameCall(b, r) /\ r.stop = "none" /\ r.last_restart_how = "SYSCALL"
      BY <2>2, <3>2, <3>4 DEF Asserted, Resumes, SameHost, SameCall, Keeps
    <3>6. ~ r.already_handled_enter
      <4>1. r.already_handled_enter = b.already_handled_enter
        BY <3>2 DEF Asserted, Resumes
      <4> QED
        BY <2>2, <4>1
    <3> QED
      BY <2>4, <3>3, <3>5, <3>6
  <2>6. CASE b.seccomp = "ENABLED" /\ (Sysexit(b.nr) \/ Necessary(s))
    <3>1. PICK c \in IF b.after_enter
                     THEN translate_syscall([b EXCEPT !.restart_how = "SYSCALL"]) ELSE {b} :
             d = [c EXCEPT !.restart_how = "SYSCALL"]
      BY <1>5, <2>1, <2>6, Zenon
    <3>2. /\ SameCall(c, d) /\ SameHost(c, d) /\ d.seccomp = c.seccomp /\ d.skip_next = c.skip_next
          /\ d.already_handled_enter = c.already_handled_enter /\ d.restart_how = "SYSCALL"
      BY ONLY <3>1 DEF SameCall, SameHost
    <3>3. CASE ~ s.kernel.newer
      <4>1. c = b
        BY <1>6, <3>1, <3>3
      <4>2. Keeps(b, r) /\ SameCall(b, r) /\ r.stop = "none" /\ r.last_restart_how = "SYSCALL"
        BY <2>2, <3>2, <4>1 DEF Resumes, SameHost, SameCall, Keeps
      <4>3. ~ r.already_handled_enter
        <5>1. r.already_handled_enter = b.already_handled_enter
          BY <3>2, <4>1 DEF Resumes
        <5> QED
          BY <2>2, <5>1
      <4> QED
        BY <2>4, <3>3, <4>2, <4>3
    <3>4. CASE s.kernel.newer
      <4> DEFINE y == [b EXCEPT !.restart_how = "SYSCALL"]
      <4>1. c \in translate_syscall(y)
        BY <1>6, <3>1, <3>4, Zenon
      <4>2. SameCall(b, y) /\ SameMode(b, y) /\ y.todo = b.todo /\ y.restart_how = "SYSCALL"
        BY DEF SameCall, SameMode
      <4> HIDE DEF y
      <4>3. AtEntry(y)
        <5>1. Fresh(y)
          <6>1. Fresh(y) <=> Fresh(b)
            BY <4>2, SameKind DEF SameMode
          <6> QED
            BY <1>3, <1>8, <2>3, <3>4, <6>1
        <5> QED
          BY <2>2, <4>2, <5>1 DEF AtEntry, SameCall
      <4>4. c \in EnterStage(y)
        BY <2>2, <4>1, <4>2 DEF translate_syscall, InSysenter, SameCall
      <4>5. SamePlace(y, c) /\ EntryTaken(c) /\ c.rewritten \in BOOLEAN
        BY <4>2, <4>3, <4>4, EntryStage
      <4>6. Keeps(b, r) /\ SameCall(c, r) /\ r.stop = "none" /\ r.last_restart_how = "SYSCALL"
        BY <2>2, <3>2, <4>2, <4>5 DEF SamePlace, SameMode, Resumes, SameHost, SameCall, Keeps
      <4>7. r.already_handled_enter = b.already_handled_enter
        BY <3>2, <4>2, <4>5 DEF SamePlace, SameMode, Resumes
      <4>8. r.rewritten \in BOOLEAN /\ r.kernel = c.kernel /\ r.todo = FromPerform
        BY <1>3, <1>8, <2>2, <3>4, <4>2, <4>5, <4>6 DEF SamePlace, SameMode, SameCall, Keeps
      <4>9. ModeOK(r) /\ RanOK(r) /\ Knows(r) /\ ~ r.skip_next
        BY <1>4, <1>5, <4>6, <4>8, KeepsMode
      <4>10. Onwards(c, r)
        BY <2>2, <4>6, <4>7, <4>8, <4>9 DEF Onwards
      <4> QED
        BY <4>5, <4>6, <4>8, <4>9, <4>10, GoesOn
    <3> QED
      BY <3>3, <3>4
  <2>7. CASE b.seccomp = "ENABLED" /\ ~ Sysexit(b.nr) /\ ~ Necessary(s)
    <3> DEFINE ok == InSysenter(b)
               v == Asserts(b, ok)
    <3>1. d \in EnterBySeccompStop(v)
      BY <1>5, <2>1, <2>7, Zenon
    <3>2. ok /\ v = Asserts(b, ok)
      BY <2>1
    <3> HIDE DEF ok, v
    <3>3. Asserted(b, v)
      BY <2>2, <3>2, AssertHolds
    <3>4. Fresh(v)
      <4>1. ~ Prompted(s)
        BY <2>7 DEF Necessary, Prompted, RewrittenCall, ChainedCall, ReplacingCall, InChain
      <4>2. Fresh(v) <=> Fresh(b)
        BY <3>3, SameKind DEF Asserted
      <4> QED
        BY <1>3, <1>8, <2>3, <4>1, <4>2
    <3>5. ~ v.sysexit_pending
      <4>1. v.sysexit_pending = s.sysexit_pending
        BY <1>5, <3>3 DEF Asserted, Detected
      <4> QED
        BY <2>7, <4>1 DEF Necessary
    <3>6. ~ v.already_handled_enter
      <4>1. v.already_handled_enter = b.already_handled_enter
        BY <3>3 DEF Asserted
      <4> QED
        BY <2>2, <4>1
    <3>7. PICK e : SeccompEntry(v, e, d)
      <4>1. /\ v.rewritten \in BOOLEAN /\ v.status = 0 /\ v.regs.pc = "after" /\ v.nr = v.regs.nr
            /\ ~ Sysexit(v.nr) /\ v.seccomp = "ENABLED"
        BY <2>2, <2>7, <3>3 DEF Asserted, SameCall
      <4> QED
        BY <3>1, <3>4, <3>5, <3>6, <4>1, EnterBySeccomp
    <3>8. /\ SameCall(e, r) /\ SameHost(v, r) /\ r.seccomp = v.seccomp /\ r.skip_next = v.skip_next
          /\ r.last_restart_how = d.restart_how /\ r.stop = "none"
      BY <3>7 DEF SeccompEntry, Resumes, SameHost, SameCall
    <3>9. Keeps(b, r)
      <4>1. ~ v.aborted /\ r.aborted = v.aborted
        BY <3>3, <3>8 DEF Asserted, SameHost
      <4> QED
        BY <3>3, <3>8, <4>1 DEF Asserted, SameHost, Keeps
    <3>10. /\ r.rewritten \in BOOLEAN /\ r.kernel = e.kernel
           /\ r.last_restart_how \in {"SYSCALL", "CONT"}
      BY <3>7, <3>8 DEF SeccompEntry, SameCall, SameHost
    <3>11. ModeOK(r) /\ RanOK(r) /\ Knows(r) /\ ~ r.skip_next
      BY <1>4, <1>5, <2>7, <3>9, <3>10, KeepsMode
    <3>12. /\ r.todo = s.todo /\ r.kernel = s.kernel
           /\ r.already_handled_enter = d.already_handled_enter
           /\ v.after_enter = b.after_enter
      BY <1>6, <2>2, <3>3, <3>9 DEF Keeps, Resumes, Asserted
    <3>13. CASE EntryTaken(e) /\ d.restart_how = "SYSCALL"
                /\ (d.already_handled_enter <=> ~ v.after_enter)
      <4>1. r.already_handled_enter <=> ~ s.kernel.newer
        BY <1>6, <3>12, <3>13
      <4>2. Onwards(e, r)
        BY <1>3, <1>8, <3>8, <3>11, <3>12, <3>13, <4>1 DEF Onwards
      <4> QED
        BY <3>8, <3>10, <3>11, <3>13, <4>2, GoesOn
    <3>14. CASE EntryPassed(e) /\ d.restart_how = "CONT" /\ ~ d.already_handled_enter
      <4>1. NoChain(r) <=> NoChain(e)
        BY <3>8, <3>10, SameKind
      <4>2. ~ r.already_handled_enter
        BY <3>12, <3>14
      <4>3. Passing(r)
        BY <1>3, <1>8, <3>8, <3>11, <3>12, <3>14, <4>1, <4>2
        DEF EntryPassed, Passing, Unhandled, NoSkip, SameCall
      <4> QED
        BY <3>11, <4>3 DEF InStep
    <3> QED
      BY <3>7, <3>13, <3>14 DEF SeccompEntry
  <2> QED
    BY <2>5, <2>6, <2>7
<1> QED
  BY <1>2, <1>7, <1>8

(***************************************************************************)
(* Every step, and the theorem.                                            *)
(***************************************************************************)

\* Every state that PRoot finds the tracee stopped in has a handler that keeps it in step.
LEMMA HandleStopInStep ==
  ASSUME InStep(s), HandleStop
  PROVE  InStep(s')
<1>1. s.stop # "none"
  BY DEF HandleStop, Running
<1>2. PICK b \in Outcomes(s) :
        s' = [b EXCEPT !.stop = "none", !.last_restart_how = b.restart_how, !.restart_how = "none"]
  BY Zenon DEF HandleStop
<1>3. Resumes(b, s')
  BY ONLY <1>2, Restarts
<1>4. s.stop \in {"enter", "exit", "seccomp", "sigsys", "event", "signal"}
  BY <1>1
  DEF InStep, AtRest, AtTrap, Free, Entering, BeforeEntry, Passing, Trapped, Entered, Doomed,
     Handled, Made, Between, Stopped
<1>5. CASE s.stop = "enter"
  BY <1>3, <1>5, EnterStopInStep
<1>6. CASE s.stop = "exit"
  BY <1>3, <1>6, ExitStopInStep
<1>7. CASE s.stop = "seccomp"
  BY <1>3, <1>7, SeccompHandled
<1>8. CASE s.stop = "sigsys"
  BY <1>3, <1>8, SigsysHandled
<1>9. CASE s.stop = "event"
  BY <1>3, <1>9, EventHandled
<1>10. CASE s.stop = "signal"
  BY <1>3, <1>10, SignalHandled
<1> QED
  BY <1>4, <1>5, <1>6, <1>7, <1>8, <1>9, <1>10

\* Every step of the guest, of the kernel and of PRoot keeps the tracee in step.
LEMMA StagesStep == Asked /\ StagesInv /\ [StagesNext]_s => StagesInv'
<1> SUFFICES ASSUME Asked, InStep(s), [StagesNext]_s PROVE InStep(s')
  BY DEF StagesInv
<1>1. ASSUME NEW nr \in Requests[s.kernel.policy], GuestCall(nr) PROVE InStep(s')
  BY <1>1, GuestCallInStep
<1>2. ASSUME NEW signal \in Signals, Send(signal) PROVE InStep(s')
  BY <1>2, SendSame, SignalInStep
<1>3. CASE GuestTrap
  BY <1>3, GuestTrapInStep
<1>4. ASSUME NEW point \in {"enter", "exit"}, SyscallStop(point) PROVE InStep(s')
  BY <1>4, SyscallStopInStep
<1>5. CASE SeccompCheck
  BY <1>5, SeccompCheckInStep
<1>6. CASE Perform
  BY <1>6, PerformInStep
<1>7. CASE OtherStop
  BY <1>7, OtherStopInStep
<1>8. CASE SignalStop
  <2>1. /\ SameCall(s, s') /\ SameMode(s, s') /\ s'.todo = s.todo
        /\ s'.stop = "signal" /\ s.stop = "none" /\ s.todo = <<>>
    BY <1>8, SignalStopSame
  <2> QED
    BY <2>1, SignalInStep
<1>9. CASE HandleStop
  BY <1>9, HandleStopInStep
<1>10. CASE UNCHANGED s
  BY <1>10
<1> QED
  BY <1>1, <1>2, <1>3, <1>4, <1>5, <1>6, <1>7, <1>8, <1>9, <1>10 DEF StagesNext, Kernel

\* Back in its own code the guest is at rest: no other state of a call is without a stop.
LEMMA ReturnedAtRest == StagesInv /\ Returned => AtRest(s)
BY StepsLeft
DEF StagesInv, InStep, Returned, InGuest, Running, AtTrap, Entering, BeforeEntry, Passing,
   Trapped, Entered, Doomed, Handled, Made, Between, Stopped

\* In step, a tracee is what it should be.
LEMMA InStepFaithful == StagesInv => CallsFaithful
<1> SUFFICES ASSUME StagesInv PROVE CallsFaithful
  OBVIOUS
<1>1. ModeOK(s) /\ RanOK(s)
  BY DEF StagesInv, InStep
<1>2. ASSUME Returned PROVE AtRest(s)
  BY <1>2, ReturnedAtRest
<1>3. TranslatedOnce
  BY <1>1 DEF RanOK, TranslatedOnce
<1>4. InSync
  BY <1>1, <1>2 DEF ModeOK, AtRest, Free, Unhandled, Answer, NoChain, InSync, InSysenter
<1>5. ResultKept
  BY <1>2 DEF AtRest, Answer, ResultKept
<1> QED
  BY <1>3, <1>4, <1>5 DEF CallsFaithful

\* Every call of the guest reaches the kernel translated, leaves the guest's registers and
\* the stages of PRoot as they should be and returns what is due, in both orders of the
\* stops, whatever is chained, rewritten, replaced or forbidden (tracee/event.c).
THEOREM CallsAreFaithful ==
  ASSUME Asked
  PROVE  StagesSpec => []CallsFaithful
<1>1. StagesInit => StagesInv
  BY StagesInitInv
<1>2. StagesInv /\ [StagesNext]_s => StagesInv'
  BY StagesStep
<1>3. StagesInv => CallsFaithful
  BY InStepFaithful
<1> QED
  BY <1>1, <1>2, <1>3, PTL DEF StagesSpec
===============================================================================

------------------------------ MODULE FakeCreds ------------------------------
(***************************************************************************)
(* The user and group ids fake_id0 shows to a tracee, and the calls        *)
(* that change them (extension/fake_id0/fake_id0.c): the macros SETXID,    *)
(* SETREXID, SETRESXID and SETFSXID, which serve the exit of a traced call *)
(* and the SIGSYS of a forbidden one alike; execve(2), prctl(2) and the    *)
(* results of the calls that read ids.  A child starts with a copy         *)
(* (INHERIT_CHILD), so one tracee stands for a line of descent.            *)
(***************************************************************************)
EXTENDS Integers, FiniteSets

CONSTANTS
    Start,         \* the id given to -i or -0
    UserIds,           \* the ids the programs use, 0 among them
    RealUid,       \* the user and the group PRoot itself runs as
    RealGid

ASSUME CredAssumption == {0, Start} \subseteq UserIds /\ UserIds \subseteq Nat

VARIABLES
    config,        \* of the tracee: the ids of each type, caps_active, keep_caps
    lastCall       \* history: the call that was made, and its result

credVars == <<config, lastCall>>

Unset == -1
Args == UserIds \cup {Unset}
Types == {"u", "g"}

Same(id) == [r |-> id, e |-> id, s |-> id, fs |-> id]

OneRoot(c) == c.u.r = 0 \/ c.u.e = 0 \/ c.u.s = 0

\* Mutant of Privileged: an effective group of 0 will do.
MutPrivileged(c) == c.u.e = 0 \/ c.g.e = 0 \/ c.caps

\* The tracee may change its ids at will.
Privileged(c) == c.u.e = 0 \/ c.caps

\* MAYBE_DROP_CAPS(): no user id is 0 any more.
MaybeDropCaps(old, new) ==
    IF OneRoot(old) /\ ~ new.keep /\ ~ OneRoot(new)
    THEN [new EXCEPT !.caps = FALSE] ELSE new

Eperm(c) == [config |-> c, result |-> "EPERM"]
Changed(old, new) == [config |-> MaybeDropCaps(old, new), result |-> "OK"]

KnownIds(ids) == {ids.r, ids.e, ids.s}

Or(arg, id) == IF arg = Unset THEN id ELSE arg

------------------------------------------------------------------------------
\* SETXID(): setuid(2), setgid(2)
Setxid(c, type, id) ==
    LET ids == IF Privileged(c) THEN [c[type] EXCEPT !.r = id, !.s = id] ELSE c[type]
    IN  IF Privileged(c) \/ id \in KnownIds(c[type])
        THEN Changed(c, [c EXCEPT ![type] = [ids EXCEPT !.e = id, !.fs = id]])
        ELSE Eperm(c)

\* SETREXID(): its argument @r or @e may be Unset.
AllowedRexid(c, type, r, e) ==
    LET ids == c[type]
    IN  \/ Privileged(c)
        \/ e \in {Unset, ids.e} /\ r \in {Unset, ids.r}
        \/ r = ids.e /\ e \in {ids.r, Unset}
        \/ e = ids.r /\ r \in {ids.e, Unset}
        \/ e = ids.s /\ r \in {Unset, ids.r}

\* Mutant of SavedRexid: the saved id is left alone.
MutSavedRexid(ids, r, e) == ids.s

\* The saved id after setreuid(2).
SavedRexid(ids, r, e) ==
    IF e # Unset /\ (e # ids.r \/ r # Unset) THEN e ELSE ids.s

Setrexid(c, type, r, e) ==
    LET ids == c[type]
        new == [r |-> Or(r, ids.r), e |-> Or(e, ids.e),
                s |-> SavedRexid(ids, r, e), fs |-> Or(e, ids.fs)]
    IN  IF AllowedRexid(c, type, r, e) THEN Changed(c, [c EXCEPT ![type] = new])
        ELSE Eperm(c)

\* SETRESXID()
Setresxid(c, type, r, e, s) ==
    LET ids == c[type]
        new == [r |-> Or(r, ids.r), e |-> Or(e, ids.e), s |-> Or(s, ids.s),
                fs |-> Or(e, ids.fs)]
    IN  IF Privileged(c) \/ {r, e, s} \subseteq KnownIds(ids) \cup {Unset}
        THEN Changed(c, [c EXCEPT ![type] = new])
        ELSE Eperm(c)

\* SETFSXID(): never fails.
Setfsxid(c, type, fs) ==
    [config |-> IF Privileged(c) \/ fs \in KnownIds(c[type]) \cup {c[type].fs}
                THEN [c EXCEPT ![type].fs = fs] ELSE c,
     result |-> "OK"]

\* What a call of a tracee does: [name, type, r, e, s].
Answer(c, call) ==
    CASE call.name = "set" -> Setxid(c, call.type, call.e)
      [] call.name = "setre" -> Setrexid(c, call.type, call.r, call.e)
      [] call.name = "setres" -> Setresxid(c, call.type, call.r, call.e, call.s)
      [] call.name = "setfs" -> Setfsxid(c, call.type, call.e)

CredCalls ==
    [name: {"set", "setfs"}, type: Types, r: {Unset}, e: UserIds, s: {Unset}]
    \cup [name: {"setre"}, type: Types, r: Args, e: Args, s: {Unset}]
    \cup [name: {"setres"}, type: Types, r: Args, e: Args, s: Args]

NoCredCall == [name |-> "none", result |-> "OK"]

Set(call) ==
    LET answer == Answer(config, call)
    IN  /\ config' = answer.config
        /\ lastCall' = [name |-> call.name, result |-> answer.result]

\* prctl(PR_SET_KEEPCAPS) once it succeeded.
SetKeepCaps(on) ==
    /\ config' = [config EXCEPT !.keep = on]
    /\ lastCall' = [name |-> "keep_caps", result |-> "OK"]

\* execve(2) once it succeeded, of a file with these bits.
CredExec(suid, sgid) ==
    /\ config' = [u    |-> IF suid THEN [config.u EXCEPT !.e = 0, !.s = 0] ELSE config.u,
                  g    |-> IF sgid THEN [config.g EXCEPT !.e = 0, !.s = 0] ELSE config.g,
                  caps |-> config.caps \/ suid,
                  keep |-> FALSE]
    /\ lastCall' = [name |-> IF suid THEN "exec_suid" ELSE "exec", result |-> "OK"]

\* INITIALIZATION
CredInit ==
    /\ config = [u |-> Same(Start), g |-> Same(Start), caps |-> Start = 0, keep |-> FALSE]
    /\ lastCall = NoCredCall

CredNext ==
    \/ \E call \in CredCalls : Set(call)
    \/ \E on \in BOOLEAN : SetKeepCaps(on)
    \/ \E suid, sgid \in BOOLEAN : CredExec(suid, sgid)

CredSpec == CredInit /\ [][CredNext]_credVars

------------------------------------------------------------------------------
(***************************************************************************)
(* What the programs are shown.                                            *)
(***************************************************************************)

Real(type) == IF type = "u" THEN RealUid ELSE RealGid

\* getresuid(2), getresgid(2): 16 bits are written over what the kernel wrote.
Getresxid(type, id) == (Real(type) - (Real(type) % 65536)) + (id % 65536)

\* Mutant of StatShows: the effective id is shown.
MutStatShows(c, type, id) == IF id = Real(type) THEN c[type].e ELSE id

\* The owner chown(2) gives the kernel, and the one stat(2) shows.
ChownArg(c, type, id) == IF id = c[type].r THEN Real(type) ELSE id
StatShows(c, type, id) == IF id = Real(type) THEN c[type].s ELSE id

\* The owner statx(2) shows.
StatxShows(c, type, id) == IF id = RealUid THEN c[type].s ELSE id

------------------------------------------------------------------------------
(***************************************************************************)
(* The kernel, for one that has, or not, CAP_SETUID and CAP_SETGID.        *)
(***************************************************************************)

KernelAllows(c, call) ==
    LET ids == c[call.type]
    IN  \/ Privileged(c)
        \/ call.name = "set" /\ call.e \in {ids.r, ids.s}
        \/ call.name = "setre" /\ call.r \in {Unset, ids.r, ids.e}
                               /\ call.e \in KnownIds(ids) \cup {Unset}
        \/ call.name = "setres" /\ {call.r, call.e, call.s} \subseteq KnownIds(ids) \cup {Unset}
        \/ call.name = "setfs" /\ call.e \in KnownIds(ids) \cup {ids.fs}

KernelIds(c, call) ==
    LET ids == c[call.type]
        e == Or(call.e, ids.e)
    IN  CASE call.name = "set" ->
                IF Privileged(c) THEN Same(e) ELSE [ids EXCEPT !.e = e, !.fs = e]
          [] call.name = "setre" ->
                [r |-> Or(call.r, ids.r), e |-> e, fs |-> e,
                 s |-> IF call.r # Unset \/ (call.e # Unset /\ call.e # ids.r)
                       THEN e ELSE ids.s]
          [] call.name = "setres" ->
                [r |-> Or(call.r, ids.r), e |-> e, fs |-> e, s |-> Or(call.s, ids.s)]
          [] call.name = "setfs" -> [ids EXCEPT !.fs = call.e]

\* The call sets the real id alone: the saved one should become the effective.
SetsRealAlone(call) == call.name = "setre" /\ call.r # Unset /\ call.e = Unset

\* KernelAgrees.  Whatever ids a tracee has come to, a call that
\* fake_id0 lets through and that changes an id is one the kernel lets through,
\* and leaves the ids the kernel leaves; only where the effective id is not set,
\* the saved one (setreuid of the real id alone) and the file-system one may
\* differ, and setuid of the effective id itself is let through.  A call that
\* fake_id0 refuses is refused by the kernel too, or sets both ids by setreuid.
KernelAgrees ==
    \A call \in CredCalls :
        LET answer == Answer(config, call)
            old == config[call.type]
            ids == answer.config[call.type]
            k   == KernelIds(config, call)
            ok  == answer.result = "OK"
            own == call.name = "set" /\ call.e = old.e
        IN  /\ ok /\ ids # old =>
                 /\ KernelAllows(config, call) \/ own
                 /\ ids.r = k.r /\ ids.e = k.e
                 /\ ids.s = k.s \/ SetsRealAlone(call)
                 /\ ids.fs = k.fs \/ call.e = Unset
            /\ ~ ok => \/ ~ KernelAllows(config, call)
                       \/ call.name = "setre" /\ Unset \notin {call.r, call.e}

\* NoRegain.  A tracee that gave up all its root ids, and its
\* capabilities with them ("permanent privilege drop"), gets a root user id or
\* the capabilities back by executing a setuid program only.
NoRegain ==
    [][~ OneRoot(config) /\ ~ config.caps /\ lastCall'.name # "exec_suid" =>
           ~ OneRoot(config') /\ ~ config'.caps]_credVars

\* OwnersRoundTrip.  A file given to the tracee's own id is shown as
\* owned by it, by stat(2) and statx(2) alike, as long as its real and saved ids
\* are the same; and getresuid(2) tells the ids getuid(2) tells.
OwnersRoundTrip ==
    \A type \in Types :
        LET id == config[type].r
        IN  /\ id = config[type].s => StatShows(config, type, ChownArg(config, type, id)) = id
            /\ StatxShows(config, type, Real(type)) = StatShows(config, type, Real(type))
            /\ Getresxid(type, id) = id

\* PROPERTY IdsKept.  The ids a tracee comes to, by any calls and executions, are
\* those it may have: KernelAgrees at the start and after any call, a privilege
\* that was dropped does not come back, and the owners shown are the ids it has.
IdsKept ==
    /\ KernelAgrees
    /\ [](lastCall # NoCredCall => KernelAgrees)
    /\ NoRegain
    /\ []OwnersRoundTrip
==============================================================================

------------------------------ MODULE FakeModes ------------------------------
(***************************************************************************)
(* The permissions fake_id0 forces on files for a tracee whose effective   *)
(* user id is 0 (override_permissions(), fake_id0.c).  While a path is     *)
(* translated each of its components is made accessible, and what its mode *)
(* shall be is kept in the tracee's memory collector; it is restored when  *)
(* the collector is flushed (get_tracee(), tracee/tracee.c), at the next   *)
(* stop of the tracee or whenever someone looks it up.                     *)
(***************************************************************************)
EXTENDS Integers, Sequences, SequencesExt

CONSTANTS
    ModeTracees,
    Dir, ModeFiles         \* a directory, and the files in it

ASSUME ModeAssumption == Dir \notin ModeFiles

VARIABLES
    mode,       \* of a node: is it open to PRoot's user, or shut?
    collector,  \* tracee->ctx: the modes to restore, the oldest first
    doing,      \* the call a tracee is in, between its entry and its exit
    given,      \* history: the modes the programs gave
    denied,     \* history: a call of root failed for want of permission
    meddled     \* history: two calls on a node overlapped, a collector was
                \* flushed during its call, or PRoot died

modeVars == <<mode, collector, doing, given, denied, meddled>>

Nodes == {Dir} \cup ModeFiles
Modes == {"open", "shut"}
NoModeCall == [name |-> "none"]
ModeCalls == [name: {"access", "stat", "chmod"}, file: ModeFiles, to: Modes]

\* Mutant of Kept: the mode is the one the node has.
MutKept(call, node) == [node |-> node, mode |-> "shut"]

\* The ModifiedNode of a node that is shut.
Kept(call, node) ==
    [node |-> node, mode |-> IF node = call.file /\ call.name = "chmod" THEN call.to ELSE "shut"]

\* override_permissions() for one component of the path; the file is the final one.
Override(s, call, node) ==
    IF s.mode[node] = "open" \/ (node = call.file /\ call.name = "stat") THEN s
    ELSE [mode |-> [s.mode EXCEPT ![node] = "open"],
          kept |-> Append(s.kept, Kept(call, node))]

Entries(kept, n) == {i \in DOMAIN kept : kept[i].node = n}

\* restore_mode(), as talloc calls it: the newest first, so that the oldest is the last.
Restored(modes, kept) ==
    [n \in Nodes |-> IF Entries(kept, n) = {} THEN modes[n] ELSE kept[Min(Entries(kept, n))].mode]

NodeBusy(n, t) == \E u \in ModeTracees \ {t} :
    \/ Entries(collector[u], n) # {}
    \/ doing[u] # NoModeCall /\ n \in {Dir, doing[u].file}

------------------------------------------------------------------------------
\* The entry of a call on a file; the stop flushes what the last one left.
EnterCall(t, call) ==
    /\ doing[t] = NoModeCall
    /\ LET fresh == [mode |-> Restored(mode, collector[t]), kept |-> << >>]
           on == Override(Override(fresh, call, Dir), call, call.file)
       IN  mode' = on.mode /\ collector' = [collector EXCEPT ![t] = on.kept]
    /\ doing' = [doing EXCEPT ![t] = call]
    /\ meddled' = (meddled \/ NodeBusy(Dir, t) \/ NodeBusy(call.file, t))
    /\ UNCHANGED <<given, denied>>

\* The kernel runs it.
Run(t) ==
    /\ doing[t] # NoModeCall
    /\ LET call == doing[t]
           ok == mode[Dir] = "open" /\ (call.name = "access" => mode[call.file] = "open")
           done == ok /\ call.name = "chmod"
       IN  /\ mode' = [mode EXCEPT ![call.file] = IF done THEN call.to ELSE @]
           /\ given' = [given EXCEPT ![call.file] = IF done THEN call.to ELSE @]
           /\ denied' = (denied \/ ~ ok)
    /\ doing' = [doing EXCEPT ![t] = NoModeCall]
    /\ UNCHANGED <<collector, meddled>>

\* The next stop of the tracee, its end, or get_tracee() for its pid on behalf
\* of another (SO_PEERCRED of a socket, wait(2) of a ptracer).
Flush(t) ==
    /\ mode' = Restored(mode, collector[t])
    /\ collector' = [collector EXCEPT ![t] = << >>]
    /\ meddled' = (meddled \/ doing[t] # NoModeCall)
    /\ UNCHANGED <<doing, given, denied>>

\* PRoot is killed, and its tracees with it; the files stay.
Die ==
    /\ collector' = [t \in ModeTracees |-> << >>]
    /\ doing' = [t \in ModeTracees |-> NoModeCall]
    /\ meddled' = (meddled \/ \E t \in ModeTracees : collector[t] # << >>)
    /\ UNCHANGED <<mode, given, denied>>

ModeInit ==
    /\ mode \in [Nodes -> Modes]
    /\ given = mode
    /\ collector = [t \in ModeTracees |-> << >>]
    /\ doing = [t \in ModeTracees |-> NoModeCall]
    /\ denied = FALSE /\ meddled = FALSE

ModeStep(t) == (\E call \in ModeCalls : EnterCall(t, call)) \/ Run(t) \/ Flush(t)

ModeNext == (\E t \in ModeTracees : ModeStep(t)) \/ Die

ModeSpec == ModeInit /\ [][ModeNext]_modeVars

------------------------------------------------------------------------------
\* INVARIANT ModesComeBack.  As long as the calls of root on a node do not
\* overlap and no collector is flushed during its call, root is never denied and
\* every mode is, once nothing is left to restore, the last one a program gave.
ModesComeBack ==
    ~ meddled =>
        /\ ~ denied
        /\ (\A t \in ModeTracees : collector[t] = << >>) => mode = given
==============================================================================

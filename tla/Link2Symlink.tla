------------------------------ MODULE Link2Symlink ------------------------------
(***************************************************************************)
(* The link2symlink extension (link2symlink.c): hard links, which Android  *)
(* forbids, made of symbolic links.  A file with several names is moved to *)
(* a "final" path whose suffix counts its names; an "intermediate" path is *)
(* a symbolic link to it, and each name is one to the intermediate path.   *)
(*                                                                         *)
(* link(2) is emulated wholly by PRoot.  unlink(2) and rename(2) are done  *)
(* in two halves: at the entry of the system call PRoot takes one off the  *)
(* count, then the kernel removes the name.  PRoot's handler is a sequence *)
(* of system calls on the host; the kernel halves of other tracees' calls  *)
(* may fall between any two of them.                                       *)
(***************************************************************************)
EXTENDS Naturals, Sequences, FiniteSets

CONSTANTS
  Tracees,
  Names,       \* the names guests give to regular files, in one directory
  Files,       \* the contents, each created once
  MaxSuffix,   \* bound on the numbers of intermediate paths (999)
  MaxCount,    \* bound on the count of names (9999)
  Faults,      \* whether host calls fail and PRoot is killed
  MaxBroken,   \* bound: with more paths broken, no call starts beside another, see Starts
  NoTracee, NoFile

ASSUME LinkAssumption ==
  /\ NoTracee \notin Tracees /\ NoFile \notin Files
  /\ MaxSuffix \in Nat \ {0} /\ MaxCount \in Nat \ {0, 1}
  /\ Faults \in BOOLEAN /\ MaxBroken \in Nat

VARIABLES
  data,     \* the host's regular files: path -> content
  link,     \* the host's symbolic links: path -> path
  call,     \* per tracee, the link, unlink or rename it is in
  handler,  \* the handler PRoot runs: the host calls it still has to make
  meant,    \* history: the content each name should show
  home,     \* history: the intermediate path a file was given
  broken,   \* history: the intermediate paths that were mishandled, see below
  mixed     \* history: those at which two files met, see below

hostVars == <<data, link>>
history  == <<meant, home, broken, mixed>>
vars     == <<hostVars, call, handler, history>>

\* A host path: a name, intermediate path k of a name, or its final path n.
NoPath     == <<>>
Name(a)    == <<a, 0, 0>>
Inter(a, k) == <<a, k, 0>>
Final(i, n) == <<i[1], i[2], n>>
Count(p)   == p[3]

Inters == {Inter(a, k) : a \in Names, k \in 1 .. MaxSuffix}
Paths  == {Name(a) : a \in Names} \cup Inters
            \cup {Final(i, n) : i \in Inters, n \in 1 .. MaxCount}

\* No call: otherwise dec is the intermediate path whose count PRoot lowered.
NoCall == [op |-> "none", from |-> NoPath, to |-> NoPath, dec |-> NoPath, half |-> "none"]

\* No handler: otherwise todo are its host calls, on the names of path, and
\* shows is (history) the content that a new name should show.
NoHandler == [tracee |-> NoTracee, todo |-> <<>>, path |-> NoPath, shows |-> NoFile]

HostCalls == [do : {"rename", "symlink", "unlink"}, from : Paths \cup {NoPath}, to : Paths]

LinkTypeOK ==
  /\ data \in [Paths -> Files \cup {NoFile}]
  /\ link \in [Paths -> Paths \cup {NoPath}]
  /\ call \in [Tracees -> [op : {"none", "link", "unlink", "rename"},
                           from : Paths \cup {NoPath}, to : Paths \cup {NoPath},
                           dec : Inters \cup {NoPath}, half : {"none", "proot", "kernel"}]]
  /\ handler.tracee \in Tracees \cup {NoTracee}
  /\ handler.todo \in Seq(HostCalls)
  /\ handler.path \in Inters \cup {NoPath} /\ handler.shows \in Files \cup {NoFile}
  /\ meant \in [Names -> Files \cup {NoFile}]
  /\ home \in [Files -> Inters \cup {NoPath}]
  /\ broken \subseteq Inters /\ mixed \subseteq Inters

LinkInit ==
  /\ data    = [p \in Paths |-> NoFile]
  /\ link    = [p \in Paths |-> NoPath]
  /\ call    = [t \in Tracees |-> NoCall]
  /\ handler = NoHandler
  /\ meant   = [a \in Names |-> NoFile]
  /\ home    = [f \in Files |-> NoPath]
  /\ broken  = {} /\ mixed = {}

--------------------------------------------------------------------------------
(* The host file system *)

Exists(p) == data[p] # NoFile \/ link[p] # NoPath

Target(p)  == IF link[p] = NoPath THEN p ELSE link[p]
Content(p) == data[Target(Target(Target(Target(p))))]

\* The files and links after rename(p, q), unlink(p), symlink(target, p).
Moved(fun, none, p, q) == [fun EXCEPT ![q] = fun[p], ![p] = IF p = q THEN @ ELSE none]

Rename(p, q) ==
  /\ Exists(p)
  /\ data' = Moved(data, NoFile, p, q)
  /\ link' = Moved(link, NoPath, p, q)

Unlink(p) ==
  /\ Exists(p)
  /\ data' = [data EXCEPT ![p] = NoFile]
  /\ link' = [link EXCEPT ![p] = NoPath]

Symlink(target, p) ==
  /\ ~Exists(p)
  /\ link' = [link EXCEPT ![p] = target]
  /\ UNCHANGED data

HostCall(c) ==
  \/ c.do = "rename"  /\ Rename(c.from, c.to)
  \/ c.do = "unlink"  /\ Unlink(c.to)
  \/ c.do = "symlink" /\ Symlink(c.from, c.to)

Possible(c) ==
  \/ c.do = "rename"  /\ Exists(c.from)
  \/ c.do = "unlink"  /\ Exists(c.to)
  \/ c.do = "symlink" /\ ~Exists(c.to)

--------------------------------------------------------------------------------
(* What other calls of the guests see *)

\* translated_path: calls other than link, unlink and rename are given the final path of a
\* name, if it is one of a faked hard link.
TranslatedPath(p) ==
  IF link[p] \in Inters /\ link[link[p]] # NoPath THEN link[link[p]] ELSE p

\* The st_nlink of stat(2) and statx(2) for a path so translated: the host's, 1, for a file
\* that is under its name; 0 when they fail.
Nlink(p) ==
  LET final == CASE Count(p) > 0       -> p
                 [] p \in Inters       -> link[p]
                 [] link[p] \in Inters -> link[link[p]]
                 [] OTHER              -> p
  IN  IF final = NoPath THEN 0 ELSE IF Count(final) = 0 THEN 1 ELSE Count(final)

--------------------------------------------------------------------------------
Do(what, from, to) == [do |-> what, from |-> from, to |-> to]

--------------------------------------------------------------------------------
(* What the handlers will do, computed from what they read first *)

\* Intermediate path i now stands for p, which was final path old.
Recounted(i, old, p) == <<Do("rename", old, p), Do("unlink", NoPath, i), Do("symlink", p, i)>>

\* Mutants of Decrement: one name too early or too late.
MutDecrementEarly(p) ==
  LET i == link[p]
  IN IF i = NoPath \/ link[i] = NoPath THEN <<>>
     ELSE IF Count(link[i]) > 2 THEN Recounted(i, link[i], Final(i, Count(link[i]) - 1))
     ELSE <<Do("unlink", NoPath, i), Do("unlink", NoPath, link[i])>>
MutDecrementLate(p) ==
  LET i == link[p]
  IN IF i = NoPath \/ link[i] = NoPath THEN <<>>
     ELSE IF Count(link[i]) > 1 THEN Recounted(i, link[i], Final(i, Count(link[i]) - 1))
     ELSE <<Do("unlink", NoPath, i)>>

\* decrement_link_count: the last name takes the file with it.
Decrement(p) ==
  LET i == link[p]
  IN IF i = NoPath \/ link[i] = NoPath THEN <<>>
     ELSE IF Count(link[i]) > 1 THEN Recounted(i, link[i], Final(i, Count(link[i]) - 1))
     ELSE <<Do("unlink", NoPath, i), Do("unlink", NoPath, link[i])>>

\* What it lowers the count of.
Decremented(p) == IF Decrement(p) = <<>> THEN NoPath ELSE link[p]

\* Mutant of FirstLink: the count is not that of two names.
MutFirstLink(p, i) ==
  <<Do("rename", p, Final(i, 1)), Do("symlink", Final(i, 1), i), Do("symlink", i, p)>>

\* move_and_symlink_path of regular file p, given intermediate path i, ...
FirstLink(p, i) ==
  <<Do("rename", p, Final(i, 2)), Do("symlink", Final(i, 2), i), Do("symlink", i, p)>>

\* Mutant of NextLink: the new count is written after the old one.
MutNextLink(i) == Recounted(i, link[i], Final(i, 10 * Count(link[i]) + Count(link[i]) + 1))

\* ... and of a name whose file already has intermediate path i.
NextLink(i) == Recounted(i, link[i], Final(i, Count(link[i]) + 1))

\* The first intermediate path of name p that leads nowhere; the last one, if all are in use.
Unused(p) ==
  {i \in Inters : /\ i[1] = p[1] /\ (Content(i) = NoFile \/ i[2] = MaxSuffix)
                  /\ \A j \in Inters : j[1] = p[1] /\ j[2] < i[2] => Content(j) # NoFile}

--------------------------------------------------------------------------------
(* The calls of the guests *)

\* The calls that lower a count for name p, and have not removed it yet.
Removing(p) == {t \in Tracees : call[t].dec # NoPath /\ call[t].to = p}

\* The intermediate path of name p when another call is removing p.
Disturbed(p) == IF Removing(p) = {} THEN {} ELSE {link[p]} \ {NoPath}

\* The path that the handler is giving to name p, while p is moved away.
Taken(p) ==
  IF /\ ~Exists(p)
     /\ \E n \in 1 .. Len(handler.todo) - 1 : Do("symlink", handler.path, p) = handler.todo[n]
  THEN {handler.path} ELSE {}

\* open(2) with O_CREAT and O_EXCL of a new file, wholly in the kernel.
Create(t, a, f) ==
  /\ call[t] = NoCall
  /\ ~Exists(Name(a))
  /\ \A p \in Paths : data[p] # f
  /\ home[f] = NoPath /\ \A b \in Names : meant[b] # f
  /\ data'  = [data EXCEPT ![Name(a)] = f]
  /\ meant' = [meant EXCEPT ![a] = f]
  /\ broken' = broken \cup Taken(Name(a))
  /\ mixed'  = mixed \cup Taken(Name(a))
  /\ UNCHANGED <<link, call, handler, home>>

\* The path that a first link takes, if it is in use.
InUse(op, from, path) ==
  IF op = "link" /\ link[from] = NoPath /\ Content(path) # NoFile THEN {path} ELSE {}

\* MaxBroken bounds the calls that run at once when paths were mishandled.
Starts(t, op, from, to, todo, path, dec) ==
  /\ call[t] = NoCall /\ handler = NoHandler
  /\ \/ Cardinality(broken) <= MaxBroken
     \/ Cardinality(broken) <= MaxBroken + 1 /\ \A u \in Tracees : call[u] = NoCall
  /\ call'    = [call EXCEPT ![t] = [op |-> op, from |-> from, to |-> to, dec |-> dec,
                                     half |-> "proot"]]
  /\ handler' = [tracee |-> t, todo |-> todo, path |-> path,
                 shows |-> IF op = "link" THEN meant[from[1]] ELSE NoFile]
  /\ broken'  = broken \cup Disturbed(from) \cup Disturbed(to) \cup InUse(op, from, path)
  /\ UNCHANGED <<hostVars, meant, home, mixed>>

\* link(p, q), of a file that exists: PRoot's half is all there is.
Link(t, p, q) ==
  /\ Exists(p)
  /\ \/ /\ link[p] = NoPath
        /\ \E i \in Unused(p) :
             Starts(t, "link", p, q, FirstLink(p, i) \o <<Do("symlink", i, q)>>, i, NoPath)
     \/ /\ link[p] # NoPath /\ link[link[p]] # NoPath
        /\ Count(link[link[p]]) < MaxCount
        /\ Starts(t, "link", p, q, NextLink(link[p]) \o <<Do("symlink", link[p], q)>>,
                  link[p], NoPath)

\* unlink(p), and rename(p, q) which removes the name q when there is one.
Removes(t, op, p, q) ==
  Starts(t, op, p, q, Decrement(q), Decremented(q), Decremented(q))

--------------------------------------------------------------------------------
(* PRoot's half *)

\* A name of path gone, or none, is removed for a count of path dec, or none.
Mishandled(gone, dec) == IF gone = dec THEN {} ELSE {gone, dec} \ {NoPath}

Current == call[handler.tracee]

\* The call moves the file of a name to its final path.
Shares(c) == c.do = "rename" /\ \E a \in Names : c.from = Name(a)

\* The path that a file is moved to is still that of other names, or is given a link.
Mixing(c) ==
  IF link[c.from] # NoPath \/ (\E a \in Names : link[Name(a)] = handler.path)
  THEN {handler.path} ELSE {}

\* The call, the last one of link(), makes the new name.
NewName(c) == Current.op = "link" /\ c.to = Current.to /\ Len(handler.todo) = 1

\* The next host call of the handler succeeds.
Step ==
  /\ handler.todo # <<>>
  /\ LET c == Head(handler.todo)
     IN /\ HostCall(c)
        /\ handler' = [handler EXCEPT !.todo = Tail(@),
                                     !.shows = IF Shares(c) THEN Content(c.from) ELSE @]
        /\ IF Shares(c) /\ data[c.from] # NoFile
           THEN home' = [home EXCEPT ![data[c.from]] = handler.path] ELSE UNCHANGED home
        /\ IF c.do = "rename" /\ link[c.from] # NoPath
           THEN broken' = broken \cup {handler.path, link[c.from]} ELSE UNCHANGED broken
        /\ mixed' = mixed \cup IF Shares(c) THEN Mixing(c) ELSE {}
        /\ IF NewName(c)
           THEN meant' = [meant EXCEPT ![c.to[1]] = handler.shows]
           ELSE UNCHANGED meant
  /\ UNCHANGED call

\* The call of tracee t is over without its other half.
Fails(t) ==
  /\ call'    = [call EXCEPT ![t] = NoCall]
  /\ handler' = NoHandler

\* The new name of link() is in use, or with Faults cannot be made: the count is lowered
\* again.
NewNameFails ==
  /\ handler.todo # <<>> /\ NewName(Head(handler.todo))
  /\ Possible(Head(handler.todo)) => Faults
  /\ handler' = [handler EXCEPT !.todo = Decrement(Current.from)]
  /\ broken'  = broken \cup Mishandled(Decremented(Current.from), handler.path)
  /\ UNCHANGED <<hostVars, call, meant, home, mixed>>

\* Any other host call that is not possible, or with Faults that does not
\* succeed, makes the handler return at once: what it did is not undone.
HostCallFails ==
  /\ handler.todo # <<>> /\ ~NewName(Head(handler.todo))
  /\ Possible(Head(handler.todo)) => Faults
  /\ Fails(handler.tracee)
  /\ broken' = broken \cup {handler.path}
  /\ UNCHANGED <<hostVars, meant, home, mixed>>

\* The handler is over: the kernel does its half of unlink() and rename().
HandlerEnds ==
  /\ handler # NoHandler /\ handler.todo = <<>>
  /\ handler' = NoHandler
  /\ call' = [call EXCEPT ![handler.tracee] =
                IF @.op = "link" THEN NoCall ELSE [@ EXCEPT !.half = "kernel"]]
  /\ UNCHANGED <<hostVars, history>>

--------------------------------------------------------------------------------
(* The kernel's half *)

KernelUnlink(t) ==
  LET c == call[t]
  IN /\ c.op = "unlink" /\ c.half = "kernel"
     /\ IF Exists(c.to)
        THEN /\ Unlink(c.to)
             /\ meant'  = [meant EXCEPT ![c.to[1]] = NoFile]
             /\ broken' = broken \cup Mishandled(link[c.to], c.dec)
        ELSE /\ broken' = broken \cup Mishandled(NoPath, c.dec)
             /\ UNCHANGED <<hostVars, meant>>
     /\ call' = [call EXCEPT ![t] = NoCall]
     /\ UNCHANGED <<handler, home, mixed>>

KernelRename(t) ==
  LET c == call[t]
  IN /\ c.op = "rename" /\ c.half = "kernel"
     /\ IF Exists(c.from) /\ c.from # c.to
        THEN /\ Rename(c.from, c.to)
             /\ meant'  = [meant EXCEPT ![c.to[1]] = meant[c.from[1]], ![c.from[1]] = NoFile]
             /\ broken' = broken \cup Mishandled(link[c.to], c.dec)
                            \cup Disturbed(c.from) \cup Taken(c.to)
             /\ mixed'  = mixed \cup Taken(c.to)
        ELSE /\ broken' = broken \cup Mishandled(NoPath, c.dec)
             /\ UNCHANGED <<hostVars, meant, mixed>>
     /\ call' = [call EXCEPT ![t] = NoCall]
     /\ UNCHANGED <<handler, home>>

\* PRoot and its tracees are killed, and started again.
Killed ==
  /\ Faults
  /\ \E t \in Tracees : call[t] # NoCall
  /\ call'    = [t \in Tracees |-> NoCall]
  /\ handler' = NoHandler
  /\ broken'  = broken \cup (({handler.path} \cup {call[t].dec : t \in Tracees}) \ {NoPath})
  /\ UNCHANGED <<hostVars, meant, home, mixed>>

--------------------------------------------------------------------------------
LinkNext ==
  \/ \E t \in Tracees :
       \/ \E a \in Names :
            \/ \E f \in Files : Create(t, a, f)
            \/ Removes(t, "unlink", Name(a), Name(a))
            \/ \E b \in Names : \/ Link(t, Name(a), Name(b))
                                \/ Removes(t, "rename", Name(a), Name(b))
       \/ KernelUnlink(t) \/ KernelRename(t)
  \/ Step \/ NewNameFails \/ HostCallFails \/ HandlerEnds
  \/ Killed

LinkSpec == LinkInit /\ [][LinkNext]_vars

--------------------------------------------------------------------------------
(* Properties *)

NamesOf(i) == {a \in Names : link[Name(a)] = i}
Quiet      == handler = NoHandler
Fine(f)    == home[f] = NoPath \/ home[f] \notin broken

(***************************************************************************)
(* The count stat() shows of each name is the number of names, less those  *)
(* that are about to be removed by the kernel, whatever links, unlinks and *)
(* renames ran, unless the path was mishandled in one of these ways: a     *)
(* handler was cut short; the kernel did not remove the name whose count   *)
(* was lowered; two calls lowered it for one name; a name was taken by     *)
(* another file in the moment link() had moved it away; link() took a path *)
(* in use, as all were.                                                    *)
(***************************************************************************)
CountsNames ==
  Quiet => \A i \in Inters \ broken :
    link[i] # NoPath =>
      /\ data[link[i]] # NoFile
      /\ Nlink(i) + Cardinality({t \in Tracees : call[t].dec = i}) = Cardinality(NamesOf(i))
      /\ \A a \in NamesOf(i) : Nlink(TranslatedPath(Name(a))) = Nlink(i)

(***************************************************************************)
(* Every name that is not about to be removed shows the content it was     *)
(* given by open, link and rename.  Where the path it leads to, or the one *)
(* its file was given, was mishandled, it shows that content or nothing;   *)
(* another file only where two met: the path was given to a file while it  *)
(* was still that of other names (access() finds a link that leads nowhere *)
(* free, and the last path is taken in any case), a name that had become a *)
(* link was moved to it, or a name that link() had moved away was taken.   *)
(***************************************************************************)
NamesShowContent ==
  Quiet => \A a \in Names : Removing(Name(a)) = {} =>
    LET shown == Content(TranslatedPath(Name(a)))
    IN \/ shown = meant[a]
       \/ /\ link[Name(a)] \in broken \/ (meant[a] # NoFile /\ ~Fine(meant[a]))
          /\ shown = NoFile \/ link[Name(a)] \in mixed

(***************************************************************************)
(* A file that has lost its last name does not stay on the host's disk.    *)
(***************************************************************************)
NothingLeaks ==
  Quiet => \A p \in Paths :
    data[p] # NoFile /\ Fine(data[p]) => \E a \in Names : meant[a] = data[p]

(***************************************************************************)
(* No name ever shows another file than the one it was given.  Not true of *)
(* the code, see README: where two files met at a path, it does.           *)
(***************************************************************************)
NeverAnothersFile ==
  Quiet => \A a \in Names : Removing(Name(a)) = {} =>
    Content(TranslatedPath(Name(a))) \in {meant[a], NoFile}

(***************************************************************************)
(* "Make it so fake hard links look like real hard link with respect to    *)
(* number of links and inode" (link2symlink.c:316): between two calls, the *)
(* st_nlink of a file is the number of its names.                          *)
(***************************************************************************)
LooksLikeHardLink ==
  (\A t \in Tracees : call[t] = NoCall) =>
     \A a \in Names : LET i == link[Name(a)]
                      IN i # NoPath /\ link[i] # NoPath
                           => Nlink(TranslatedPath(Name(a))) = Cardinality(NamesOf(i))
================================================================================

------------------------------- MODULE Mounts -------------------------------
(***************************************************************************)
(* The file-system namespaces of the tracees: mount(2), umount(2),         *)
(* pivot_root(2) and chroot(2) emulated on the bindings (syscall/enter.c,  *)
(* fake_id0/chroot.c), the working directory PRoot keeps for each tracee,  *)
(* and what a clone(2) shares or copies (new_child(), tracee/tracee.c).    *)
(*                                                                         *)
(* A tracee has a FileSystemNameSpace, which tracees cloned with CLONE_FS  *)
(* share; that has a working directory and refers to lists of bindings,    *)
(* which every tracee shares but for the children of a CLONE_NEWNS and the *)
(* tracees that called chroot(2).  The directory of an emulated tmpfs is   *)
(* removed with the FileSystemNameSpace of the tracee that mounted it.     *)
(*                                                                         *)
(* The calls take canonical guest paths; PathCanon covers how one is made. *)
(***************************************************************************)
EXTENDS Bindings

CONSTANTS Tracees,      \* every process of the history
          First1,       \* the one PRoot starts
          Startup,      \* the bindings of the command line, "/" among them
          Cwd,          \* the directory the first process starts in
          HostDirs,     \* the directories of the host
          GuestPaths,   \* the guest paths the calls use
          PivotPairs,   \* the arguments of pivot_root(2)
          Renames,      \* the arguments of rename(2)
          TmpNames,     \* the names of the temporary directories, in order
          Chroots,      \* TRUE when fake_id0 emulates chroot(2)
          MaxCalls      \* how many calls a history has

ASSUME MountsAssumption ==
    /\ First1 \in Tracees
    /\ \E i \in DOMAIN Startup : Startup[i].guest = << >>
    /\ Cwd \in GuestPaths

VARIABLES
    fs,        \* the FileSystemNameSpace of a tracee, 0 when it does not live
    cwd,       \* the working directory of a FileSystemNameSpace
    listsOf,   \* the lists of bindings a FileSystemNameSpace refers to
    lists,     \* the lists of bindings
    dirs,      \* the directories that exist on the host
    owner,     \* of a temporary directory: whose end removes it
    stripped,  \* clone_stripped_newns
    clone,     \* the flags of the clone(2) a tracee is in, or << >>
    mntns,     \* the mount namespace the program believes a tracee is in
    calls      \* how many calls were made

mountsVars == <<fs, cwd, listsOf, lists, dirs, owner, stripped, clone, mntns, calls>>

Ids == 1 .. Cardinality(Tracees) + (IF Chroots THEN 1 ELSE 0)

Alive(t) == fs[t] # 0

\* A tracee that runs, and is not in clone(2).
Runs(t) == Alive(t) /\ clone[t] = << >>

NS(t) == lists[listsOf[fs[t]]]

Fresh == {i \in Ids : i \notin {fs[t] : t \in Tracees}
                      /\ i \notin {listsOf[fs[t]] : t \in {u \in Tracees : Alive(u)}}}

Count == calls < MaxCalls /\ calls' = calls + 1

(***************************************************************************)
(* Paths.                                                                  *)
(***************************************************************************)

IsDir(ns, path) == ToHost(ns, path) \in dirs

\* canonicalize() of a canonical path: each component but the last exists.
Resolves(ns, path) ==
    \A k \in 1 .. Len(path) - 1 : IsDir(ns, SubSeq(path, 1, k))

------------------------------------------------------------------------------
(***************************************************************************)
(* The system calls.                                                       *)
(***************************************************************************)

\* Mutant of NewCwd: the host path is kept.
MutNewCwd(ns, path) == ToHost(ns, path)

\* The working directory after chdir(2): translated and back.
NewCwd(ns, path) == ToGuest(ns, ToHost(ns, path))

\* chdir(2), fchdir(2): the ending "." requires a directory.
Chdir(t, path) ==
    /\ Runs(t) /\ Count
    /\ Resolves(NS(t), path) /\ IsDir(NS(t), path)
    /\ NewCwd(NS(t), path) # NoPath
    /\ cwd' = [cwd EXCEPT ![fs[t]] = NewCwd(NS(t), path)]
    /\ UNCHANGED <<fs, listsOf, lists, dirs, owner, stripped, clone, mntns>>

\* The directories of the host once one is renamed.
Renamed(from, to) ==
    {IF IsPrefix(from, d) THEN SubstitutePrefix(d, from, to) ELSE d : d \in dirs}

\* rename(2) of a directory, once the kernel has done it: the working directory
\* of the caller follows.
Rename(t, old, new) ==
    LET ns   == NS(t)
        from == ToHost(ns, old)
        to   == ToHost(ns, new)
        was  == ToGuest(ns, from)
        is   == ToGuest(ns, to)
        here == cwd[fs[t]]
    IN  /\ Runs(t) /\ Count
        /\ Resolves(ns, old) /\ from \in dirs
        /\ Resolves(ns, new) /\ to \notin dirs /\ Front(to) \in dirs
        /\ from \notin DOMAIN owner /\ ~ IsPrefix(from, to)
        /\ dirs' = Renamed(from, to)
        /\ cwd' = IF NoPath \in {was, is} THEN cwd
                  ELSE IF IsPrefix(was, here)
                  THEN [cwd EXCEPT ![fs[t]] = SubstitutePrefix(here, was, is)]
                  ELSE cwd
        /\ UNCHANGED <<fs, listsOf, lists, owner, stripped, clone, mntns>>

\* insort_binding3(tracee, tracee->fs, host, target)
AddBinding(t, host, target) ==
    lists' = [lists EXCEPT ![listsOf[fs[t]]] =
                  Insort(@, Binding(host, target, FALSE))]

\* mount(2) with MS_BIND.
MountBind(t, source, target) ==
    /\ Runs(t) /\ Count
    /\ Resolves(NS(t), source) /\ Resolves(NS(t), target)
    /\ AddBinding(t, ToHost(NS(t), source), target)
    /\ UNCHANGED <<fs, cwd, listsOf, dirs, owner, stripped, clone, mntns>>

\* The temporary directory of the next tmpfs.
NextTmp == <<TmpNames[Cardinality(DOMAIN owner) + 1]>>

\* mount(2) of a tmpfs: a fresh directory, even if the target is wrong.
MountTmpfs(t, target) ==
    /\ Runs(t) /\ Count
    /\ Cardinality(DOMAIN owner) < Len(TmpNames)
    /\ owner' = [d \in DOMAIN owner \cup {NextTmp} |->
                     IF d = NextTmp THEN fs[t] ELSE owner[d]]
    /\ dirs' = dirs \cup {NextTmp}
    /\ IF Resolves(NS(t), target) THEN AddBinding(t, NextTmp, target)
       ELSE UNCHANGED lists
    /\ UNCHANGED <<fs, cwd, listsOf, stripped, clone, mntns>>

\* umount(2): a binding of exactly this path, but the one of "/".
Umount(t, target) ==
    /\ Runs(t) /\ Count
    /\ Resolves(NS(t), target) /\ target # << >>
    /\ GuestBinding(NS(t), target).guest = target
    /\ lists' = [lists EXCEPT ![listsOf[fs[t]]] =
                     Unlink(@, GuestBinding(NS(t), target))]
    /\ UNCHANGED <<fs, cwd, listsOf, dirs, owner, stripped, clone, mntns>>

\* pivot_root(2)
Pivot(t, new, putOld, reuse) ==
    /\ Runs(t) /\ Count
    /\ Resolves(NS(t), new) /\ Resolves(NS(t), putOld)
    /\ lists' = [lists EXCEPT ![listsOf[fs[t]]] =
                     PivotRoot(@, ToHost(@, new), new, putOld, reuse)]
    /\ UNCHANGED <<fs, cwd, listsOf, dirs, owner, stripped, clone, mntns>>

\* A FileSystemNameSpace is freed with its last tracee: the directories of
\* the tmpfs its tracees mounted are removed.
Released(left) ==
    LET gone == {d \in DOMAIN owner : owner[d] # 0
                                      /\ owner[d] \notin {left[t] : t \in Tracees}}
    IN  /\ dirs' = dirs \ gone
        /\ owner' = [d \in DOMAIN owner |-> IF d \in gone THEN 0 ELSE owner[d]]

\* chroot(2) under fake_id0: a FileSystemNameSpace with the new root only,
\* unless the root is the current one or a binding lies under it.
Chroot(t, path) ==
    LET ns     == NS(t)
        root   == ToHost(ns, path)
        alone  == Insort(NoBindings, Binding(root, << >>, TRUE))
        where  == ToGuest(alone, ToHost(ns, cwd[fs[t]]))
    IN  /\ Chroots /\ Runs(t) /\ Count
        /\ Resolves(ns, path) /\ IsDir(ns, path)
        /\ root # Root(ns)
        /\ \A i \in 1 .. Len(ns.guest) - 1 : ~ Encloses(path, ns.guest[i].guest)
        /\ Resolves(ns, cwd[fs[t]])
        /\ \E id \in Fresh :
              /\ fs'      = [fs EXCEPT ![t] = id]
              /\ listsOf' = [listsOf EXCEPT ![id] = id]
              /\ lists'   = [lists EXCEPT ![id] = alone]
              /\ cwd'     = [cwd EXCEPT ![id] = IF where = NoPath THEN << >>
                                                ELSE where]
        /\ Released(fs')
        /\ UNCHANGED <<stripped, clone, mntns>>

------------------------------------------------------------------------------
(***************************************************************************)
(* Processes.                                                              *)
(***************************************************************************)

\* clone(2) enters: its CLONE_NEW* flags are removed, CLONE_NEWNS remembered.
CloneEnter(t, newns, share) ==
    /\ Runs(t) /\ Count
    /\ clone' = [clone EXCEPT ![t] = [newns |-> newns, share |-> share]]
    /\ stripped' = [stripped EXCEPT ![t] = @ \/ newns]
    /\ UNCHANGED <<fs, cwd, listsOf, lists, dirs, owner, mntns>>

\* The kernel refuses to make a process.
CloneFails(t) ==
    /\ Alive(t) /\ clone[t] # << >>
    /\ clone' = [clone EXCEPT ![t] = << >>]
    /\ UNCHANGED <<fs, cwd, listsOf, lists, dirs, owner, stripped, mntns, calls>>

\* Mutant of Copied: the bindings are shared whatever the flags.
MutCopied(t) == FALSE

\* The child gets its own bindings.
Copied(t) == stripped[t]

\* new_child(): the file-system namespace is shared or copied.
NewChild(t, child) ==
    /\ Alive(t) /\ clone[t] # << >>
    /\ mntns[child] = 0
    /\ IF clone[t].share
       THEN /\ fs' = [fs EXCEPT ![child] = fs[t]]
            /\ UNCHANGED <<cwd, listsOf, lists>>
       ELSE \E id \in {i \in Fresh : \A j \in Fresh : i <= j} :
            /\ fs'  = [fs EXCEPT ![child] = id]
            /\ cwd' = [cwd EXCEPT ![id] = cwd[fs[t]]]
            /\ IF Copied(t)
               THEN /\ listsOf' = [listsOf EXCEPT ![id] = id]
                    /\ lists' = [lists EXCEPT ![id] =
                                     FoldLeft(Insort, NoBindings, NS(t).guest)]
               ELSE /\ listsOf' = [listsOf EXCEPT ![id] = listsOf[fs[t]]]
                    /\ UNCHANGED lists
    /\ stripped' = [stripped EXCEPT ![t] = FALSE]
    /\ mntns' = [mntns EXCEPT ![child] =
                     IF clone[t].newns
                     THEN 1 + Cardinality({u \in Tracees : mntns[u] # 0})
                     ELSE mntns[t]]
    /\ clone' = [clone EXCEPT ![t] = << >>]
    /\ UNCHANGED <<dirs, owner, calls>>

\* A tracee dies, and is freed.
Exit(t) ==
    /\ Runs(t)
    /\ \E u \in Tracees \ {t} : Alive(u)
    /\ fs' = [fs EXCEPT ![t] = 0]
    /\ Released(fs')
    /\ stripped' = [stripped EXCEPT ![t] = FALSE]
    /\ UNCHANGED <<cwd, listsOf, lists, clone, mntns, calls>>

------------------------------------------------------------------------------
MountsInit ==
    /\ fs       = [t \in Tracees |-> IF t = First1 THEN 1 ELSE 0]
    /\ cwd      = [i \in Ids |-> Cwd]
    /\ listsOf  = [i \in Ids |-> 1]
    /\ lists    = [i \in Ids |-> Initialize(Pending(Startup))]
    /\ dirs     = HostDirs
    /\ owner    = << >>
    /\ stripped = [t \in Tracees |-> FALSE]
    /\ clone    = [t \in Tracees |-> << >>]
    /\ mntns    = [t \in Tracees |-> IF t = First1 THEN 1 ELSE 0]
    /\ calls    = 0

\* The calls of @t that change a namespace.
CallOf(t) ==
    \/ \E path \in GuestPaths : Chdir(t, path)
    \/ \E source, target \in GuestPaths : MountBind(t, source, target)
    \/ \E target \in GuestPaths : MountTmpfs(t, target)
    \/ \E target \in GuestPaths : Umount(t, target)
    \/ \E pair \in PivotPairs, reuse \in BOOLEAN :
          Pivot(t, pair[1], pair[2], reuse)
    \/ \E path \in GuestPaths : Chroot(t, path)
    \/ \E pair \in Renames : Rename(t, pair[1], pair[2])

\* A program that asks for CLONE_NEWNS does not ask for CLONE_FS.
MountsNext ==
    \E t \in Tracees :
        \/ CallOf(t)
        \/ \E newns, share \in BOOLEAN : ~(newns /\ share)
                                          /\ CloneEnter(t, newns, share)
        \/ CloneFails(t)
        \/ \E child \in Tracees : NewChild(t, child)
        \/ Exit(t)

MountsSpec == MountsInit /\ [][MountsNext]_mountsVars

------------------------------------------------------------------------------
(***************************************************************************)
(* Properties.                                                             *)
(***************************************************************************)

Used == {listsOf[fs[t]] : t \in {u \in Tracees : Alive(u)}}

Elements(list) == {list[i] : i \in DOMAIN list}

\* INVARIANT NestedFirst.  Whatever was mounted, unmounted, pivoted and copied,
\* the first binding that contains a path is the deepest one, as
\* insort_binding() says ("so as to make the substitution of nested bindings
\* deterministic"); a guest path is bound once, both lists hold the same
\* bindings, and "/" is the last, as get_root() asserts.
NestedFirst ==
    \A n \in Used :
        LET g == lists[n].guest
            h == lists[n].host
        IN  /\ \A i, j \in DOMAIN g : i < j => ~ IsPrefix(g[i].guest, g[j].guest)
            /\ \A i, j \in DOMAIN h : i < j => ~ Encloses(h[i].host, h[j].host)
            /\ Elements(g) = Elements(h) /\ Len(g) = Len(h)
            /\ Last(g).guest = << >>

\* ACTION PROPERTY NamespacesIsolated.  What a tracee mounts, unmounts or pivots
\* is not seen by one that a CLONE_NEWNS separates from it (new_child(): "so
\* emulated mount(2) calls don't propagate back to the parent").
NamespacesIsolated ==
    [][calls' # calls => \A t, u \in Tracees :
           Alive(u) /\ mntns[u] # mntns[t] /\ CallOf(t) =>
               listsOf'[fs'[u]] = listsOf[fs[u]] /\ NS(u)' = NS(u)]_mountsVars

\* One of the guest paths @host is bound to is hidden by a nested binding.
Hidden(ns, host) ==
    \E b, c \in Elements(ns.guest) :
        /\ IsPrefix(b.host, host)
        /\ Encloses(b.guest, c.guest)
        /\ IsPrefix(c.guest, SubstitutePrefix(host, b.host, b.guest))

\* Two bindings lead to @host.
Aliased(ns, host) ==
    \E b, c \in Elements(ns.guest) :
        b # c /\ IsPrefix(b.host, host) /\ IsPrefix(c.host, host)

\* ACTION PROPERTY CwdFollows.  The working directory chdir(2) leaves, found by
\* going back from the host path, names the directory that was asked for, unless
\* another binding hides one of the paths that lead to it; and a directory that
\* is renamed is still the working directory of the one that renames it, unless
\* two bindings lead to it.
CwdFollows ==
    [][calls' # calls => \A t \in Tracees :
           /\ \A path \in GuestPaths :
                  LET there == ToHost(NS(t), path)
                  IN  Chdir(t, path) =>
                          \/ ToHost(NS(t), cwd'[fs[t]]) = there
                          \/ Hidden(NS(t), there)
           /\ \A pair \in Renames :
                  LET from == ToHost(NS(t), pair[1])
                      to   == ToHost(NS(t), pair[2])
                      here == ToHost(NS(t), cwd[fs[t]])
                  IN  Rename(t, pair[1], pair[2]) /\ IsPrefix(from, here) =>
                          \/ ToHost(NS(t), cwd'[fs[t]])
                                 = SubstitutePrefix(here, from, to)
                          \/ Aliased(NS(t), here) \/ Aliased(NS(t), to)]_mountsVars

\* A binding that moves with the new root comes to lie at or above @path, or
\* at or above its place under @after, where another one may already be.
Covered(ns, new, after, path) ==
    \E b \in Elements(ns.guest) :
        \/ /\ Encloses(new, b.guest)
           /\ \/ IsPrefix(Below(new, b.guest), path)
              \/ IsPrefix(Below(new, b.guest), after \o path)
        \/ IsPrefix(after, b.guest) /\ IsPrefix(b.guest, after \o path)

\* ACTION PROPERTY PivotKeepsOldTree.  After a pivot_root(2) whose put_old is under
\* the new root, every path of the old tree is found under put_old, "so the
\* tracee can still reach it": all but what is under the new root or put_old
\* itself, and where another binding lies (the memory of a startup binding that
\* a moved one replaces is read after it was freed).
PivotKeepsOldTree ==
    [][calls' # calls => \A t \in Tracees, pair \in PivotPairs, reuse \in BOOLEAN :
           LET new   == pair[1]
               after == PutOldAfter(new, pair[2])
           IN  after # NoPath /\ Pivot(t, new, pair[2], reuse) =>
                   \A path \in GuestPaths :
                       \/ IsPrefix(new, path) \/ IsPrefix(after, path)
                       \/ Covered(NS(t), new, after, path)
                       \/ ToHost(NS(t)', after \o path) = ToHost(NS(t), path)]_mountsVars

\* PROPERTY TreesKept.  What a call does to the tree one tracee sees is what was
\* asked, nested bindings and its working directory included, and nothing in the tree of another
\* namespace (syscall/enter.c, syscall/chain.c, tracee/tracee.c).
TreesKept == []NestedFirst /\ NamespacesIsolated /\ CwdFollows /\ PivotKeepsOldTree

\* INVARIANT TmpfsThere.  A tmpfs that is mounted has its directory, as long as a
\* tracee sees it (emulate_mount(): "get a fresh empty directory").
TmpfsThere ==
    \A n \in Used : \A i \in DOMAIN lists[n].guest :
        lists[n].guest[i].host \in DOMAIN owner =>
            lists[n].guest[i].host \in dirs

\* ACTION PROPERTY ClonesShare.  A child of a clone(2) without CLONE_NEWNS uses
\* the bindings of its parent (new_child() consumes the flag lest it
\* "incorrectly isolate the bindings of an unrelated later clone").
ClonesShare ==
    [][\A t, child \in Tracees :
           NewChild(t, child) /\ ~ clone[t].newns =>
               listsOf'[fs'[child]] = listsOf[fs[t]]]_mountsVars

\* ACTION PROPERTY StartupStays.  umount(2) leaves the bindings put in place at
\* PRoot startup (emulate_umount(): they "are NOT removed").
StartupStays ==
    [][\A t \in Tracees, target \in GuestPaths :
           Umount(t, target) =>
               \A b \in Elements(NS(t).guest) :
                   b.boot => b \in Elements(NS(t)'.guest)]_mountsVars
==============================================================================

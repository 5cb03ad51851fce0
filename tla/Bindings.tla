------------------------------ MODULE Bindings ------------------------------
(***************************************************************************)
(* The bindings of PRoot (path/binding.c, path/path.c): which host path    *)
(* each guest path stands for.  A namespace is a pair of sorted lists that *)
(* hold the same bindings, one looked up by guest path and one by host     *)
(* path; a lookup takes the FIRST binding of the list that contains the    *)
(* path, so what it finds depends on the order insort_binding() keeps.     *)
(*                                                                         *)
(* A path is the sequence of its components, << >> is "/".  The paths of   *)
(* this module are canonical, as the ones the code compares.               *)
(***************************************************************************)
EXTENDS Integers, Sequences, FiniteSets, SequencesExt, FiniteSetsExt

\* What a translation that fails returns (-ENOENT, -EPERM).
CONSTANT NoPath

\* A binding: boot says that it was put in place at PRoot startup.
Binding(host, guest, boot) == [host |-> host, guest |-> guest, boot |-> boot]

\* @path1 is a strict ancestor of @path2 (PATH1_IS_PREFIX).
Encloses(path1, path2) == IsStrictPrefix(path1, path2)

\* @path without its first components, those of @prefix.
Below(prefix, path) == SubSeq(path, Len(prefix) + 1, Len(path))

\* The path that stands for @path once @old is replaced with @new.
SubstitutePrefix(path, old, new) == new \o Below(old, path)

------------------------------------------------------------------------------
(***************************************************************************)
(* The sorted lists.                                                       *)
(***************************************************************************)

\* Mutant of InsortPosition: a new binding is always put at the head of the list.
MutInsortPosition(list, inside, outside) == 1

\* Where a new binding goes: after the last one it contains (on the host
\* side, or is equal to), else before the first one that contains it.
InsortPosition(list, inside, outside) ==
    CASE inside # {} -> Max(inside) + 1
      [] inside = {} /\ outside # {} -> Min(outside)
      [] OTHER -> 1

\* insort_binding(tracee, HOST, binding)
InsortHost(list, b) ==
    InsertAt(list,
             InsortPosition(list,
                 {i \in DOMAIN list : IsPrefix(b.host, list[i].host)},
                 {i \in DOMAIN list : Encloses(list[i].host, b.host)}),
             b)

\* The places of @list that @b replaces: the same guest path.
Replaced(list, b) == {i \in DOMAIN list : list[i].guest = b.guest}

\* insort_binding(tracee, GUEST, binding)
InsortGuest(list, b) ==
    IF Replaced(list, b) # {}
    THEN ReplaceAt(list, Min(Replaced(list, b)), b)
    ELSE InsertAt(list,
                  InsortPosition(list,
                      {i \in DOMAIN list : Encloses(b.guest, list[i].guest)},
                      {i \in DOMAIN list : Encloses(list[i].guest, b.guest)}),
                  b)

\* remove_binding_from_all_lists()
Unlink(ns, b) == [guest |-> SelectSeq(ns.guest, LAMBDA x : x # b),
                  host  |-> SelectSeq(ns.host, LAMBDA x : x # b)]

\* insort_binding2(): a binding with the same guest path leaves both lists.
Insort(ns, b) ==
    LET old    == {ns.guest[i] : i \in Replaced(ns.guest, b)}
        guests == InsortGuest(ns.guest, b)
        hosts  == IF old = {} THEN ns.host
                  ELSE Unlink(ns, CHOOSE x \in old : TRUE).host
    IN  [guest |-> guests, host |-> InsortHost(hosts, b)]

NoBindings == [guest |-> << >>, host |-> << >>]

\* new_binding(): the list of the command line, sorted like the guest list.
Pending(bindings) == FoldLeft(InsortGuest, << >>, bindings)

\* initialize_bindings(): the pending bindings in reverse order, "/" first.
Initialize(pending) == FoldLeft(Insort, NoBindings, Reverse(pending))

------------------------------------------------------------------------------
(***************************************************************************)
(* Lookups.                                                                *)
(***************************************************************************)

\* get_root(): the host path of the guest's "/", the last binding.
Root(ns) == Last(ns.guest).host

\* belongs_to_guestfs()
BelongsToGuestfs(ns, host) == IsPrefix(Root(ns), host)

\* The first binding of the list that contains the path.
First(list, places) == IF places = {} THEN NoPath ELSE list[Min(places)]

\* get_binding(tracee, GUEST, path)
GuestBinding(ns, path) ==
    First(ns.guest, {i \in DOMAIN ns.guest : IsPrefix(ns.guest[i].guest, path)})

\* get_binding(tracee, HOST, path): nothing is found for a path of the rootfs.
HostBinding(ns, path) ==
    First(ns.host, {i \in DOMAIN ns.host :
                        /\ IsPrefix(ns.host[i].host, path)
                        /\ Root(ns) = << >> \/ ~ BelongsToGuestfs(ns, path)})

\* substitute_binding(tracee, GUEST, path)
ToHost(ns, path) ==
    LET b == GuestBinding(ns, path)
    IN  IF b = NoPath THEN NoPath ELSE SubstitutePrefix(path, b.guest, b.host)

\* detranslate_path(tracee, path, NULL)
ToGuest(ns, path) ==
    LET b == HostBinding(ns, path)
    IN  CASE b # NoPath -> SubstitutePrefix(path, b.host, b.guest)
          [] b = NoPath /\ BelongsToGuestfs(ns, path) -> Below(Root(ns), path)
          [] OTHER -> NoPath

------------------------------------------------------------------------------
(***************************************************************************)
(* pivot_root(2) (emulate_pivot_root()).                                   *)
(***************************************************************************)

\* Where the previous root becomes reachable: put_old as a path under the
\* new root, NoPath when it is not strictly under it.
PutOldAfter(new, putOld) ==
    IF Encloses(new, putOld) THEN Below(new, putOld) ELSE NoPath

\* The state of the loop over the snapshot of the guest list: the lists, the
\* places of the snapshot whose binding left the lists, and of those the ones
\* whose memory was freed -- a binding of the startup belongs to its lists only
\* -- and then given to a later binding, which the loop reads in its place.
LoopState(ns) == [ns |-> ns, gone |-> {}, free |-> {}, now |-> << >>]

\* insort_binding3() in the loop.
LoopInsort(s, snapshot, b, reuse) ==
    LET hit == {i \in DOMAIN snapshot \ s.gone : snapshot[i].guest = b.guest}
        got == IF reuse /\ s.free # {} THEN {Max(s.free)} ELSE {}
    IN  [ns   |-> Insort(s.ns, b),
         gone |-> s.gone \cup hit,
         free |-> (s.free \ got) \cup {i \in hit : snapshot[i].boot},
         now  |-> [i \in DOMAIN s.now \cup got |->
                       IF i \in got THEN b ELSE s.now[i]]]

\* Mutant of Reexpose: the bindings of the previous root are not re-exposed.
MutReexpose(s, snapshot, b, after, reuse) == s

\* A binding of the previous root's tree, as seen under put_old.
Reexpose(s, snapshot, b, after, reuse) ==
    IF after = NoPath THEN s
    ELSE IF IsPrefix(after, b.guest) THEN s
    ELSE LoopInsort(s, snapshot, Binding(b.host, after \o b.guest, FALSE), reuse)

\* A binding under the new root moves with the pivot.
Rebase(s, snapshot, i, b, new, reuse) ==
    LET t == LoopInsort(s, snapshot,
                        Binding(b.host, Below(new, b.guest), FALSE), reuse)
        live == i \notin t.gone \/ i \in DOMAIN t.now
    IN  [t EXCEPT !.ns   = IF live THEN Unlink(@, b) ELSE @,
                  !.gone = @ \cup {i},
                  !.free = @ \cup (IF live /\ b.boot THEN {i} ELSE {})]

\* The namespace after emulate_pivot_root(): @host is what @new stands for.
\* @reuse: the allocator gives freed memory to the next allocation.
PivotRoot(ns, host, new, putOld, reuse) ==
    LET snapshot == ns.guest
        root     == Last(ns.guest)
        after    == PutOldAfter(new, putOld)
        switched == Insort(Unlink(ns, root), Binding(host, << >>, FALSE))
        start    == [LoopState(switched) EXCEPT !.gone = {Len(snapshot)}]
        exposed  == IF after = NoPath THEN start
                    ELSE LoopInsort(start, snapshot,
                                    Binding(root.host, after, FALSE), reuse)
        Step(s, i) ==
            LET b == IF i \in DOMAIN s.now THEN s.now[i] ELSE snapshot[i]
            IN  CASE i = Len(snapshot) \/ b.guest = << >> -> s
                  [] b.guest # << >> /\ new # << >> /\ Encloses(new, b.guest) ->
                        Rebase(s, snapshot, i, b, new, reuse)
                  [] OTHER -> Reexpose(s, snapshot, b, after, reuse)
    IN  FoldLeft(Step, exposed, [i \in DOMAIN snapshot |-> i]).ns
==============================================================================

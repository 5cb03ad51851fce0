------------------------------ MODULE PathCanon ------------------------------
(***************************************************************************)
(* How a path of a tracee becomes a canonical guest path (canonicalize(),  *)
(* path/canon.c): component by component, through the bindings and the     *)
(* symbolic links, some of which PRoot emulates (path/proc.c); and how the *)
(* text of a link is brought back to the guest (detranslate_path()).       *)
(*                                                                         *)
(* A world w is what the walk sees: ns, the bindings; node, the kind of    *)
(* each host path that exists and, for a link, its text; me, the pid of    *)
(* the tracee; cwd and exe, what PRoot knows of each tracee.  A text is    *)
(* [abs, names, slash]: absolute or not, its components, "." and ".."      *)
(* among them, and whether it ends with a slash.                           *)
(***************************************************************************)
EXTENDS Bindings

CONSTANT MAXSYMLINKS

Dir == [kind |-> "dir", text |-> << >>]
File == [kind |-> "file", text |-> << >>]
Missing == [kind |-> "missing", text |-> << >>]
Link(abs, names) ==
    [kind |-> "link", text |-> [abs |-> abs, names |-> names, slash |-> FALSE]]

NodeAt(w, host) == IF host \in DOMAIN w.node THEN w.node[host] ELSE Missing

NodeOf(w, guest) == NodeAt(w, ToHost(w.ns, guest))

\* The error of a component that is not the last (substitute_binding_stat()).
StatError(node, final) ==
    IF final \/ node.kind \in {"dir", "link"} THEN "OK"
    ELSE IF node.kind = "missing" THEN "ENOENT" ELSE "ENOTDIR"

------------------------------------------------------------------------------
(***************************************************************************)
(* The links of /proc that PRoot emulates.                                 *)
(***************************************************************************)

Default == [action |-> "DEFAULT", path |-> << >>]
Canonicalize(path) == [action |-> "CANONICALIZE", path |-> path]
DontCanonicalize(path) == [action |-> "DONT_CANONICALIZE", path |-> path]

\* readlink_proc() when @base is strictly under /proc.
ReadlinkPid(w, base, name) ==
    LET pid == base[2]
    IN  CASE Len(base) = 2 /\ pid \in DOMAIN w.cwd /\ name = "cwd" ->
                Canonicalize(w.cwd[pid])
          [] Len(base) = 2 /\ pid \in DOMAIN w.cwd /\ name = "exe" ->
                Canonicalize(w.exe[pid])
          [] Len(base) = 2 /\ pid \in DOMAIN w.cwd /\ name = "root" ->
                Canonicalize(Root(w.ns))
          [] Len(base) = 3 /\ base[3] = "fd" -> DontCanonicalize(Append(base, name))
          [] OTHER -> Default

\* readlink_proc()
ReadlinkProc(w, base, name) ==
    CASE base = <<"proc">> /\ name = "self" -> Canonicalize(<<"proc", w.me>>)
      [] Encloses(<<"proc">>, base) -> ReadlinkPid(w, base, name)
      [] OTHER -> Default

\* The directory of a link as readlink_proc() is asked: the guest path, or what
\* it is bound to when that may be in /proc.
ProcBase(w, guest) ==
    IF IsPrefix(<<"proc">>, guest) THEN guest ELSE ToHost(w.ns, guest)

------------------------------------------------------------------------------
(***************************************************************************)
(* detranslate_path() of the text of a link, found at the host @referrer.  *)
(***************************************************************************)

\* The path of the binding that a host path belongs to (get_path_binding()).
HostBindingPath(ns, host) ==
    LET b == HostBinding(ns, host) IN IF b = NoPath THEN NoPath ELSE b.host

\* Are the bindings resolved in the text of the link at @referrer?
FollowsBinding(w, names, referrer) ==
    \/ Encloses(<<"proc">>, referrer)
    \/ /\ ~ BelongsToGuestfs(w.ns, referrer)
       /\ HostBindingPath(w.ns, names) # NoPath
       /\ HostBindingPath(w.ns, names) = HostBindingPath(w.ns, referrer)

\* The guest path an absolute text stands for.
LinkPath(w, names, referrer) ==
    LET emulated == IF Encloses(<<"proc">>, referrer) /\ Len(referrer) > 2
                    THEN ReadlinkPid(w, Front(referrer), Last(referrer))
                    ELSE Default
        b == HostBinding(w.ns, names)
    IN  CASE emulated.action = "CANONICALIZE" -> emulated.path
          [] /\ emulated.action # "CANONICALIZE"
             /\ FollowsBinding(w, names, referrer) /\ b # NoPath ->
                SubstitutePrefix(names, b.host, b.guest)
          [] OTHER -> IF BelongsToGuestfs(w.ns, names)
                      THEN Below(Root(w.ns), names) ELSE names

\* The text as the tracee is shown it.
Shown(w, text, referrer) ==
    IF text.abs THEN [text EXCEPT !.names = LinkPath(w, @, referrer)] ELSE text

------------------------------------------------------------------------------
(***************************************************************************)
(* canonicalize()                                                          *)
(***************************************************************************)

Parent(path) == IF path = << >> THEN << >> ELSE Front(path)

\* What the link @name of the directory @path leads to: a text to go on with.
Referee(w, path, name, final) ==
    LET host == ToHost(w.ns, Append(path, name))
        proc == ReadlinkProc(w, ProcBase(w, path), name)
    IN  CASE proc.action = "CANONICALIZE" ->
                [stop |-> FALSE,
                 text |-> [abs |-> TRUE, names |-> proc.path, slash |-> FALSE]]
          [] proc.action = "DONT_CANONICALIZE" /\ final ->
                [stop |-> TRUE,
                 text |-> [abs |-> TRUE, names |-> proc.path, slash |-> FALSE]]
          [] OTHER -> [stop |-> FALSE, text |-> Shown(w, NodeAt(w, host).text, host)]

\* The walk: where it is, its error, how many links it followed, whether it ended.
At(path) == [path |-> path, err |-> "OK", followed |-> 0, stop |-> FALSE]

\* Mutant of Relative: a relative link starts from "/".
MutRelative(path, text) == << >>

\* Where the text of a link found in the directory @path starts from.
Relative(path, text) == path

RECURSIVE Canon(_, _, _, _, _)
Canon(w, user, deref, base, level) ==
    LET Step(s, i) ==
            LET name  == user.names[i]
                final == i = Len(user.names)
                plain == final /\ ~ user.slash
                next  == Append(s.path, name)
                stat  == StatError(NodeOf(w, next), final)
                to    == Referee(w, s.path, name, plain)
                sub   == Canon(w, to.text, TRUE, Relative(s.path, to.text),
                               level + s.followed + 1)
                after == IF sub.err # "OK" THEN sub.err
                         ELSE IF sub.path = s.path THEN "ELOOP"
                         ELSE StatError(NodeOf(w, sub.path), final)
            IN  CASE s.stop \/ s.err # "OK" -> s
                  [] ~(s.stop \/ s.err # "OK") /\ name = "." -> s
                  [] ~(s.stop \/ s.err # "OK") /\ name = ".." ->
                        [s EXCEPT !.path = Parent(@)]
                  [] OTHER ->
                        IF stat # "OK" THEN [s EXCEPT !.err = stat]
                        ELSE IF NodeOf(w, next).kind # "link" \/ (plain /\ ~ deref)
                        THEN [s EXCEPT !.path = next]
                        ELSE IF to.stop
                        THEN [s EXCEPT !.path = to.text.names, !.stop = TRUE]
                        ELSE [s EXCEPT !.path = sub.path, !.err = after,
                                       !.followed = @ + 1]
    IN  IF level > MAXSYMLINKS THEN [At(base) EXCEPT !.err = "ELOOP"]
        ELSE FoldLeft(Step, At(IF user.abs THEN << >> ELSE base),
                      [i \in DOMAIN user.names |-> i])

\* translate_path() of @user, relative to @base: the guest path it goes through,
\* its error and the host path.
TranslatePath(w, user, deref, base) ==
    LET c == Canon(w, user, deref, base, 0)
    IN  [err  |-> IF c.err # "OK" THEN c.err
                  ELSE IF ToHost(w.ns, c.path) = NoPath THEN "ENOENT" ELSE "OK",
         path |-> c.path,
         host |-> IF c.err = "OK" THEN ToHost(w.ns, c.path) ELSE NoPath]

------------------------------------------------------------------------------
(***************************************************************************)
(* The walk of the kernel, in a mount namespace that has these bindings:   *)
(* the text of a link replaces it at the head of what is left to walk, and *)
(* no more than @limit links are followed.  With @refuse, a link that      *)
(* stands for the directory it is in cannot be followed.                   *)
(***************************************************************************)

RECURSIVE Walk(_, _, _, _, _, _, _)
Walk(w, left, slash, deref, path, limit, refuse) ==
    IF left = << >> THEN [path |-> path, err |-> "OK"]
    ELSE LET name  == Head(left)
             rest  == Tail(left)
             final == rest = << >> /\ ~ slash
             next  == Append(path, name)
             node  == NodeOf(w, next)
             to    == Referee(w, path, name, final)
             start == IF to.text.abs THEN << >> ELSE path
             self  == [path |-> path, err |-> "OK"]
                        = Walk(w, to.text.names, FALSE, TRUE, start, limit - 1, FALSE)
             Here(err) == [path |-> path, err |-> err]
         IN  CASE name = "." -> Walk(w, rest, slash, deref, path, limit, refuse)
               [] name = ".." -> Walk(w, rest, slash, deref, Parent(path), limit, refuse)
               [] OTHER ->
                    IF node.kind = "link" /\ (~ final \/ deref)
                    THEN IF limit = 0 THEN Here("ELOOP")
                         ELSE IF to.stop THEN [path |-> to.text.names, err |-> "OK"]
                         ELSE IF refuse /\ self THEN Here("ELOOP")
                         ELSE Walk(w, to.text.names \o rest, slash, deref, start, limit - 1, refuse)
                    ELSE IF rest # << >> /\ node.kind # "dir" /\ node.kind # "link"
                    THEN Here(IF node.kind = "missing" THEN "ENOENT" ELSE "ENOTDIR")
                    ELSE Walk(w, rest, slash, deref, next, limit, refuse)

------------------------------------------------------------------------------
(***************************************************************************)
(* Properties.                                                             *)
(***************************************************************************)

\* Whatever the bindings and the links, canonicalize() finds the path the kernel
\* finds -- or the same error -- when this one does not run out of links, and
\* refuses a path that never ends.  The one link it refuses and the kernel does
\* not is met on the way and stands for its own directory ("Detect
\* self-referential symlinks").  The count of links starts again in each
\* recursion: up to 2^MAXSYMLINKS - 1.
CanonAgrees(w, user, deref, base) ==
    LET c == Canon(w, user, deref, base, 0)
        Kernel(limit) == Walk(w, user.names, user.slash, deref,
                              IF user.abs THEN << >> ELSE base, limit, TRUE)
        k == Kernel(MAXSYMLINKS)
    IN  \/ k.err # "ELOOP" /\ c.err = k.err /\ (c.err = "OK" => c.path = k.path)
        \/ k.err = "ELOOP" /\ c.err = "ELOOP"
        \/ k.err = "ELOOP" /\ c.err = Kernel(2 ^ MAXSYMLINKS - 1).err
==============================================================================

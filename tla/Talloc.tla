-------------------------------- MODULE Talloc --------------------------------
(***************************************************************************)
(* The allocator all of PRoot's objects live in (talloc/talloc.c): each    *)
(* chunk of memory is a child of another one, or of no one, and is freed   *)
(* with it; talloc_reference() gives a chunk a further parent through a    *)
(* handle, itself a chunk.  PRoot shares bindings, heaps, load information *)
(* and the state of extensions between tracees in that way.                *)
(*                                                                         *)
(* PRoot makes no pools, sets no memory limit and no NULL tracking, and    *)
(* none of its destructors refuses: these are left out.  Nor does it ever  *)
(* let a chunk own, through whatever children and references, one that     *)
(* owns it.                                                                *)
(***************************************************************************)
EXTENDS Integers, Sequences, FiniteSets, SequencesExt

CONSTANTS
    Chunks,     \* the places a chunk may be at
    NULL        \* the parent of a chunk that has none

ASSUME TallocAssumption == NULL \notin Chunks

VARIABLES
    chunk,       \* of a chunk: parent, kids (child, next: the newest first), refs
                \* (its handles, the newest first), target (of a handle), loop
                \* (TALLOC_FLAG_LOOP); NotAlive
    lastOp      \* history: the last operation and what it returned

tallocVars == <<chunk, lastOp>>

NotAlive == [alive |-> FALSE]

AliveIn(h) == {c \in Chunks : h[c].alive}
Unused(h) == Chunks \ AliveIn(h)

Chunk(parent, target) ==
    [alive |-> TRUE, parent |-> parent, kids |-> << >>, refs |-> << >>,
     target |-> target, loop |-> FALSE]

\* The chunk is taken out of the list of its parent.
Detach(h, c) ==
    LET p == h[c].parent
        off == [h EXCEPT ![c].parent = NULL]
    IN  IF p = NULL THEN off ELSE [off EXCEPT ![p].kids = Remove(@, c)]

Attach(h, p, c) ==
    LET on == [h EXCEPT ![c].parent = p]
    IN  IF p = NULL THEN on ELSE [on EXCEPT ![p].kids = <<c>> \o @]

\* __talloc(): a new chunk @c.
New(h, p, c, target) == Attach([h EXCEPT ![c] = Chunk(NULL, target)], p, c)

\* _talloc_reference_loc()
Refer(h, context, c, handle) ==
    LET with == New(h, context, handle, c)
    IN  [with EXCEPT ![c].refs = <<handle>> \o @]

\* talloc_is_parent(): @c is @d, or above it.
RECURSIVE IsParent(_, _, _)
IsParent(h, d, c) == d # NULL /\ (d = c \/ IsParent(h, h[d].parent, c))

\* _talloc_steal_internal()
Steal(h, p, c) ==
    IF p = c \/ (h[c].parent = p /\ p # NULL) THEN h
    ELSE Attach(Detach(h, c), p, c)

\* The newest reference comes from below the chunk itself.
FromBelow(h, c) == IsParent(h, Head(h[c].refs), c)

\* Mutant of NewParent: the child goes to the next parent up.
MutNewParent(h, c, child) == h[c].parent

\* Who owns a child that cannot be freed: the newest reference's owner before
\* the attempt, else the parent of its parent.
NewParent(h, c, child) ==
    LET owner == IF h[child].refs = << >> THEN NULL ELSE h[Head(h[child].refs)].parent
    IN  IF owner = NULL THEN h[c].parent ELSE owner

\* The end of a chunk: its destructor, which for a handle leaves the list of its
\* target, its place under its parent, its children, itself.
RECURSIVE FreeInternal(_, _), FreeChildren(_, _)

\* _tc_free_internal(): [heap, freed].
FreeInternal(h, c) ==
    IF h[c].refs # << >>
    THEN LET below == FromBelow(h, c)
             less == FreeInternal(h, Head(h[c].refs)).chunk
         IN  IF below THEN FreeInternal(less, c) ELSE [chunk |-> less, freed |-> FALSE]
    ELSE IF h[c].loop THEN [chunk |-> h, freed |-> TRUE]
    ELSE LET t == h[c].target
             quiet == IF t = NULL THEN h ELSE [h EXCEPT ![t].refs = Remove(@, c)]
             alone == FreeChildren([Detach(quiet, c) EXCEPT ![c].loop = TRUE], c)
         IN  [chunk |-> [alone EXCEPT ![c] = NotAlive], freed |-> TRUE]

\* _tc_free_children_internal()
FreeChildren(h, c) ==
    IF h[c].kids = << >> THEN h
    ELSE LET child == Head(h[c].kids)
             r == FreeInternal(h, child)
         IN  IF r.freed \/ r.chunk[child].parent # c THEN FreeChildren(r.chunk, c)
             ELSE FreeChildren(Steal(r.chunk, NewParent(h, c, child), child), c)

OwnerOf(h, handle) == h[handle].parent

\* The newest handle of @c that hangs off @context, NULL if there is none.
HandleOf(h, context, c) ==
    LET mine == SelectSeq(h[c].refs, LAMBDA r : OwnerOf(h, r) = context)
    IN  IF mine = << >> THEN NULL ELSE Head(mine)

\* talloc_unlink(): [heap, done].
UnlinkFrom(h, context, c) ==
    LET handle == HandleOf(h, context, c)
        heir == OwnerOf(h, Head(h[c].refs))
        less == FreeInternal(h, HandleOf(h, heir, c)).chunk
    IN  CASE handle # NULL -> [chunk |-> FreeInternal(h, handle).chunk, done |-> TRUE]
          [] handle = NULL /\ context # h[c].parent -> [chunk |-> h, done |-> FALSE]
          [] handle = NULL /\ context = h[c].parent /\ h[c].refs = << >> ->
                [chunk |-> FreeInternal(h, c).chunk, done |-> TRUE]
          [] OTHER -> [chunk |-> Steal(less, heir, c), done |-> TRUE]

------------------------------------------------------------------------------
Did(op, on) == lastOp' = [op |-> op, on |-> on]

\* What ends at the latest with @c if nobody else owns it.
RECURSIVE Owned(_, _)
Owned(h, c) ==
    {c} \cup UNION {Owned(h, d) : d \in ToSet(h[c].kids)
                                    \cup (IF h[c].target = NULL THEN {} ELSE {h[c].target})}

\* The chunks a program holds: it never names a handle.
Objects == {c \in AliveIn(chunk) : chunk[c].target = NULL}
Contexts == Objects \cup {NULL}

Alloc(p, c) ==
    /\ p \in Contexts /\ c \in Unused(chunk)
    /\ chunk' = New(chunk, p, c, NULL)
    /\ Did("alloc", c)

Reference(context, c, handle) ==
    /\ context \in Contexts /\ c \in Objects /\ handle \in Unused(chunk)
    /\ context \notin Owned(chunk, c)
    /\ chunk' = Refer(chunk, context, c, handle)
    /\ Did("reference", c)

\* talloc_free(): a chunk with references is left alone, unless it has one and
\* no parent.
TallocFree(c) ==
    /\ c \in Objects
    /\ chunk' = IF chunk[c].refs = << >> THEN FreeInternal(chunk, c).chunk
               ELSE IF chunk[c].parent = NULL /\ Len(chunk[c].refs) = 1
               THEN UnlinkFrom(chunk, NULL, c).chunk
               ELSE chunk
    /\ Did("free", c)

Unlink(context, c) ==
    /\ context \in Contexts /\ c \in Objects
    /\ chunk' = UnlinkFrom(chunk, context, c).chunk
    /\ Did("unlink", c)

\* talloc_reparent(): for its parent, or for one of its references.
Reparent(old, new, c) ==
    /\ {old, new} \subseteq Contexts /\ c \in Objects /\ new \notin Owned(chunk, c)
    /\ chunk' = IF old = chunk[c].parent THEN Steal(chunk, new, c)
               ELSE IF HandleOf(chunk, old, c) = NULL THEN chunk
               ELSE Steal(chunk, new, HandleOf(chunk, old, c))
    /\ Did("reparent", c)

\* Mutant of Repointed: the children keep the old address of their parent.
MutRepointed(k, c, d) ==
    LET Now(x) == IF x = c THEN d ELSE x
    IN  [k EXCEPT !.target = Now(@), !.kids = [i \in DOMAIN @ |-> Now(@[i])]]

\* What a chunk says of its neighbours once one of them moved from @c to @d.
Repointed(k, c, d) ==
    LET Now(x) == IF x = c THEN d ELSE x
    IN  [k EXCEPT !.parent = Now(@), !.target = Now(@),
                  !.kids = [i \in DOMAIN @ |-> Now(@[i])]]

\* talloc_realloc() to a size that takes another place @d.
Realloc(c, d) ==
    /\ c \in Objects /\ d \in Unused(chunk) /\ chunk[c].refs = << >>
    /\ chunk' = [x \in Chunks |->
                   LET k == chunk[IF x = d THEN c ELSE x]
                   IN  IF x = c \/ ~ k.alive THEN NotAlive ELSE Repointed(k, c, d)]
    /\ Did("realloc", d)

TallocInit == chunk = [c \in Chunks |-> NotAlive] /\ lastOp = [op |-> "none", on |-> NULL]

TallocNext ==
    \E c \in Chunks :
        \/ \E p \in Chunks \cup {NULL} :
              \/ Alloc(p, c) \/ Unlink(p, c)
              \/ \E handle \in Chunks : Reference(p, c, handle)
              \/ \E new \in Chunks \cup {NULL} : Reparent(p, new, c)
        \/ TallocFree(c)
        \/ \E d \in Chunks : Realloc(c, d)

------------------------------------------------------------------------------
\* INVARIANT WellLinked.  Whatever is referenced, freed, moved and unlinked, in
\* any order: a chunk that is alive hangs off one that is alive, in its list
\* once; no chunk is below itself; a handle's target is alive and knows it; and
\* no free is left half done.
WellLinked ==
    LET h == chunk
    IN  \A c \in AliveIn(h) :
        /\ h[c].parent = NULL \/ (h[c].parent \in AliveIn(h) /\ Contains(h[h[c].parent].kids, c))
        /\ \A i, j \in DOMAIN h[c].kids :
               h[h[c].kids[i]].alive /\ h[h[c].kids[i]].parent = c /\ (h[c].kids[i] = h[c].kids[j] => i = j)
        /\ h[c].target = NULL \/ (h[c].target \in AliveIn(h) /\ Contains(h[h[c].target].refs, c))
        /\ \A i \in DOMAIN h[c].refs : h[h[c].refs[i]].alive /\ h[h[c].refs[i]].target = c
        /\ ~ h[c].loop

Owners(h, c) == {h[c].parent} \cup {OwnerOf(h, r) : r \in ToSet(h[c].refs)}

\* ACTION PROPERTY OwnersKeep.  "The pointer remains valid until both the original
\* caller and this given context are freed": whatever ends with a call, another
\* object is left to exactly those of its owners that have not ended, and ends
\* itself when none is left; the object of the call ends only if it was not
\* referenced.
OwnersKeep ==
    [][\A c \in Objects :
         LET left == {o \in Owners(chunk, c) : o = NULL \/ chunk'[o].alive}
         IN  lastOp'.op # "realloc" =>
                IF c = lastOp'.on THEN ~ chunk'[c].alive => chunk[c].refs = << >>
                ELSE left = IF chunk'[c].alive THEN Owners(chunk', c) ELSE {}]_tallocVars

\* PROPERTY ObjectsOwned.  The tree of objects is sound after any call, and every
\* object lives exactly as long as somebody owns it (talloc/talloc.c).
ObjectsOwned == []WellLinked /\ OwnersKeep
==============================================================================
